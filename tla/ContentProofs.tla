--------------------------- MODULE ContentProofs ---------------------------
(***************************************************************************)
(* What is proved of Content for all sets of users, rows and requests, any *)
(* number of files and failures: of Publishing first, then of Marks,       *)
(* Pictures, Tracks, Stickers, Pages and Ranking.                          *)
(***************************************************************************)
EXTENDS Content, FiniteSetTheorems, WellFoundedInduction, TLAPS

\* Between the update of the post and the last effect.
Mid == {"unlink", "link", "insert", "tell", "music"}

Works(p) == proc[p].at \in Mid

\* At work on a publication, which is what everybody but updateCaption is.
Publicizes(p) == Works(p) /\ proc[p].op # "edit"

\* Inserted as published, and not yet finalized.
Raw == \E p \in Proc : proc[p].at = "update" /\ proc[p].op = "create"

NotOut == status \in {"none", "DRAFT", "SCHEDULED"} \/ Raw

\* Two are at work at once only if they overlapped.
OneWriter ==
  "overlap" \notin cause => \A p, q \in Proc : Works(p) /\ Works(q) => p = q

\* What the operation, the next call and the status that was read say of each other.
StepFine(x) ==
  /\ x.at = "post" => status = "none" /\ files = "kept"
  /\ x.at \in {"post", "enqueue", "reply", "undo"} => x.op = "create"
  /\ x.at \in {"caption", "unlink"} => x.op = "edit"
  /\ x.at = "unqueue" => x.op = "publish"
  /\ x.at \in {"waiting", "check", "delete", "files"} => x.op \notin {"create", "edit"}
  /\ x.at \in {"update", "tell", "music"} => x.op # "edit"
  /\ x.at \in {"unqueue", "update"} /\ x.op # "create" => x.seen \in {"DRAFT", "SCHEDULED"}
  /\ x.op = "create" => files # "none"
  /\ x.at \in Effects /\ x.op = "create" =>
       x.seen = "PUBLISHED" /\ status \in {"PUBLISHED", "gone"} /\ "draft edited" \notin cause
  /\ x.at \in Effects \cup {"unqueue", "enqueue", "reply"} => status # "none"
  /\ x.at \in Mid /\ x.op # "edit" => status \in {"PUBLISHED", "gone"}
  /\ x.at \in Mid /\ "draft edited" \notin cause => status \in {"PUBLISHED", "gone"}
  /\ x.at = "unlink" => cause \cap {"edited", "draft edited"} # {}
  /\ x.at = "insert" => x.tag \in Tag /\ count[x.tag] > 0
  /\ x.at = "files" => status = "gone"
  /\ x.at = "undo" => status \in {"none", "gone"} \/ cause \cap {"failure", "overlap"} # {}

StepsOK ==
  /\ \A p \in Proc : StepFine(proc[p])
  /\ proc[Job].op \in {"none", "job"}
  /\ status = "none" \/ (\E p \in Proc : proc[p].at = "enqueue") => proc[Job].at = "start"
  /\ \A p, q \in Proc : proc[p].op = "create" /\ proc[q].op = "create" => p = q
  /\ files = "none" => status = "none"
  /\ "draft edited" \in cause => status # "none"
  /\ status = "none" => links = {}

\* While nobody overlaps, the followers are told once, by the one who publishes.
ToldOK ==
  "overlap" \notin cause =>
    /\ NotOut => told = 0 /\ uses = 0 /\ \A p \in Proc : ~Publicizes(p)
    /\ \A p \in Proc : Publicizes(p) =>
         /\ told = (IF proc[p].at = "music" THEN 1 ELSE 0) /\ uses = 0
    /\ told \in {0, 1} /\ uses \in {0, 1}
    /\ cause \cap {"failure", "draft edited"} = {} /\ status = "PUBLISHED" /\ ~NotOut
         /\ (\A p \in Proc : ~Publicizes(p)) => told = 1 /\ uses = 1

Spoilt == cause \cap {"failure", "draft edited", "overlap"} # {}

\* What a handler has linked, and what is left.
Linking(x) ==
  /\ x.at = "unlink" => x.todo = caption
  /\ x.at = "link" => caption = links \cup x.todo /\ links \cap x.todo = {}
  /\ x.at = "insert" => /\ caption = links \cup x.todo \cup {x.tag}
                        /\ x.tag \notin links \cup x.todo
                        /\ links \cap x.todo = {}
  /\ x.at \in {"tell", "music"} => caption = links

\* Unless it is spoilt, whoever links has the rest of the caption before him.
LinksOK ==
  ~Spoilt /\ Exists =>
    /\ NotOut => links = {} /\ \A p \in Proc : ~Works(p)
    /\ \A p \in Proc : Linking(proc[p])
    /\ ~NotOut /\ (\A p \in Proc : ~Works(p)) => links = caption

Counted(t) == t \in links \/ \E p \in Proc : proc[p].at = "insert" /\ proc[p].tag = t

CountOK ==
  /\ \A t \in links : count[t] > 0
  /\ cause \subseteq {"lost"} /\ status # "gone" =>
       \A t \in Tag : count[t] = IF Counted(t) THEN 1 ELSE 0

IInv == TypeOK /\ OneWriter /\ StepsOK /\ ToldOK /\ LinksOK /\ CountOK /\ MediaFollowThePost

LEMMA BecomeIs ==
  ASSUME TypeOK, NEW p \in Proc, NEW x \in Process, Become(p, x)
  PROVE  proc' \in [Proc -> Process] /\ proc'[p] = x /\ \A q \in Proc \ {p} : proc'[q] = proc[q]
  BY DEF Become, TypeOK

\* Every place a handler can be at.
Place == {"update", "unlink", "link", "insert", "tell", "music", "start", "post", "enqueue",
          "unqueue", "waiting", "check", "reply", "undo", "caption", "delete", "files", "failed", "end"}

LEMMA GotoIs ==
  ASSUME TypeOK, NEW p \in Proc, NEW l \in Place, Goto(p, l)
  PROVE  /\ proc' \in [Proc -> Process] /\ \A q \in Proc \ {p} : proc'[q] = proc[q]
         /\ proc'[p].at = l /\ proc'[p].op = proc[p].op /\ proc'[p].seen = proc[p].seen
         /\ proc'[p].todo = proc[p].todo /\ proc'[p].tag = proc[p].tag
  <1>1. proc[p] \in Process
    BY DEF TypeOK
  <1>2. [proc[p] EXCEPT !.at = l] \in Process
    BY <1>1 DEF Process, Place, Effects
  <1>3. /\ proc' \in [Proc -> Process] /\ proc'[p] = [proc[p] EXCEPT !.at = l]
        /\ \A q \in Proc \ {p} : proc'[q] = proc[q]
    BY <1>2, BecomeIs DEF Goto
  <1>4. QED BY <1>1, <1>3 DEF Process

LEMMA RejectsIs ==
  ASSUME TypeOK, NEW p \in Proc, Rejects(p)
  PROVE  /\ proc' \in [Proc -> Process] /\ \A q \in Proc \ {p} : proc'[q] = proc[q]
         /\ proc'[p].at \in {"undo", "failed", "end"}
         /\ proc'[p].at = "undo" <=> proc[p].op = "create"
         /\ proc'[p].op = proc[p].op
  <1>1. CASE proc[p].op = "create"
    <2>1. Goto(p, "undo")
      BY <1>1 DEF Rejects
    <2>2. QED BY <1>1, <2>1, GotoIs DEF Place
  <1>2. CASE proc[p].op # "create" /\ p = Job
    <2>1. Goto(p, "failed")
      BY <1>2 DEF Rejects
    <2>2. QED BY <1>2, <2>1, GotoIs DEF Place
  <1>3. CASE proc[p].op # "create" /\ p # Job
    <2>1. Goto(p, "end")
      BY <1>3 DEF Rejects
    <2>2. QED BY <1>3, <2>1, GotoIs DEF Place
  <1>4. QED BY <1>1, <1>2, <1>3

LEMMA StartsIs ==
  ASSUME TypeOK, NEW p \in Proc, NEW op \in {"create", "publish", "edit", "remove"},
         NEW l \in {"post", "unqueue", "caption", "delete"}, Starts(p, op, l)
  PROVE  /\ proc' \in [Proc -> Process] /\ \A q \in Proc \ {p} : proc'[q] = proc[q]
         /\ proc'[p].at = l /\ proc'[p].op = op /\ proc'[p].seen = status
         /\ proc[p].at = "start" /\ p \in Req
  <1> DEFINE x == [Idle EXCEPT !.op = op, !.at = l, !.seen = status]
  <1>1. /\ x \in Process /\ x.at = l /\ x.op = op /\ x.seen = status
    BY DEF TypeOK, Process, Idle, Effects
  <1>2. Become(p, x) /\ proc[p].at = "start" /\ p \in Req
    BY DEF Starts, At
  <1> HIDE DEF x
  <1>3. QED BY <1>1, <1>2, BecomeIs

LEMMA JobIn == Job \in Proc
  BY DEF Proc

LEMMA InitIInv == Init => IInv
  <1> SUFFICES ASSUME Init PROVE IInv
    OBVIOUS
  <1>1. \A p \in Proc : /\ proc[p] \in Process /\ proc[p].at \in {"start", "waiting"}
                        /\ proc[p].op \in {"none", "job"}
                        /\ proc[p].at = "waiting" => proc[p].op = "job"
    BY DEF Init, Idle, Process, Status
  <1>2. TypeOK
    <2>1. proc \in [Proc -> Process]
      BY <1>1 DEF Init
    <2>2. count \in [Tag -> Nat]
      BY DEF Init
    <2>3. links \subseteq Tag /\ told \in Nat /\ uses \in Nat
      BY DEF Init
    <2>4. faults \in 0..FAULTS
      BY FaultsBound DEF Init
    <2>5. /\ status \in Status /\ due \in BOOLEAN /\ caption \subseteq Tag
          /\ files \in {"none", "kept", "removed", "taken"} /\ cause = {}
      BY DEF Init, Status
    <2>6. QED BY <2>1, <2>2, <2>3, <2>4, <2>5 DEF TypeOK
  <1>3. ~Raw /\ \A p \in Proc : ~Works(p) /\ ~Publicizes(p)
    BY <1>1 DEF Raw, Works, Publicizes, Mid
  <1>4. OneWriter
    BY <1>3 DEF OneWriter
  <1>5. StepsOK
    <2>1. \A p \in Proc : StepFine(proc[p])
      BY <1>1, <1>3 DEF StepFine, Mid, Effects
    <2>2. status = "none" => proc[Job].at = "start" /\ links = {}
      BY JobIn DEF Init, Idle
    <2>3. /\ files = "none" => status = "none"
          /\ cause = {}
      BY DEF Init
    <2>4. proc[Job].op \in {"none", "job"} /\ \A p \in Proc : proc[p].op # "create" /\ proc[p].at # "enqueue"
      BY <1>1, JobIn
    <2>5. QED BY <2>1, <2>2, <2>3, <2>4 DEF StepsOK
  <1>6. ToldOK
    BY <1>3 DEF Init, ToldOK, NotOut
  <1>7. LinksOK
    BY <1>1, <1>3 DEF Init, LinksOK, Linking, NotOut
  <1>8. CountOK
    BY <1>1 DEF Init, CountOK, Counted
  <1>9. MediaFollowThePost
    BY DEF Init, MediaFollowThePost, Exists
  <1>10. QED BY <1>2, <1>4, <1>5, <1>6, <1>7, <1>8, <1>9 DEF IInv

-----------------------------------------------------------------------------
(***************************************************************************)
(* Most steps only move one handler outside the publication proper, or     *)
(* break one off.                                                          *)
(***************************************************************************)
\* q is as before, or has left its work to a failure or with the post gone.
Aside(q) ==
  \/ proc'[q] = proc[q]
  \/ /\ proc'[q].at \notin Mid
     /\ proc'[q].at = "update" => proc'[q].op # "create"
     /\ proc[q].at \in Effects => Spoilt' \/ status = "gone"

LEMMA AsideStep ==
  ASSUME IInv, UNCHANGED <<status, content>>, cause \subseteq cause', \A q \in Proc : Aside(q)
  PROVE  OneWriter' /\ ToldOK' /\ LinksOK' /\ CountOK'
  <1>1. \A q \in Proc : Works(q)' => Works(q) /\ proc'[q] = proc[q]
    BY DEF Aside, Works
  <1>2. Raw' => Raw
    BY DEF Raw, Aside
  <1>3. NotOut' => NotOut
    BY <1>2 DEF NotOut
  <1>4. ASSUME ~Spoilt', status # "gone"
        PROVE  /\ ~Spoilt /\ (NotOut' <=> NotOut)
               /\ \A q \in Proc : proc[q].at \in Effects => proc'[q] = proc[q]
    <2>1. \A q \in Proc : proc[q].at \in Effects => proc'[q] = proc[q]
      BY <1>4 DEF Aside
    <2>2. Raw => Raw'
      BY <2>1 DEF Raw, Effects
    <2>3. QED BY <1>3, <1>4, <2>1, <2>2 DEF Spoilt, NotOut
  <1>5. OneWriter'
    BY <1>1 DEF IInv, OneWriter
  <1>6. ToldOK'
    <2>1. \A q \in Proc : Publicizes(q)' => Publicizes(q) /\ proc'[q] = proc[q]
      BY <1>1 DEF Publicizes, Works
    <2>2. ~Spoilt' /\ status # "gone" => \A q \in Proc : Publicizes(q) => Publicizes(q)'
      BY <1>4 DEF Publicizes, Works, Mid, Effects
    <2>3. status = "PUBLISHED" => status # "gone"
      OBVIOUS
    <2>4. "overlap" \notin cause' /\ cause' \cap {"failure", "draft edited"} = {} => ~Spoilt'
      BY DEF Spoilt
    <2>5. QED BY <1>3, <1>4, <2>1, <2>2, <2>3, <2>4 DEF IInv, ToldOK, content, Spoilt
  <1>7. LinksOK'
    <2>1. Exists' => status # "gone" /\ Exists
      BY DEF Exists
    <2>2. ~Spoilt' /\ Exists' => \A q \in Proc : Works(q) <=> Works(q)'
      BY <1>1, <1>4, <2>1 DEF Works, Mid, Effects
    <2>3. \A q \in Proc : proc'[q].at \in Mid => proc'[q] = proc[q]
      BY <1>1 DEF Works
    <2>4. QED BY <1>4, <2>1, <2>2, <2>3 DEF IInv, LinksOK, Linking, content, Mid
  <1>8. CountOK'
    <2>1. cause' \subseteq {"lost"} => ~Spoilt'
      BY DEF Spoilt
    <2>2. ~Spoilt' /\ status # "gone" => \A t \in Tag : Counted(t) <=> Counted(t)'
      BY <1>1, <1>4 DEF Counted, Works, Mid, Effects, content
    <2>3. QED BY <2>1, <2>2 DEF IInv, CountOK, content
  <1>9. QED BY <1>5, <1>6, <1>7, <1>8

\* The job has not been enqueued yet.
JobRests == status = "none" \/ (\E p \in Proc : proc[p].at = "enqueue") => proc[Job].at = "start"

LEMMA StaysPositive == \A a, b \in Nat : a > 0 /\ b >= a => b > 0
  OBVIOUS

LEMMA StepFineStays ==
  ASSUME IInv, NEW q \in Proc, proc'[q] = proc[q], UNCHANGED <<status, files>>,
         cause \subseteq cause', "draft edited" \in cause' => "draft edited" \in cause,
         count' \in [Tag -> Nat], \A t \in Tag : count'[t] >= count[t]
  PROVE  StepFine(proc[q])'
  <1>1. StepFine(proc[q]) /\ count \in [Tag -> Nat]
    BY DEF IInv, StepsOK, TypeOK
  <1>2. proc'[q].at = "insert" => proc'[q].tag \in Tag /\ count'[proc'[q].tag] > 0
    <2>1. SUFFICES ASSUME proc[q].at = "insert"
                   PROVE  proc[q].tag \in Tag /\ count'[proc[q].tag] > 0
      OBVIOUS
    <2>2. proc[q].tag \in Tag /\ count[proc[q].tag] > 0
      BY <1>1, <2>1 DEF StepFine
    <2>3. /\ count[proc[q].tag] \in Nat /\ count'[proc[q].tag] \in Nat
          /\ count'[proc[q].tag] >= count[proc[q].tag]
      BY <1>1, <2>2
    <2>4. QED BY <2>2, <2>3, StaysPositive
  <1>3. proc'[q].at = "undo" => status \in {"none", "gone"} \/ cause' \cap {"failure", "overlap"} # {}
    BY <1>1 DEF StepFine
  <1>4. proc'[q].at = "unlink" => cause' \cap {"edited", "draft edited"} # {}
    BY <1>1 DEF StepFine
  <1>5. /\ proc'[q].at \in Effects /\ proc'[q].op = "create" =>
             /\ proc'[q].seen = "PUBLISHED" /\ status \in {"PUBLISHED", "gone"}
             /\ "draft edited" \notin cause'
        /\ proc'[q].at \in Mid /\ "draft edited" \notin cause' => status \in {"PUBLISHED", "gone"}
    BY <1>1 DEF StepFine
  <1> HIDE DEF IInv
  <1>6. QED BY ZenonT(40), <1>1, <1>2, <1>3, <1>4, <1>5 DEF StepFine

LEMMA StepsStep ==
  ASSUME IInv, UNCHANGED <<status, files>>, status = "none" => links' = {},
         cause \subseteq cause', "draft edited" \in cause' => "draft edited" \in cause,
         count' \in [Tag -> Nat], \A t \in Tag : count'[t] >= count[t],
         \A q \in Proc : proc'[q] = proc[q] \/ StepFine(proc[q])',
         \A q \in Proc : proc'[q].op = "create" => proc[q].op = "create",
         proc'[Job].op \in {"none", "job"}, JobRests'
  PROVE  StepsOK'
  <1>1. ASSUME NEW q \in Proc PROVE StepFine(proc[q])'
    BY StepFineStays
  <1>2. \A p, q \in Proc : proc'[p].op = "create" /\ proc'[q].op = "create" => p = q
    <2>1. \A q \in Proc : proc'[q].op = "create" => proc[q].op = "create"
      OBVIOUS
    <2>2. \A p, q \in Proc : proc[p].op = "create" /\ proc[q].op = "create" => p = q
      BY DEF IInv, StepsOK
    <2>3. QED BY <2>1, <2>2
  <1>3. /\ files' = "none" => status' = "none"
        /\ "draft edited" \in cause' => status' # "none"
    BY DEF IInv, StepsOK
  <1>4. QED BY <1>1, <1>2, <1>3 DEF StepsOK, JobRests

\* A step that leaves the post and its media alone.
LEMMA AsideIInv ==
  ASSUME IInv, UNCHANGED <<status, content, files>>, cause \subseteq cause',
         cause' \subseteq cause \cup {"failure", "lost"}, due' \in BOOLEAN, faults' \in 0..FAULTS,
         proc' \in [Proc -> Process],
         \A q \in Proc : Aside(q),
         \A q \in Proc : proc'[q] = proc[q] \/ StepFine(proc[q])',
         \A q \in Proc : proc'[q].op = "create" => proc[q].op = "create",
         \A q \in Proc : proc[q].at = "files" => proc'[q].at = "files" \/ "failure" \in cause',
         proc'[Job].op \in {"none", "job"}, JobRests'
  PROVE  IInv'
  <1>1. TypeOK'
    <2>1. cause' \subseteq {"failure", "draft edited", "edited", "overlap", "lost"}
      BY DEF IInv, TypeOK
    <2>2. /\ status' \in Status /\ caption' \subseteq Tag /\ links' \subseteq Tag
          /\ count' \in [Tag -> Nat] /\ told' \in Nat /\ uses' \in Nat
          /\ files' \in {"none", "kept", "removed", "taken"}
      BY DEF IInv, TypeOK, content
    <2>3. QED BY <2>1, <2>2 DEF TypeOK
  <1>2. StepsOK'
    <2>1. /\ count' \in [Tag -> Nat] /\ \A t \in Tag : count'[t] >= count[t]
          /\ status = "none" => links' = {}
      <3>1. count \in [Tag -> Nat] /\ count' = count /\ links' = links
        BY DEF IInv, TypeOK, content
      <3>2. status = "none" => links = {}
        BY DEF IInv, StepsOK
      <3>3. QED BY <3>1, <3>2
    <2>2. QED BY <2>1, StepsStep
  <1>3. MediaFollowThePost'
    <2>1. Exists' /\ files' \notin {"kept", "taken"} => cause' \cap {"failure", "overlap"} # {}
      BY DEF IInv, MediaFollowThePost, Exists
    <2>2. ASSUME status' = "gone", \A q \in Proc : proc'[q].at # "files"
          PROVE  files' \in {"removed", "taken"} \/ "failure" \in cause'
      <3>1. (\A q \in Proc : proc[q].at # "files") \/ "failure" \in cause'
        BY <2>2
      <3>2. QED BY <2>2, <3>1 DEF IInv, MediaFollowThePost
    <2>3. QED BY <2>1, <2>2 DEF MediaFollowThePost
  <1>4. QED BY <1>1, <1>2, <1>3, AsideStep DEF IInv

\* The job rests on if p is not the one to start it.
LEMMA JobRestsOn ==
  ASSUME IInv, NEW p \in Proc, \A q \in Proc \ {p} : proc'[q] = proc[q], status' = "none" => status = "none",
         p = Job => proc[p].at # "start", proc'[p].at = "enqueue" => proc[p].at = "enqueue"
  PROVE  JobRests'
  BY JobIn DEF IInv, StepsOK, JobRests

\* One handler that has started moves, and touches nothing else.
LEMMA OneAside ==
  ASSUME IInv, NEW p \in Proc, UNCHANGED <<status, content, files>>, cause \subseteq cause',
         cause' \subseteq cause \cup {"failure", "lost"}, due' \in BOOLEAN, faults' \in 0..FAULTS,
         proc' \in [Proc -> Process], \A q \in Proc \ {p} : proc'[q] = proc[q],
         Aside(p), StepFine(proc[p])', proc'[p].op = proc[p].op,
         proc[p].at # "start", proc'[p].at # "enqueue",
         proc[p].at = "files" => "failure" \in cause'
  PROVE  IInv'
  <1>1. JobRests'
    BY JobRestsOn
  <1>2. proc'[Job].op \in {"none", "job"}
    BY JobIn DEF IInv, StepsOK
  <1>3. \A q \in Proc : Aside(q)
    BY DEF Aside
  <1>4. QED BY <1>1, <1>2, <1>3, AsideIInv

\* A handler breaks off.
LEMMA RejectsStep ==
  ASSUME IInv, NEW p \in Proc, Rejects(p), UNCHANGED <<status, content, files>>, cause \subseteq cause',
         cause' \subseteq cause \cup {"failure", "lost"}, due' \in BOOLEAN, faults' \in 0..FAULTS,
         proc[p].at # "start", proc[p].at = "files" => "failure" \in cause',
         proc[p].at \in Effects => Spoilt' \/ status = "gone",
         proc[p].op = "create" => status \in {"none", "gone"} \/ cause' \cap {"failure", "overlap"} # {}
  PROVE  IInv'
  <1>1. /\ proc' \in [Proc -> Process] /\ \A q \in Proc \ {p} : proc'[q] = proc[q]
        /\ proc'[p].at \in {"undo", "failed", "end"}
        /\ proc'[p].at = "undo" <=> proc[p].op = "create"
        /\ proc'[p].op = proc[p].op
    BY RejectsIs DEF IInv
  <1>2. StepFine(proc[p])
    BY DEF IInv, StepsOK
  <1>3. Aside(p)
    BY <1>1 DEF Aside, Mid
  <1>4. StepFine(proc[p])'
    BY <1>1, <1>2 DEF StepFine, Mid, Effects
  <1>5. QED BY <1>1, <1>3, <1>4, OneAside

\* A handler ends.
LEMMA EndsStep ==
  ASSUME IInv, NEW p \in Proc, Goto(p, "end"), UNCHANGED <<status, content, files>>, cause \subseteq cause',
         cause' \subseteq cause \cup {"failure", "lost"}, due' \in BOOLEAN, faults' \in 0..FAULTS,
         proc[p].at # "start", proc[p].at = "files" => "failure" \in cause',
         proc[p].at \in Effects => Spoilt' \/ status = "gone"
  PROVE  IInv'
  <1>1. /\ proc' \in [Proc -> Process] /\ \A q \in Proc \ {p} : proc'[q] = proc[q]
        /\ proc'[p].at = "end" /\ proc'[p].op = proc[p].op
    BY GotoIs DEF IInv, Place
  <1>2. StepFine(proc[p])
    BY DEF IInv, StepsOK
  <1>3. Aside(p)
    BY <1>1 DEF Aside, Mid
  <1>4. StepFine(proc[p])'
    BY <1>1, <1>2 DEF StepFine, Mid, Effects
  <1>5. QED BY <1>1, <1>3, <1>4, OneAside

-----------------------------------------------------------------------------
(* The steps of this kind, one lemma for each.                              *)

LEMMA ReadStep ==
  ASSUME IInv, NEW p \in Req, PublishRead(p) \/ EditRead(p) \/ RemoveRead(p)
  PROVE  IInv'
  <1>0. p \in Proc /\ p # Job /\ TypeOK
    BY Distinct DEF Proc, IInv
  <1>1. /\ proc' \in [Proc -> Process] /\ \A q \in Proc \ {p} : proc'[q] = proc[q]
        /\ \/ proc'[p].at = "caption" /\ proc'[p].op = "edit"
           \/ proc'[p].at = "delete" /\ proc'[p].op = "remove"
           \/ proc'[p].at = "unqueue" /\ proc'[p].op = "publish" /\ proc'[p].seen \in {"DRAFT", "SCHEDULED"}
        /\ proc[p].at = "start"
    <2>1. CASE PublishRead(p)
      <3>1. Starts(p, "publish", "unqueue") /\ status \in {"DRAFT", "SCHEDULED"}
        BY <2>1 DEF PublishRead, Exists
      <3>2. QED BY <1>0, <3>1, StartsIs
    <2>2. CASE EditRead(p)
      <3>1. Starts(p, "edit", "caption")
        BY <2>2 DEF EditRead
      <3>2. QED BY <1>0, <3>1, StartsIs
    <2>3. CASE RemoveRead(p)
      <3>1. Starts(p, "remove", "delete")
        BY <2>3 DEF RemoveRead
      <3>2. QED BY <1>0, <3>1, StartsIs
    <2>4. QED BY <2>1, <2>2, <2>3
  <1>2. UNCHANGED <<status, content, files, cause, due, faults>> /\ status # "none"
    BY DEF PublishRead, EditRead, RemoveRead, Exists
  <1>3. StepFine(proc[p])'
    BY <1>1, <1>2 DEF StepFine, Mid, Effects
  <1>4. Aside(p)
    BY <1>1 DEF Aside, Mid, Effects
  <1>5. \A q \in Proc : Aside(q)
    BY <1>1, <1>4 DEF Aside
  <1>6. proc'[Job].op \in {"none", "job"}
    BY <1>0, <1>1, JobIn DEF IInv, StepsOK
  <1>7. due' \in BOOLEAN /\ faults' \in 0..FAULTS
    BY <1>0, <1>2 DEF TypeOK
  <1>8. JobRests'
    BY <1>0, <1>1, <1>2, JobRestsOn
  <1>9. QED BY <1>1, <1>2, <1>3, <1>5, <1>6, <1>7, <1>8, AsideIInv

LEMMA UnqueueStep ==
  ASSUME IInv, NEW p \in Proc, Unqueue(p)
  PROVE  IInv'
  <1>0. Job \in Proc /\ TypeOK
    BY JobIn DEF IInv
  <1>1. /\ proc[p] \in Process /\ proc[Job] \in Process
        /\ StepFine(proc[p]) /\ StepFine(proc[Job]) /\ proc[Job].op \in {"none", "job"}
    BY <1>0 DEF IInv, TypeOK, StepsOK
  <1>2. /\ UNCHANGED <<status, content, files, cause, due, faults>>
        /\ proc[p].at = "unqueue" /\ proc[p].op = "publish" /\ p # Job
    BY <1>1 DEF Unqueue, At, StepFine
  <1>3. /\ proc' \in [Proc -> Process] /\ \A q \in Proc \ {p, Job} : proc'[q] = proc[q]
        /\ proc'[p].at = "update" /\ proc'[p].op = proc[p].op /\ proc'[p].seen = proc[p].seen
        /\ \/ proc'[Job] = proc[Job]
           \/ proc[Job].at = "waiting" /\ proc'[Job].at = "end" /\ proc'[Job].op = proc[Job].op
    <2>1. CASE Goto(p, "update")
      BY <1>0, <1>2, <2>1, GotoIs DEF Place
    <2>2. CASE proc' = [proc EXCEPT ![p].at = "update", ![Job].at = IF @ = "waiting" THEN "end" ELSE @]
      <3>1. /\ proc'[p] = [proc[p] EXCEPT !.at = "update"]
            /\ proc'[Job] = [proc[Job] EXCEPT !.at = IF @ = "waiting" THEN "end" ELSE @]
            /\ \A q \in Proc \ {p, Job} : proc'[q] = proc[q]
        BY <1>0, <1>2, <2>2 DEF TypeOK
      <3>2. /\ [proc[p] EXCEPT !.at = "update"] \in Process
            /\ [proc[Job] EXCEPT !.at = IF @ = "waiting" THEN "end" ELSE @] \in Process
        BY <1>1 DEF Process, Effects
      <3>3. proc' \in [Proc -> Process]
        BY <1>0, <2>2, <3>1, <3>2 DEF TypeOK
      <3>4. /\ proc'[p].at = "update" /\ proc'[p].op = proc[p].op /\ proc'[p].seen = proc[p].seen
        BY <1>1, <3>1 DEF Process
      <3>5. \/ proc'[Job] = proc[Job]
            \/ proc[Job].at = "waiting" /\ proc'[Job].at = "end" /\ proc'[Job].op = proc[Job].op
        BY <1>1, <3>1 DEF Process
      <3>6. QED BY <3>1, <3>3, <3>4, <3>5
    <2>3. QED BY <2>1, <2>2 DEF Unqueue
  <1>5. StepFine(proc[p])'
    BY <1>1, <1>2, <1>3 DEF StepFine, Mid, Effects
  <1>6. proc'[Job] = proc[Job] \/ StepFine(proc[Job])'
    BY <1>1, <1>3 DEF StepFine, Mid, Effects
  <1>7. \A q \in Proc : Aside(q)
    BY <1>2, <1>3 DEF Aside, Mid, Effects
  <1>8. due' \in BOOLEAN /\ faults' \in 0..FAULTS
    BY <1>0, <1>2 DEF TypeOK
  <1>9. JobRests'
    BY <1>0, <1>2, <1>3 DEF JobRests, IInv, StepsOK
  <1>10. /\ \A q \in Proc : proc'[q] = proc[q] \/ StepFine(proc[q])'
         /\ \A q \in Proc : proc'[q].op = "create" => proc[q].op = "create"
         /\ \A q \in Proc : proc[q].at = "files" => proc'[q].at = "files"
         /\ proc'[Job].op \in {"none", "job"}
    BY <1>1, <1>2, <1>3, <1>5, <1>6
  <1>11. QED BY <1>2, <1>3, <1>7, <1>8, <1>9, <1>10, AsideIInv

LEMMA FaultsGrow ==
  ASSUME TypeOK, faults' = faults \/ (faults < FAULTS /\ faults' = faults + 1)
  PROVE  faults' \in 0..FAULTS
  <1>1. faults \in 0..FAULTS
    BY DEF TypeOK
  <1>2. QED BY <1>1, FaultsBound

LEMMA JobReadStep ==
  ASSUME IInv, JobRead
  PROVE  IInv'
  <1>1. /\ UNCHANGED <<status, content, files, due>> /\ proc[Job].at = "waiting"
        /\ cause \subseteq cause' /\ cause' \subseteq cause \cup {"lost"}
        /\ \E l \in {"end", "check", "failed"} : Goto(Job, l)
        /\ faults' = faults \/ (faults < FAULTS /\ faults' = faults + 1)
    BY DEF JobRead, At
  <1>2. due' \in BOOLEAN /\ faults' \in 0..FAULTS
    BY <1>1, FaultsGrow DEF IInv, TypeOK
  <1>3. /\ proc' \in [Proc -> Process] /\ \A q \in Proc \ {Job} : proc'[q] = proc[q]
        /\ proc'[Job].at \in {"end", "check", "failed"} /\ proc'[Job].op = proc[Job].op
    BY <1>1, JobIn, GotoIs DEF IInv, Place
  <1>4. StepFine(proc[Job])
    BY JobIn DEF IInv, StepsOK
  <1>5. StepFine(proc[Job])' /\ Aside(Job)
    BY <1>1, <1>3, <1>4 DEF StepFine, Aside, Mid, Effects
  <1>6. QED BY <1>1, <1>2, <1>3, <1>5, JobIn, OneAside

LEMMA PublishScheduledStep ==
  ASSUME IInv, PublishScheduled
  PROVE  IInv'
  <1>0. proc[Job] \in Process /\ StepFine(proc[Job]) /\ TypeOK /\ proc[Job].at = "check"
    BY JobIn DEF IInv, StepsOK, TypeOK, PublishScheduled, At
  <1> DEFINE l == IF Exists /\ status # "PUBLISHED" THEN "update" ELSE "end"
             x == [proc[Job] EXCEPT !.seen = status, !.at = l]
  <1>1. /\ x \in Process /\ x.op = proc[Job].op /\ x.seen = status
        /\ x.at \in {"update", "end"} /\ (x.at = "update" => status \in {"DRAFT", "SCHEDULED"})
    BY <1>0 DEF Process, Effects, TypeOK, Exists
  <1>2. Become(Job, x) /\ UNCHANGED <<status, due, content, files, faults, cause>>
    BY DEF PublishScheduled
  <1> HIDE DEF x
  <1>3. /\ proc' \in [Proc -> Process] /\ (\A q \in Proc \ {Job} : proc'[q] = proc[q]) /\ proc'[Job] = x
    BY <1>0, <1>1, <1>2, JobIn, BecomeIs
  <1>4. StepFine(proc[Job])' /\ Aside(Job)
    BY <1>0, <1>1, <1>2, <1>3, JobIn DEF StepFine, Aside, Mid, Effects
  <1>5. due' \in BOOLEAN /\ faults' \in 0..FAULTS
    BY <1>0, <1>2 DEF TypeOK
  <1>6. QED BY <1>0, <1>1, <1>2, <1>3, <1>4, <1>5, JobIn, OneAside

LEMMA FailStep ==
  ASSUME IInv, NEW p \in Proc, Fail(p)
  PROVE  IInv'
  <1>1. /\ UNCHANGED <<status, content, files, due>> /\ proc[p].at # "start"
        /\ cause \subseteq cause' /\ cause' \subseteq cause \cup {"failure"} /\ "failure" \in cause'
        /\ faults < FAULTS /\ faults' = faults + 1
    BY DEF Fail, Effects
  <1>2. due' \in BOOLEAN /\ faults' \in 0..FAULTS
    BY <1>1, FaultsGrow DEF IInv, TypeOK
  <1>3. Spoilt' /\ cause' \cap {"failure", "overlap"} # {}
    BY <1>1 DEF Spoilt
  <1>4. CASE Goto(p, "end")
    BY <1>1, <1>2, <1>3, <1>4, EndsStep
  <1>5. CASE Rejects(p)
    BY <1>1, <1>2, <1>3, <1>5, RejectsStep
  <1>6. QED BY <1>4, <1>5 DEF Fail

LEMMA CrashStep ==
  ASSUME IInv, NEW p \in Proc, Crash(p)
  PROVE  IInv'
  <1>1. /\ UNCHANGED <<status, content, files, due>> /\ proc[p].at # "start"
        /\ cause \subseteq cause' /\ cause' \subseteq cause \cup {"failure"} /\ "failure" \in cause'
        /\ faults < FAULTS /\ faults' = faults + 1
    BY DEF Crash
  <1>2. due' \in BOOLEAN /\ faults' \in 0..FAULTS
    BY <1>1, FaultsGrow DEF IInv, TypeOK
  <1>3. Spoilt'
    BY <1>1 DEF Spoilt
  <1>4. CASE p # Job
    <2>1. Goto(p, "end")
      BY <1>4 DEF Crash
    <2>2. QED BY <1>1, <1>2, <1>3, <2>1, EndsStep
  <1>5. CASE p = Job
    <2>1. Goto(p, "waiting")
      BY <1>5 DEF Crash
    <2>2. /\ proc' \in [Proc -> Process] /\ \A q \in Proc \ {p} : proc'[q] = proc[q]
          /\ proc'[p].at = "waiting" /\ proc'[p].op = proc[p].op
      BY <2>1, GotoIs DEF IInv, Place
    <2>3. proc[p].op \in {"none", "job"}
      BY <1>5 DEF IInv, StepsOK
    <2>4. StepFine(proc[p])' /\ Aside(p)
      BY <1>3, <2>2, <2>3 DEF StepFine, Aside, Mid, Effects
    <2>5. QED BY <1>1, <1>2, <2>2, <2>4, OneAside
  <1>6. QED BY <1>4, <1>5

LEMMA ComesDueStep ==
  ASSUME IInv, ComesDue
  PROVE  IInv'
  <1>1. UNCHANGED <<status, content, files, proc, faults, cause>> /\ due' = TRUE
    BY DEF ComesDue
  <1>2. faults' \in 0..FAULTS /\ proc' \in [Proc -> Process] /\ proc'[Job].op \in {"none", "job"}
    BY <1>1 DEF IInv, TypeOK, StepsOK
  <1>3. JobRests' /\ \A q \in Proc : Aside(q)
    BY <1>1 DEF IInv, StepsOK, JobRests, Aside
  <1>4. QED BY <1>1, <1>2, <1>3, AsideIInv

LEMMA EnqueuePublishStep ==
  ASSUME IInv, NEW p \in Proc, EnqueuePublish(p)
  PROVE  IInv'
  <1>0. /\ proc[p] \in Process /\ proc[p].at = "enqueue" /\ proc[p].op = "create" /\ p # Job
        /\ proc[Job].at = "start" /\ files # "none" /\ status # "none" /\ TypeOK
        /\ \A q \in Proc \ {p} : proc[q].at # "enqueue"
    BY ZenonT(40), JobIn DEF IInv, StepsOK, StepFine, TypeOK, EnqueuePublish, At
  <1>1. CASE Goto(p, "reply") /\ faults < FAULTS /\ faults' = faults + 1 /\ cause' = cause \cup {"lost"}
    <2>1. UNCHANGED <<status, due, content, files>> /\ due' \in BOOLEAN /\ faults' \in 0..FAULTS
      BY <1>0, <1>1, FaultsGrow DEF EnqueuePublish, TypeOK
    <2>2. /\ proc' \in [Proc -> Process] /\ \A q \in Proc \ {p} : proc'[q] = proc[q]
          /\ proc'[p].at = "reply" /\ proc'[p].op = proc[p].op
      BY <1>0, <1>1, GotoIs DEF Place
    <2>3. StepFine(proc[p])' /\ Aside(p)
      BY <1>0, <2>1, <2>2 DEF StepFine, Aside, Mid, Effects
    <2>4. cause \subseteq cause' /\ cause' \subseteq cause \cup {"failure", "lost"}
      BY <1>1
    <2>5. QED BY <1>0, <2>1, <2>2, <2>3, <2>4, OneAside
  <1>2. CASE /\ proc' = [proc EXCEPT ![p].at = "reply",
                                     ![Job] = [Idle EXCEPT !.op = "job", !.at = "waiting"]]
             /\ UNCHANGED <<faults, cause>>
    <2>1. /\ proc'[p] = [proc[p] EXCEPT !.at = "reply"]
          /\ proc'[Job] = [Idle EXCEPT !.op = "job", !.at = "waiting"]
          /\ \A q \in Proc \ {p, Job} : proc'[q] = proc[q]
      BY <1>0, <1>2, JobIn DEF TypeOK
    <2>2. [proc[p] EXCEPT !.at = "reply"] \in Process /\ [Idle EXCEPT !.op = "job", !.at = "waiting"] \in Process
      BY <1>0 DEF Process, Idle, Status, Effects
    <2>3. proc' \in [Proc -> Process]
      BY <1>0, <1>2, <2>1, <2>2, JobIn DEF TypeOK
    <2>4. /\ proc'[p].at = "reply" /\ proc'[p].op = "create"
          /\ proc'[Job].at = "waiting" /\ proc'[Job].op = "job"
      BY <1>0, <2>1 DEF Process, Idle
    <2>5. UNCHANGED <<status, due, content, files, faults, cause>> /\ due' \in BOOLEAN /\ faults' \in 0..FAULTS
      BY <1>0, <1>2 DEF EnqueuePublish, TypeOK
    <2>6. StepFine(proc[p])' /\ StepFine(proc[Job])'
      BY <1>0, <2>4, <2>5 DEF StepFine, Mid, Effects
    <2>7. \A q \in Proc : Aside(q)
      BY <1>0, <2>1, <2>4 DEF Aside, Mid, Effects
    <2>8. JobRests'
      <3>1. status' # "none" /\ \A q \in Proc : proc'[q].at # "enqueue"
        <4>1. status' # "none"
          BY <1>0, <2>5
        <4>2. \A q \in Proc \ {p, Job} : proc'[q].at # "enqueue"
          BY <1>0, <2>1
        <4>3. QED BY <2>4, <4>1, <4>2
      <3>2. QED BY <3>1 DEF JobRests
    <2>9. /\ \A q \in Proc : proc'[q] = proc[q] \/ StepFine(proc[q])'
          /\ \A q \in Proc : proc'[q].op = "create" => proc[q].op = "create"
          /\ \A q \in Proc : proc[q].at = "files" => proc'[q].at = "files"
          /\ proc'[Job].op \in {"none", "job"}
      BY ZenonT(40), <1>0, <2>1, <2>4, <2>6
    <2>10. QED BY <2>3, <2>5, <2>7, <2>8, <2>9, AsideIInv
  <1>3. QED BY <1>1, <1>2 DEF EnqueuePublish

LEMMA AnswerStep ==
  ASSUME IInv, NEW p \in Proc, Answer(p)
  PROVE  IInv'
  <1>1. /\ UNCHANGED <<status, due, content, files, faults, cause>>
        /\ proc[p].at = "reply" /\ due' \in BOOLEAN /\ faults' \in 0..FAULTS
    BY DEF IInv, TypeOK, Answer, At
  <1>2. Goto(p, "end")
    BY DEF Answer
  <1>3. QED BY <1>1, <1>2, EndsStep DEF Effects

-----------------------------------------------------------------------------
(* The steps that touch the post's row or its media.                        *)

LEMMA PutMediaStep ==
  ASSUME IInv, NEW p \in Req, PutMedia(p)
  PROVE  IInv'
  <1>0. p \in Proc /\ p # Job /\ TypeOK /\ StepsOK
    BY Distinct DEF Proc, IInv
  <1>1. /\ status = "none" /\ files = "none" /\ files' = "kept"
        /\ UNCHANGED <<status, due, content, faults, cause>>
    BY DEF PutMedia
  <1>2. /\ proc' \in [Proc -> Process] /\ \A q \in Proc \ {p} : proc'[q] = proc[q]
        /\ proc'[p].at = "post" /\ proc'[p].op = "create"
    <2>1. Starts(p, "create", "post")
      BY DEF PutMedia
    <2>2. QED BY <1>0, <2>1, StartsIs
  <1>3. \A q \in Proc : proc[q].op # "create" /\ StepFine(proc[q])
    BY <1>0, <1>1 DEF StepsOK, StepFine
  <1>4. TypeOK'
    BY <1>0, <1>1, <1>2 DEF TypeOK, content
  <1>5. ASSUME NEW q \in Proc PROVE StepFine(proc[q])'
    <2>1. CASE q = p
      BY <1>1, <1>2, <2>1 DEF StepFine, Mid, Effects
    <2>2. CASE q # p
      <3>1. proc'[q] = proc[q] /\ proc[q].op # "create" /\ StepFine(proc[q])
        BY <1>2, <1>3, <2>2
      <3>2. UNCHANGED <<status, count, cause>>
        BY <1>1 DEF content
      <3>3. QED BY <3>1, <3>2 DEF StepFine
    <2>3. QED BY <2>1, <2>2
  <1>6. StepsOK'
    <2>1. \A q, r \in Proc : proc'[q].op = "create" /\ proc'[r].op = "create" => q = r
      BY <1>2, <1>3
    <2>2. proc'[Job].op \in {"none", "job"}
      BY <1>0, <1>2, JobIn DEF StepsOK
    <2>3. proc'[Job].at = "start"
      BY <1>0, <1>1, <1>2, JobIn DEF StepsOK
    <2>4. /\ files' = "none" => status' = "none"
          /\ "draft edited" \in cause' => status' # "none"
          /\ status' = "none" => links' = {}
      BY <1>0, <1>1 DEF StepsOK, content
    <2>5. QED BY <1>5, <2>1, <2>2, <2>3, <2>4 DEF StepsOK
  <1>7. OneWriter' /\ ToldOK' /\ LinksOK' /\ CountOK'
    <2>1. proc[p].at = "start"
      BY DEF PutMedia, Starts, At
    <2>2. \A q \in Proc : Aside(q)
      BY <1>2, <2>1 DEF Aside, Mid, Effects
    <2>3. QED BY <1>1, <2>2, AsideStep
  <1>8. MediaFollowThePost'
    BY <1>1 DEF MediaFollowThePost, Exists
  <1>9. QED BY <1>4, <1>6, <1>7, <1>8 DEF IInv

\* The media are removed: only the handler that does so, and the media, change.
LEMMA RemovesFiles ==
  ASSUME IInv, NEW p \in Proc, UndoCreate(p) \/ RemoveFiles(p)
  PROVE  IInv'
  <1>0. TypeOK /\ StepsOK /\ \A q \in Proc : StepFine(proc[q])
    BY DEF IInv, StepsOK
  <1>1. /\ files' = "removed" /\ UNCHANGED <<status, due, content, faults, cause>>
        /\ proc[p].at \in {"undo", "files"} /\ Goto(p, "end")
    BY DEF UndoCreate, RemoveFiles, At
  <1>2. /\ proc' \in [Proc -> Process] /\ \A q \in Proc \ {p} : proc'[q] = proc[q]
        /\ proc'[p].at = "end" /\ proc'[p].op = proc[p].op
    BY <1>0, <1>1, GotoIs DEF Place
  <1>3. TypeOK'
    BY <1>0, <1>1, <1>2 DEF TypeOK, content
  <1>4. ASSUME NEW q \in Proc \ {p} PROVE proc[q].at # "post"
    <2>1. SUFFICES ASSUME proc[q].at = "post" PROVE FALSE
      OBVIOUS
    <2>2. proc[q].op = "create" /\ status = "none"
      BY <1>0, <2>1 DEF StepFine
    <2>3. proc[p].at = "undo" /\ proc[p].op = "create"
      BY <1>0, <1>1, <2>2 DEF StepFine
    <2>4. QED BY <1>0, <2>2, <2>3 DEF StepsOK
  <1>5. ASSUME NEW q \in Proc PROVE StepFine(proc[q])'
    <2>1. CASE q = p
      BY <1>1, <1>2, <2>1 DEF StepFine, Mid, Effects
    <2>2. CASE q # p
      <3>1. proc'[q] = proc[q] /\ proc[q].at # "post" /\ StepFine(proc[q])
        BY <1>0, <1>2, <1>4, <2>2
      <3>2. UNCHANGED <<status, count, cause>> /\ files' = "removed"
        BY <1>1 DEF content
      <3>3. QED BY <3>1, <3>2 DEF StepFine
    <2>3. QED BY <2>1, <2>2
  <1>6. StepsOK'
    <2>1. \A q, r \in Proc : proc'[q].op = "create" /\ proc'[r].op = "create" => q = r
      BY <1>0, <1>2 DEF StepsOK
    <2>2. proc'[Job].op \in {"none", "job"}
      BY <1>0, <1>2, JobIn DEF StepsOK
    <2>3. JobRests'
      BY <1>1, <1>2, JobRestsOn
    <2>4. /\ files' # "none"
          /\ "draft edited" \in cause' => status' # "none"
          /\ status' = "none" => links' = {}
      BY <1>0, <1>1 DEF StepsOK, content
    <2>5. QED BY <1>5, <2>1, <2>2, <2>3, <2>4 DEF StepsOK, JobRests
  <1>7. OneWriter' /\ ToldOK' /\ LinksOK' /\ CountOK'
    <2>1. \A q \in Proc : Aside(q)
      BY <1>1, <1>2 DEF Aside, Mid, Effects
    <2>2. QED BY <1>1, <2>1, AsideStep
  <1>8. MediaFollowThePost'
    BY <1>0, <1>1 DEF MediaFollowThePost, Exists, StepFine
  <1>9. QED BY <1>3, <1>6, <1>7, <1>8 DEF IInv

\* A client takes the media: every handler stands where it stood.
LEMMA RemoveByKeyStep ==
  ASSUME IInv, RemoveByKey
  PROVE  IInv'
  <1>0. TypeOK /\ StepsOK /\ \A q \in Proc : StepFine(proc[q])
    BY DEF IInv, StepsOK
  <1>1. /\ status # "none" /\ files' = "taken"
        /\ UNCHANGED <<status, due, content, proc, faults, cause>>
    BY DEF RemoveByKey
  <1>2. TypeOK'
    BY <1>0, <1>1 DEF TypeOK, content
  <1>3. ASSUME NEW q \in Proc PROVE StepFine(proc[q])'
    <2>1. proc[q].at # "post" /\ StepFine(proc[q])
      BY <1>0, <1>1 DEF StepFine
    <2>2. proc'[q] = proc[q] /\ files' = "taken" /\ UNCHANGED <<status, count, cause>>
      BY <1>1 DEF content
    <2>3. QED BY ZenonT(40), <2>1, <2>2 DEF StepFine
  <1>4. StepsOK'
    <2>1. /\ files' # "none" /\ UNCHANGED <<status, links, proc, cause>>
      BY <1>1 DEF content
    <2>2. QED BY <1>0, <1>3, <2>1 DEF StepsOK
  <1>5. OneWriter' /\ ToldOK' /\ LinksOK' /\ CountOK'
    <2>1. \A q \in Proc : Aside(q)
      BY <1>1 DEF Aside
    <2>2. QED BY <1>1, <2>1, AsideStep
  <1>6. MediaFollowThePost'
    BY <1>1 DEF MediaFollowThePost
  <1>7. QED BY <1>2, <1>4, <1>5, <1>6 DEF IInv

LEMMA InsertPostStep ==
  ASSUME IInv, NEW p \in Proc, InsertPost(p)
  PROVE  IInv'
  <1>0. /\ TypeOK /\ StepsOK /\ \A q \in Proc : StepFine(proc[q])
        /\ proc[p] \in Process /\ proc[p].at = "post"
    BY DEF IInv, StepsOK, TypeOK, InsertPost, At
  <1>1. /\ status = "none" /\ files = "kept" /\ proc[p].op = "create" /\ links = {}
        /\ "draft edited" \notin cause /\ proc[Job].at = "start" /\ proc[Job].op \in {"none", "job"}
    BY <1>0 DEF StepFine, StepsOK
  <1>2. /\ UNCHANGED <<due, links, count, told, uses, files, faults, cause>> /\ caption' \subseteq Tag
    BY DEF InsertPost
  <1>3. /\ status' \in {"DRAFT", "SCHEDULED", "PUBLISHED"} /\ proc' \in [Proc -> Process]
        /\ \A q \in Proc \ {p} : proc'[q] = proc[q]
        /\ proc'[p].op = "create" /\ proc'[p].seen = status'
        /\ proc'[p].at = IF status' = "PUBLISHED" THEN "update"
                         ELSE IF status' = "SCHEDULED" THEN "enqueue" ELSE "reply"
    <2>1. PICK s \in {"DRAFT", "SCHEDULED", "PUBLISHED"} :
             /\ status' = s
             /\ Become(p, [proc[p] EXCEPT !.seen = s,
                             !.at = CASE s = "PUBLISHED" -> "update" [] s = "SCHEDULED" -> "enqueue"
                                      [] OTHER -> "reply"])
      BY DEF InsertPost
    <2> DEFINE l == CASE s = "PUBLISHED" -> "update" [] s = "SCHEDULED" -> "enqueue" [] OTHER -> "reply"
               x == [proc[p] EXCEPT !.seen = s, !.at = l]
    <2>2. l = IF s = "PUBLISHED" THEN "update" ELSE IF s = "SCHEDULED" THEN "enqueue" ELSE "reply"
      OBVIOUS
    <2> HIDE DEF l
    <2>3. /\ x \in Process /\ x.seen = s /\ x.at = l /\ x.op = "create"
      BY <1>0, <1>1, <2>2 DEF Process, Effects, Status
    <2>4. Become(p, x)
      BY <2>1 DEF l
    <2> HIDE DEF x
    <2>5. QED BY <1>0, <2>1, <2>2, <2>3, <2>4, BecomeIs
  <1>4. ASSUME NEW q \in Proc \ {p}
        PROVE  /\ proc[q].at \notin Effects \cup {"post", "enqueue", "reply", "undo", "unqueue", "files"}
               /\ proc[q].op # "create"
    <2>1. proc[q].op # "create"
      BY <1>0, <1>1 DEF StepsOK
    <2>2. QED BY <1>0, <1>1, <2>1 DEF StepFine
  <1>5. \A q \in Proc : proc[q].at \notin Effects /\ ~Works(q)
    BY <1>0, <1>4 DEF Works, Mid, Effects
  <1>6. \A q \in Proc : ~Works(q)' /\ ~Publicizes(q)' /\ ~Publicizes(q)
    BY <1>3, <1>5 DEF Works, Publicizes, Mid
  <1>7. NotOut /\ NotOut'
    BY <1>1, <1>3 DEF NotOut, Raw
  <1>8. TypeOK'
    BY <1>0, <1>2, <1>3 DEF TypeOK, Status
  <1>9. ASSUME NEW q \in Proc PROVE StepFine(proc[q])'
    <2>1. CASE q = p
      BY <1>1, <1>2, <1>3, <2>1 DEF StepFine, Mid, Effects
    <2>2. CASE q # p
      <3>1. /\ proc'[q] = proc[q] /\ StepFine(proc[q]) /\ proc[q].op # "create"
            /\ proc[q].at \notin Effects \cup {"post", "enqueue", "reply", "undo", "unqueue", "files"}
        BY <1>0, <1>3, <1>4, <2>2
      <3>2. QED BY <3>1 DEF StepFine, Mid, Effects
    <2>3. QED BY <2>1, <2>2
  <1>10. StepsOK'
    <2>1. \A q, r \in Proc : proc'[q].op = "create" /\ proc'[r].op = "create" => q = r
      BY <1>3, <1>4
    <2>2. proc'[Job] = proc[Job]
      BY <1>1, <1>3, JobIn
    <2>3. files' # "none" /\ "draft edited" \notin cause' /\ links' = {}
      BY <1>1, <1>2
    <2>4. QED BY <1>1, <1>9, <2>1, <2>2, <2>3 DEF StepsOK
  <1>11. OneWriter'
    BY <1>6 DEF OneWriter
  <1>12. ToldOK'
    BY <1>2, <1>6, <1>7 DEF IInv, ToldOK
  <1>13. LinksOK'
    <2>1. \A q \in Proc : proc'[q].at \notin Mid
      BY <1>6 DEF Works
    <2>2. QED BY <1>1, <1>2, <1>6, <1>7, <2>1 DEF LinksOK, Linking, Mid
  <1>14. CountOK'
    <2>1. \A q \in Proc : proc[q].at # "insert" /\ proc'[q].at # "insert"
      BY <1>5, <1>6 DEF Works, Mid, Effects
    <2>2. \A t \in Tag : Counted(t)' <=> Counted(t)
      BY <1>2, <2>1 DEF Counted
    <2>3. QED BY <1>1, <1>2, <2>2 DEF IInv, CountOK
  <1>15. MediaFollowThePost'
    BY <1>1, <1>2, <1>3 DEF MediaFollowThePost
  <1>16. QED BY <1>8, <1>10, <1>11, <1>12, <1>13, <1>14, <1>15 DEF IInv

LEMMA DeletePostStep ==
  ASSUME IInv, NEW p \in Proc, DeletePost(p)
  PROVE  IInv'
  <1>0. /\ TypeOK /\ StepsOK /\ \A q \in Proc : StepFine(proc[q])
        /\ proc[p].at = "delete" /\ proc[p].op \notin {"create", "edit"}
    BY DEF IInv, StepsOK, StepFine, DeletePost, At
  <1>1. UNCHANGED <<due, caption, count, told, uses, files, faults, cause>>
    BY DEF DeletePost
  <1>2. CASE ~Exists
    <2>1. Rejects(p) /\ UNCHANGED <<status, links>>
      BY <1>2 DEF DeletePost
    <2>2. due' \in BOOLEAN /\ faults' \in 0..FAULTS
      BY <1>0, <1>1 DEF TypeOK
    <2>3. QED BY <1>0, <1>1, <2>1, <2>2, RejectsStep DEF Effects, content
  <1>3. CASE Exists
    <2>1. status' = "gone" /\ links' = {} /\ Goto(p, "files") /\ status # "none"
      BY <1>3 DEF DeletePost, Exists
    <2>2. /\ proc' \in [Proc -> Process] /\ \A q \in Proc \ {p} : proc'[q] = proc[q]
          /\ proc'[p].at = "files" /\ proc'[p].op = proc[p].op
      BY <1>0, <2>1, GotoIs DEF Place
    <2>3. TypeOK'
      BY <1>0, <1>1, <2>1, <2>2 DEF TypeOK, Status
    <2>4. ASSUME NEW q \in Proc PROVE StepFine(proc[q])'
      <3>1. CASE q = p
        BY <1>0, <2>1, <2>2, <3>1 DEF StepFine, Mid, Effects
      <3>2. CASE q # p
        <4>1. proc'[q] = proc[q] /\ StepFine(proc[q])
          BY <1>0, <2>2, <3>2
        <4>2. UNCHANGED <<count, cause, files>>
          BY <1>1
        <4>3. QED BY <2>1, <4>1, <4>2 DEF StepFine
      <3>3. QED BY <3>1, <3>2
    <2>5. StepsOK'
      <3>1. \A q, r \in Proc : proc'[q].op = "create" /\ proc'[r].op = "create" => q = r
        BY <1>0, <2>2 DEF StepsOK
      <3>2. proc'[Job].op \in {"none", "job"}
        BY <1>0, <2>2, JobIn DEF StepsOK
      <3>3. JobRests'
        BY <1>0, <2>1, <2>2, JobRestsOn
      <3>4. files' # "none"
        BY <1>0, <1>1, <2>1 DEF StepsOK
      <3>5. QED BY <2>1, <2>4, <3>1, <3>2, <3>3, <3>4 DEF StepsOK, JobRests
    <2>6. /\ \A q \in Proc : Works(q)' <=> Works(q)
          /\ \A q \in Proc : Publicizes(q)' <=> Publicizes(q)
          /\ \A q \in Proc : Works(q) => proc'[q] = proc[q]
      BY <1>0, <2>2 DEF Works, Publicizes, Mid
    <2>7. OneWriter'
      BY <1>1, <2>6 DEF IInv, OneWriter
    <2>8. ToldOK'
      <3>1. NotOut' => NotOut
        BY <1>0, <2>1, <2>2 DEF NotOut, Raw
      <3>2. \A q \in Proc : Publicizes(q)' => (proc'[q].at = "music" <=> proc[q].at = "music")
        BY <2>6 DEF Publicizes
      <3>3. QED BY <1>1, <2>1, <2>6, <3>1, <3>2 DEF IInv, ToldOK
    <2>9. LinksOK'
      BY <2>1 DEF LinksOK, Linking, Exists
    <2>10. CountOK'
      BY <2>1 DEF CountOK
    <2>11. MediaFollowThePost'
      BY <2>1, <2>2 DEF MediaFollowThePost, Exists
    <2>12. QED BY <2>3, <2>5, <2>7, <2>8, <2>9, <2>10, <2>11 DEF IInv
  <1>4. QED BY <1>2, <1>3

LEMMA FinalizeUpdateStep ==
  ASSUME IInv, NEW p \in Proc, FinalizeUpdate(p)
  PROVE  IInv'
  <1>0. /\ TypeOK /\ StepsOK /\ \A q \in Proc : StepFine(proc[q])
        /\ proc[p] \in Process /\ proc[p].at = "update" /\ proc[p].op # "edit" /\ status # "none"
    BY DEF IInv, StepsOK, StepFine, TypeOK, FinalizeUpdate, At, Effects
  <1>1. UNCHANGED <<due, content, files, faults>>
    BY DEF FinalizeUpdate
  <1>2. CASE ~Exists
    <2>1. Rejects(p) /\ UNCHANGED <<status, cause>> /\ status = "gone"
      BY <1>0, <1>2 DEF FinalizeUpdate, Exists, TypeOK, Status
    <2>2. due' \in BOOLEAN /\ faults' \in 0..FAULTS
      BY <1>0, <1>1 DEF TypeOK
    <2>3. QED BY <1>0, <1>1, <2>1, <2>2, RejectsStep
  <1>3. CASE Exists
    <2> DEFINE x == [proc[p] EXCEPT !.at = "link", !.todo = caption]
    <2>1. /\ status' = "PUBLISHED" /\ Become(p, x)
          /\ cause' = IF Busy(p) \/ proc[p].seen # status THEN cause \cup {"overlap"} ELSE cause
      BY <1>3 DEF FinalizeUpdate
    <2>2. /\ x \in Process /\ x.at = "link" /\ x.todo = caption /\ x.op = proc[p].op /\ x.seen = proc[p].seen
      BY <1>0 DEF Process, Effects, TypeOK
    <2> HIDE DEF x
    <2>3. /\ proc' \in [Proc -> Process] /\ \A q \in Proc \ {p} : proc'[q] = proc[q]
          /\ proc'[p].at = "link" /\ proc'[p].todo = caption /\ proc'[p].op = proc[p].op
          /\ proc'[p].seen = proc[p].seen
      BY <1>0, <2>1, <2>2, BecomeIs
    <2>4. /\ cause \subseteq cause' /\ cause' \subseteq cause \cup {"overlap"}
          /\ "overlap" \notin cause' =>
               /\ cause' = cause /\ proc[p].seen = status
               /\ \A q \in Proc \ {p} : proc[q].at \notin Effects
      BY <2>1 DEF Busy
    <2>5. TypeOK'
      <3>1. cause' \subseteq {"failure", "draft edited", "edited", "overlap", "lost"}
        BY <1>0, <2>4 DEF TypeOK
      <3>2. QED BY <1>0, <1>1, <2>1, <2>3, <3>1 DEF TypeOK, content, Status
    <2>6. ASSUME NEW q \in Proc PROVE StepFine(proc[q])'
      <3>1. CASE q = p
        <4>1. StepFine(proc[p])
          BY <1>0
        <4>2. QED BY <1>0, <1>1, <2>1, <2>3, <2>4, <3>1, <4>1 DEF StepFine, Mid, Effects
      <3>2. CASE q # p
        <4>1. proc'[q] = proc[q] /\ StepFine(proc[q])
          BY <1>0, <2>3, <3>2
        <4>2. UNCHANGED <<count, files>>
          BY <1>1 DEF content
        <4>3. status # "none" /\ status # "gone"
          BY <1>3 DEF Exists
        <4>4. proc'[q].at = "undo" => cause' \cap {"failure", "overlap"} # {}
          BY <2>4, <4>1, <4>3 DEF StepFine
        <4>5. proc'[q].at = "unlink" => cause' \cap {"edited", "draft edited"} # {}
          BY <2>4, <4>1 DEF StepFine
        <4>6. "draft edited" \in cause' => "draft edited" \in cause
          BY <2>4
        <4>7. QED BY <2>1, <4>1, <4>2, <4>3, <4>4, <4>5, <4>6 DEF StepFine
      <3>3. QED BY <3>1, <3>2
    <2>7. StepsOK'
      <3>1. \A q, r \in Proc : proc'[q].op = "create" /\ proc'[r].op = "create" => q = r
        BY <1>0, <2>3 DEF StepsOK
      <3>2. proc'[Job].op \in {"none", "job"}
        BY <1>0, <2>3, JobIn DEF StepsOK
      <3>3. JobRests'
        BY <1>0, <2>1, <2>3, JobRestsOn
      <3>4. files' # "none"
        BY <1>0, <1>1 DEF StepsOK
      <3>5. QED BY <2>1, <2>6, <3>1, <3>2, <3>3, <3>4 DEF StepsOK, JobRests
    <2>8. "overlap" \notin cause' =>
            /\ NotOut /\ ~NotOut'
            /\ \A q \in Proc \ {p} : ~Works(q)' /\ ~Works(q)
      <3>1. SUFFICES ASSUME "overlap" \notin cause'
                     PROVE  /\ NotOut /\ ~NotOut'
                            /\ \A q \in Proc \ {p} : ~Works(q)' /\ ~Works(q)
        OBVIOUS
      <3>2. proc[p].op # "create" => status \in {"DRAFT", "SCHEDULED"}
        BY <1>0, <2>4, <3>1 DEF StepFine
      <3>3. NotOut
        BY <1>0, <3>2 DEF NotOut, Raw
      <3>4. ~NotOut'
        BY <2>1, <2>3, <2>4, <3>1 DEF NotOut, Raw, Effects
      <3>5. QED BY <2>3, <2>4, <3>1, <3>3, <3>4 DEF Works, Mid, Effects
    <2>9. OneWriter'
      BY <2>8 DEF OneWriter
    <2>10. ToldOK'
      <3>1. SUFFICES ASSUME "overlap" \notin cause' PROVE ToldOK'
        BY DEF ToldOK
      <3>2. told = 0 /\ uses = 0 /\ told' = 0 /\ uses' = 0
        BY <1>1, <2>4, <2>8, <3>1 DEF IInv, ToldOK, content
      <3>3. Publicizes(p)' /\ \A q \in Proc \ {p} : ~Publicizes(q)'
        BY <1>0, <2>3, <2>8, <3>1 DEF Publicizes, Works, Mid
      <3>4. QED BY <2>3, <2>8, <3>1, <3>2, <3>3 DEF ToldOK
    <2>11. LinksOK'
      <3>1. SUFFICES ASSUME ~Spoilt' PROVE LinksOK'
        BY <2>1 DEF LinksOK, Linking
      <3>2. "overlap" \notin cause' /\ ~Spoilt
        BY <2>4, <3>1 DEF Spoilt
      <3>3. links = {} /\ links' = {} /\ caption' = caption
        BY <1>1, <1>3, <2>8, <3>2 DEF IInv, LinksOK, Linking, content
      <3>4. \A q \in Proc \ {p} : proc'[q].at \notin Mid
        BY <2>8, <3>2 DEF Works
      <3>5. Works(p)'
        BY <2>3 DEF Works, Mid
      <3>6. QED BY <2>3, <2>8, <3>2, <3>3, <3>4, <3>5 DEF LinksOK, Linking, Mid
    <2>12. CountOK'
      <3>1. \A t \in Tag : Counted(t)' <=> Counted(t)
        BY <1>0, <1>1, <2>3 DEF Counted, content
      <3>2. status # "gone" /\ (cause' \subseteq {"lost"} => cause \subseteq {"lost"})
        BY <1>3, <2>4 DEF Exists
      <3>3. QED BY <1>1, <3>1, <3>2 DEF IInv, CountOK, content
    <2>13. MediaFollowThePost'
      BY <1>1, <1>3, <2>1, <2>4 DEF IInv, MediaFollowThePost
    <2>14. QED BY <2>5, <2>7, <2>9, <2>10, <2>11, <2>12, <2>13 DEF IInv
  <1>4. QED BY <1>2, <1>3

LEMMA EditCaptionStep ==
  ASSUME IInv, NEW p \in Proc, EditCaption(p)
  PROVE  IInv'
  <1>0. /\ TypeOK /\ StepsOK /\ \A q \in Proc : StepFine(proc[q])
        /\ proc[p] \in Process /\ proc[p].at = "caption" /\ proc[p].op = "edit"
    BY DEF IInv, StepsOK, StepFine, TypeOK, EditCaption, At
  <1>1. UNCHANGED <<status, due, links, count, told, uses, files, faults>>
    BY DEF EditCaption
  <1>2. CASE ~Exists
    <2>1. Rejects(p) /\ UNCHANGED <<caption, cause>>
      BY <1>2 DEF EditCaption
    <2>2. due' \in BOOLEAN /\ faults' \in 0..FAULTS
      BY <1>0, <1>1 DEF TypeOK
    <2>3. QED BY <1>0, <1>1, <2>1, <2>2, RejectsStep DEF Effects, content
  <1>3. CASE Exists
    <2>1. PICK c \in SUBSET Tag : caption' = c /\ Become(p, [proc[p] EXCEPT !.at = "unlink", !.todo = c])
      BY <1>3 DEF EditCaption
    <2> DEFINE x == [proc[p] EXCEPT !.at = "unlink", !.todo = c]
    <2>2. /\ x \in Process /\ x.at = "unlink" /\ x.todo = c /\ x.op = "edit"
      BY <1>0 DEF Process, Effects
    <2>a. Become(p, x)
      BY <2>1
    <2> HIDE DEF x
    <2>3. /\ proc' \in [Proc -> Process] /\ \A q \in Proc \ {p} : proc'[q] = proc[q]
          /\ proc'[p].at = "unlink" /\ proc'[p].todo = caption' /\ proc'[p].op = "edit"
      BY <1>0, <2>1, <2>2, <2>a, BecomeIs
    <2>4. /\ cause \subseteq cause' /\ cause' \subseteq cause \cup {"edited", "draft edited", "overlap"}
          /\ cause' \cap {"edited", "draft edited"} # {}
          /\ status = "PUBLISHED" => ("draft edited" \in cause' => "draft edited" \in cause)
          /\ status # "PUBLISHED" => "draft edited" \in cause'
          /\ "overlap" \notin cause' => \A q \in Proc \ {p} : proc[q].at \notin Effects
      <3>1. cause' = cause \cup {IF status = "PUBLISHED" THEN "edited" ELSE "draft edited"}
                           \cup (IF Busy(p) THEN {"overlap"} ELSE {})
        BY <1>3 DEF EditCaption
      <3>2. Busy(p) => "overlap" \in cause'
        BY <3>1
      <3>3. ~Busy(p) => \A q \in Proc \ {p} : proc[q].at \notin Effects
        BY DEF Busy
      <3>4. /\ cause \subseteq cause' /\ cause' \subseteq cause \cup {"edited", "draft edited", "overlap"}
            /\ cause' \cap {"edited", "draft edited"} # {}
            /\ status = "PUBLISHED" => ("draft edited" \in cause' => "draft edited" \in cause)
            /\ status # "PUBLISHED" => "draft edited" \in cause'
        BY <3>1
      <3>5. QED BY <3>2, <3>3, <3>4
    <2>5. TypeOK'
      <3>1. cause' \subseteq {"failure", "draft edited", "edited", "overlap", "lost"}
        BY <1>0, <2>4 DEF TypeOK
      <3>2. QED BY <1>0, <1>1, <2>1, <2>3, <3>1 DEF TypeOK
    <2>b. status # "none" /\ status # "gone"
      BY <1>3 DEF Exists
    <2>6. ASSUME NEW q \in Proc PROVE StepFine(proc[q])'
      <3>1. CASE q = p
        <4>1. StepFine(proc[p])
          BY <1>0
        <4>2. "draft edited" \notin cause' => status = "PUBLISHED"
          BY <2>4
        <4>3. QED BY <1>1, <2>3, <2>4, <2>b, <3>1, <4>2 DEF StepFine, Mid, Effects
      <3>2. CASE q # p
        <4>1. proc'[q] = proc[q] /\ StepFine(proc[q])
          BY <1>0, <2>3, <3>2
        <4>2. proc'[q].at = "undo" => cause' \cap {"failure", "overlap"} # {}
          BY <2>4, <2>b, <4>1 DEF StepFine
        <4>3. proc'[q].at = "unlink" => cause' \cap {"edited", "draft edited"} # {}
          BY <2>4
        <4>4. /\ status = "PUBLISHED" => ("draft edited" \in cause' => "draft edited" \in cause)
              /\ "draft edited" \notin cause' => "draft edited" \notin cause
          BY <2>4
        <4>5. QED BY <1>1, <2>b, <4>1, <4>2, <4>3, <4>4 DEF StepFine
      <3>3. QED BY <3>1, <3>2
    <2>7. StepsOK'
      <3>1. \A q, r \in Proc : proc'[q].op = "create" /\ proc'[r].op = "create" => q = r
        BY <1>0, <2>3 DEF StepsOK
      <3>2. proc'[Job].op \in {"none", "job"}
        BY <1>0, <2>3, JobIn DEF StepsOK
      <3>3. JobRests'
        BY <1>0, <1>1, <2>3, JobRestsOn
      <3>4. files' # "none"
        BY <1>0, <1>1, <2>b DEF StepsOK
      <3>5. QED BY <1>1, <2>b, <2>6, <3>1, <3>2, <3>3, <3>4 DEF StepsOK, JobRests
    <2>8. /\ Works(p)' /\ ~Publicizes(p)' /\ ~Works(p) /\ ~Publicizes(p)
          /\ \A q \in Proc \ {p} : (Works(q)' <=> Works(q)) /\ (Publicizes(q)' <=> Publicizes(q))
          /\ "overlap" \notin cause' => \A q \in Proc \ {p} : ~Works(q)'
      BY <1>0, <2>3, <2>4 DEF Works, Publicizes, Mid, Effects
    <2>9. OneWriter'
      BY <2>8 DEF OneWriter
    <2>c. NotOut' <=> NotOut
      BY <1>0, <1>1, <2>3 DEF NotOut, Raw
    <2>10. ToldOK'
      <3>1. SUFFICES ASSUME "overlap" \notin cause' PROVE ToldOK'
        BY DEF ToldOK
      <3>2. "overlap" \notin cause /\ ~Publicizes(p)' /\ \A q \in Proc : ~Publicizes(q)'
        BY <2>4, <2>8, <3>1 DEF Publicizes, Works
      <3>3. \A q \in Proc : ~Publicizes(q)
        BY <2>8, <3>2
      <3>4. cause' \cap {"failure", "draft edited"} = {} => cause \cap {"failure", "draft edited"} = {}
        BY <2>4
      <3>5. QED BY <1>1, <2>c, <3>2, <3>3, <3>4 DEF IInv, ToldOK
    <2>11. LinksOK'
      <3>1. SUFFICES ASSUME ~Spoilt' PROVE LinksOK'
        BY DEF LinksOK, Linking
      <3>2. "overlap" \notin cause' /\ status = "PUBLISHED"
        BY <2>4, <3>1 DEF Spoilt
      <3>3. ~NotOut'
        <4>1. \A q \in Proc \ {p} : proc'[q].at # "update"
          BY <2>3, <2>4, <3>2 DEF Effects
        <4>2. QED BY <1>1, <2>3, <3>2, <4>1 DEF NotOut, Raw
      <3>4. \A q \in Proc \ {p} : proc'[q].at \notin Mid
        BY <2>8, <3>2 DEF Works
      <3>5. QED BY <2>3, <2>8, <3>3, <3>4 DEF LinksOK, Linking, Mid
    <2>12. CountOK'
      BY <1>1, <2>4 DEF IInv, CountOK
    <2>13. MediaFollowThePost'
      BY <1>1, <1>3, <2>4, <2>b DEF IInv, MediaFollowThePost
    <2>14. QED BY <2>5, <2>7, <2>9, <2>10, <2>11, <2>12, <2>13 DEF IInv
  <1>4. QED BY <1>2, <1>3

-----------------------------------------------------------------------------
(***************************************************************************)
(* The effects of a publication and of an edit: p is between the update    *)
(* and the last effect before the step, and there or at its end after it.  *)
(***************************************************************************)
LEMMA MidStep ==
  ASSUME IInv, NEW p \in Proc, proc[p].at \in Mid,
         UNCHANGED <<status, due, caption, files, faults, cause>>, links' \subseteq Tag,
         count' \in [Tag -> Nat], \A t \in Tag : count'[t] >= count[t], told' \in Nat, uses' \in Nat,
         proc' \in [Proc -> Process], \A q \in Proc \ {p} : proc'[q] = proc[q],
         proc'[p].at \in Mid \cup {"end", "reply"}, proc'[p].op = proc[p].op, StepFine(proc[p])'
  PROVE  /\ TypeOK' /\ OneWriter' /\ StepsOK' /\ MediaFollowThePost'
         /\ NotOut' <=> NotOut
         /\ \A q \in Proc \ {p} : (Works(q)' <=> Works(q)) /\ (Publicizes(q)' <=> Publicizes(q))
  <1>1. TypeOK'
    BY DEF IInv, TypeOK
  <1>2. \A q \in Proc \ {p} : (Works(q)' <=> Works(q)) /\ (Publicizes(q)' <=> Publicizes(q))
    BY DEF Works, Publicizes
  <1>3. OneWriter'
    <2>1. \A q \in Proc : Works(q)' => Works(q)
      BY <1>2 DEF Works
    <2>2. QED BY <2>1 DEF IInv, OneWriter
  <1>4. NotOut' <=> NotOut
    <2>1. \A q \in Proc : proc'[q].at = "update" /\ proc'[q].op = "create"
                            <=> proc[q].at = "update" /\ proc[q].op = "create"
      BY DEF Mid
    <2>2. QED BY <2>1 DEF NotOut, Raw
  <1>5. StepsOK'
    <2>1. StepFine(proc[p]) /\ proc[p].at # "start"
      BY DEF IInv, StepsOK, Mid
    <2>2. status # "none"
      BY <2>1 DEF StepFine, Mid, Effects
    <2>3. JobRests'
      BY <2>1, JobRestsOn DEF Mid
    <2>4. proc'[Job].op \in {"none", "job"}
      BY JobIn DEF IInv, StepsOK
    <2>5. QED BY <2>2, <2>3, <2>4, StepsStep
  <1>6. MediaFollowThePost'
    <2>1. \A q \in Proc : proc'[q].at # "files" => proc[q].at # "files"
      BY DEF Mid
    <2>2. QED BY <2>1 DEF IInv, MediaFollowThePost, Exists
  <1>7. QED BY <1>1, <1>2, <1>3, <1>4, <1>5, <1>6

\* One that does not notify anybody.
LEMMA MidTold ==
  ASSUME IInv, NEW p \in Proc, UNCHANGED <<status, told, uses, cause>>, proc'[p].at # "music",
         proc[p].at # "music", Publicizes(p)' <=> Publicizes(p), NotOut' <=> NotOut,
         \A q \in Proc \ {p} : proc'[q] = proc[q],
         \A q \in Proc \ {p} : (Works(q)' <=> Works(q)) /\ (Publicizes(q)' <=> Publicizes(q))
  PROVE  ToldOK'
  <1>1. \A q \in Proc : (Publicizes(q)' <=> Publicizes(q)) /\ (proc'[q].at = "music" <=> proc[q].at = "music")
    OBVIOUS
  <1>2. QED BY <1>1 DEF IInv, ToldOK

LEMMA MidLinks ==
  ASSUME IInv, NEW p \in Proc, proc[p].at \in Mid, UNCHANGED <<status, caption, cause>>,
         \A q \in Proc \ {p} : proc'[q] = proc[q], NotOut' <=> NotOut,
         ~Spoilt /\ Exists => Linking(proc[p])' /\ (proc'[p].at \notin Mid => links' = caption)
  PROVE  LinksOK'
  <1>1. SUFFICES ASSUME ~Spoilt', Exists'
                 PROVE  /\ NotOut' => links' = {} /\ \A q \in Proc : ~Works(q)'
                        /\ \A q \in Proc : Linking(proc[q])'
                        /\ ~NotOut' /\ (\A q \in Proc : ~Works(q)') => links' = caption'
    BY DEF LinksOK
  <1>2. ~Spoilt /\ Exists /\ "overlap" \notin cause /\ Works(p)
    BY <1>1 DEF Spoilt, Exists, Works
  <1>3. ~NotOut
    BY <1>2 DEF IInv, LinksOK
  <1>4. \A q \in Proc \ {p} : proc'[q].at \notin Mid
    BY <1>2 DEF IInv, OneWriter, Works
  <1>5. \A q \in Proc : Linking(proc[q])'
    BY <1>2, <1>4 DEF Linking, Mid
  <1>6. QED BY <1>2, <1>3, <1>5 DEF Works

LEMMA OneMore ==
  ASSUME NEW f \in [Tag -> Nat], NEW g, NEW t \in Tag, g = [f EXCEPT ![t] = @ + 1]
  PROVE  /\ g \in [Tag -> Nat] /\ \A u \in Tag : g[u] >= f[u]
         /\ g[t] = f[t] + 1 /\ g[t] > 0 /\ \A u \in Tag \ {t} : g[u] = f[u]
  OBVIOUS

LEMMA CountTagStep ==
  ASSUME IInv, NEW p \in Proc, CountTag(p)
  PROVE  IInv'
  <1>0. /\ TypeOK /\ StepsOK /\ StepFine(proc[p])
        /\ proc[p] \in Process /\ proc[p].at = "link" /\ proc[p].at \in Mid
    BY DEF IInv, StepsOK, TypeOK, CountTag, At, Mid
  <1>1. UNCHANGED <<status, due, caption, links, told, uses, files, faults, cause>>
    BY DEF CountTag
  <1>2. PICK t \in proc[p].todo :
          /\ count' = [count EXCEPT ![t] = @ + 1]
          /\ Become(p, [proc[p] EXCEPT !.at = "insert", !.tag = t, !.todo = @ \ {t}])
    BY DEF CountTag
  <1>3. t \in Tag
    BY <1>0 DEF Process
  <1>4. /\ proc' \in [Proc -> Process] /\ \A q \in Proc \ {p} : proc'[q] = proc[q]
        /\ proc'[p].at = "insert" /\ proc'[p].tag = t /\ proc'[p].todo = proc[p].todo \ {t}
        /\ proc'[p].op = proc[p].op /\ proc'[p].seen = proc[p].seen
    <2> DEFINE x == [proc[p] EXCEPT !.at = "insert", !.tag = t, !.todo = @ \ {t}]
    <2>1. /\ x \in Process /\ x.at = "insert" /\ x.tag = t /\ x.todo = proc[p].todo \ {t}
          /\ x.op = proc[p].op /\ x.seen = proc[p].seen
      BY <1>0, <1>3 DEF Process, Effects
    <2>2. Become(p, x)
      BY <1>2
    <2> HIDE DEF x
    <2>3. QED BY <1>0, <2>1, <2>2, BecomeIs
  <1>5. /\ count' \in [Tag -> Nat] /\ \A u \in Tag : count'[u] >= count[u]
        /\ count'[t] = count[t] + 1 /\ count'[t] > 0 /\ \A u \in Tag \ {t} : count'[u] = count[u]
    <2>1. count \in [Tag -> Nat]
      BY <1>0 DEF TypeOK
    <2>2. QED BY <1>2, <1>3, <2>1, OneMore
  <1>6. StepFine(proc[p])'
    BY <1>0, <1>1, <1>3, <1>4, <1>5 DEF StepFine, Mid, Effects
  <1>7. links' \subseteq Tag /\ told' \in Nat /\ uses' \in Nat /\ proc'[p].at \in Mid \cup {"end", "reply"}
    BY <1>0, <1>1, <1>4 DEF TypeOK, Mid
  <1>8. /\ TypeOK' /\ OneWriter' /\ StepsOK' /\ MediaFollowThePost' /\ (NotOut' <=> NotOut)
        /\ \A q \in Proc \ {p} : (Works(q)' <=> Works(q)) /\ (Publicizes(q)' <=> Publicizes(q))
    BY <1>0, <1>1, <1>4, <1>5, <1>6, <1>7, MidStep
  <1>9. ToldOK'
    <2>1. Publicizes(p)' <=> Publicizes(p)
      BY <1>0, <1>4 DEF Publicizes, Works, Mid
    <2>2. QED BY <1>0, <1>1, <1>4, <1>8, <2>1, MidTold
  <1>a. ~Spoilt /\ Exists => Linking(proc[p])
    BY DEF IInv, LinksOK
  <1>10. LinksOK'
    <2>1. ~Spoilt /\ Exists => Linking(proc[p])'
      BY <1>0, <1>1, <1>2, <1>4, <1>a DEF Linking
    <2>2. proc'[p].at \in Mid
      BY <1>4 DEF Mid
    <2>3. QED BY <1>0, <1>1, <1>4, <1>8, <2>1, <2>2, MidLinks
  <1>11. CountOK'
    <2>1. ASSUME NEW u \in links' PROVE count'[u] > 0
      <3>1. u \in Tag /\ count[u] > 0
        BY <1>0, <1>1, <2>1 DEF IInv, CountOK, TypeOK
      <3>2. CASE u = t
        BY <1>5, <3>2
      <3>3. CASE u # t
        BY <1>5, <3>1, <3>3
      <3>4. QED BY <3>2, <3>3
    <2>2. ASSUME cause' \subseteq {"lost"}, status' # "gone", NEW u \in Tag
          PROVE  count'[u] = IF Counted(u)' THEN 1 ELSE 0
      <3>1. ~Spoilt /\ status \notin {"none", "gone"} /\ Exists
        BY <1>0, <1>1, <2>2 DEF Spoilt, StepFine, Effects, Exists, TypeOK, Status
      <3>2. count[u] = IF Counted(u) THEN 1 ELSE 0
        BY <1>1, <2>2 DEF IInv, CountOK
      <3>3. \A q \in Proc \ {p} : proc[q].at # "insert"
        BY <1>0, <3>1 DEF IInv, OneWriter, Works, Mid, Spoilt
      <3>4. t \notin links
        BY <1>0, <1>2, <1>a, <3>1 DEF Linking
      <3>5. CASE u = t
        <4>1. Counted(t)' /\ ~Counted(t)
          BY <1>0, <1>4, <3>3, <3>4 DEF Counted
        <4>2. QED BY <1>5, <3>2, <3>5, <4>1
      <3>6. CASE u # t
        <4>1. Counted(u)' <=> Counted(u)
          BY <1>0, <1>1, <1>4, <3>3, <3>6 DEF Counted
        <4>2. QED BY <1>5, <3>2, <3>6, <4>1
      <3>7. QED BY <3>5, <3>6
    <2>3. QED BY <2>1, <2>2 DEF CountOK
  <1>12. QED BY <1>8, <1>9, <1>10, <1>11 DEF IInv

LEMMA LinkTagStep ==
  ASSUME IInv, NEW p \in Proc, LinkTag(p)
  PROVE  IInv'
  <1>0. /\ TypeOK /\ StepsOK /\ StepFine(proc[p]) /\ status # "none"
        /\ proc[p] \in Process /\ proc[p].at = "insert" /\ proc[p].at \in Mid
        /\ proc[p].tag \in Tag /\ count[proc[p].tag] > 0
    BY DEF IInv, StepsOK, StepFine, TypeOK, LinkTag, At, Mid, Effects
  <1>1. UNCHANGED <<status, due, caption, count, told, uses, files, faults, cause>>
    BY DEF LinkTag
  <1>a. ~Spoilt /\ Exists => Linking(proc[p])
    BY DEF IInv, LinksOK
  <1>2. CASE ~(Exists /\ proc[p].tag \notin links)
    <2>1. Rejects(p) /\ UNCHANGED links
      BY <1>2 DEF LinkTag
    <2>2. due' \in BOOLEAN /\ faults' \in 0..FAULTS
      BY <1>0, <1>1 DEF TypeOK
    <2>3. Spoilt \/ status = "gone"
      BY <1>0, <1>2, <1>a DEF Linking, Exists, TypeOK, Status
    <2>4. proc[p].op = "create" => status \in {"none", "gone"} \/ cause' \cap {"failure", "overlap"} # {}
      BY <1>0, <1>1, <2>3 DEF StepFine, Spoilt, Effects
    <2>5. Spoilt' <=> Spoilt
      BY <1>1 DEF Spoilt
    <2>6. QED BY <1>0, <1>1, <2>1, <2>2, <2>3, <2>4, <2>5, RejectsStep DEF content
  <1>3. CASE Exists /\ proc[p].tag \notin links
    <2> DEFINE x == [proc[p] EXCEPT !.at = "link", !.tag = None]
    <2>1. links' = links \cup {proc[p].tag} /\ Become(p, x)
      BY <1>3 DEF LinkTag
    <2>2. /\ x \in Process /\ x.at = "link" /\ x.todo = proc[p].todo /\ x.op = proc[p].op /\ x.seen = proc[p].seen
      BY <1>0 DEF Process, Effects
    <2> HIDE DEF x
    <2>3. /\ proc' \in [Proc -> Process] /\ \A q \in Proc \ {p} : proc'[q] = proc[q]
          /\ proc'[p].at = "link" /\ proc'[p].todo = proc[p].todo
          /\ proc'[p].op = proc[p].op /\ proc'[p].seen = proc[p].seen
      BY <1>0, <2>1, <2>2, BecomeIs
    <2>4. StepFine(proc[p])'
      BY <1>0, <1>1, <2>3 DEF StepFine, Mid, Effects
    <2>5. /\ links' \subseteq Tag /\ count' \in [Tag -> Nat] /\ told' \in Nat /\ uses' \in Nat
          /\ proc'[p].at \in Mid \cup {"end", "reply"}
      BY <1>0, <1>1, <2>1, <2>3 DEF TypeOK, Mid
    <2>6. \A t \in Tag : count'[t] >= count[t]
      <3>1. count \in [Tag -> Nat] /\ count' = count
        BY <1>0, <1>1 DEF TypeOK
      <3>2. QED BY <3>1
    <2>7. /\ TypeOK' /\ OneWriter' /\ StepsOK' /\ MediaFollowThePost' /\ (NotOut' <=> NotOut)
          /\ \A q \in Proc \ {p} : (Works(q)' <=> Works(q)) /\ (Publicizes(q)' <=> Publicizes(q))
      BY <1>0, <1>1, <2>3, <2>4, <2>5, <2>6, MidStep
    <2>8. ToldOK'
      <3>1. Publicizes(p)' <=> Publicizes(p)
        BY <1>0, <2>3 DEF Publicizes, Works, Mid
      <3>2. QED BY <1>0, <1>1, <2>3, <2>7, <3>1, MidTold
    <2>9. LinksOK'
      <3>1. ~Spoilt /\ Exists => Linking(proc[p])'
        BY <1>0, <1>1, <1>a, <2>1, <2>3 DEF Linking
      <3>2. proc'[p].at \in Mid
        BY <2>3 DEF Mid
      <3>3. QED BY <1>0, <1>1, <2>3, <2>7, <3>1, <3>2, MidLinks
    <2>10. CountOK'
      <3>1. \A u \in links' : count'[u] > 0
        BY <1>0, <1>1, <2>1 DEF IInv, CountOK
      <3>2. ASSUME cause' \subseteq {"lost"}, status' # "gone", NEW u \in Tag
            PROVE  count'[u] = IF Counted(u)' THEN 1 ELSE 0
        <4>1. ~Spoilt
          BY <1>1, <3>2 DEF Spoilt
        <4>2. \A q \in Proc \ {p} : proc[q].at # "insert"
          BY <1>0, <4>1 DEF IInv, OneWriter, Works, Mid, Spoilt
        <4>3. Counted(u)' <=> Counted(u)
          BY <1>0, <2>1, <2>3, <4>2 DEF Counted
        <4>4. QED BY <1>1, <3>2, <4>3 DEF IInv, CountOK
      <3>3. QED BY <3>1, <3>2 DEF CountOK
    <2>11. QED BY <2>7, <2>8, <2>9, <2>10 DEF IInv
  <1>4. QED BY <1>2, <1>3

\* One that only counts something else, or moves on.
LEMMA MidGoto ==
  ASSUME IInv, NEW p \in Proc, NEW l \in {"link", "tell", "music", "reply", "end"}, Goto(p, l),
         proc[p].at \in Mid \ {"unlink", "insert"}, l = "link" => proc[p].at = "link",
         proc[p].op = "edit" => l = "end" /\ proc[p].at # "music",
         l = "reply" => proc[p].op = "create",
         l # "link" /\ ~Spoilt /\ Exists => links = caption,
         UNCHANGED <<status, due, caption, links, count, files, faults, cause>>,
         told' \in Nat, uses' \in Nat, ToldOK'
  PROVE  IInv'
  <1>0. /\ TypeOK /\ StepFine(proc[p]) /\ proc[p].at # "start"
    BY DEF IInv, StepsOK, Mid
  <1>1. /\ proc' \in [Proc -> Process] /\ \A q \in Proc \ {p} : proc'[q] = proc[q]
        /\ proc'[p].at = l /\ proc'[p].op = proc[p].op /\ proc'[p].seen = proc[p].seen
        /\ proc'[p].todo = proc[p].todo /\ proc'[p].tag = proc[p].tag
    BY <1>0, GotoIs DEF Place
  <1>2. StepFine(proc[p])'
    BY <1>0, <1>1 DEF StepFine, Mid, Effects
  <1>3. links' \subseteq Tag /\ count' \in [Tag -> Nat] /\ proc'[p].at \in Mid \cup {"end", "reply"}
    BY <1>0, <1>1 DEF TypeOK, Mid
  <1>4. \A t \in Tag : count'[t] >= count[t]
    <2>1. count \in [Tag -> Nat] /\ count' = count
      BY <1>0 DEF TypeOK
    <2>2. QED BY <2>1
  <1>5. /\ TypeOK' /\ OneWriter' /\ StepsOK' /\ MediaFollowThePost' /\ (NotOut' <=> NotOut)
        /\ \A q \in Proc \ {p} : (Works(q)' <=> Works(q)) /\ (Publicizes(q)' <=> Publicizes(q))
    BY <1>1, <1>2, <1>3, <1>4, MidStep
  <1>6. LinksOK'
    <2>1. ~Spoilt /\ Exists => Linking(proc[p])
      BY DEF IInv, LinksOK
    <2>2. ~Spoilt /\ Exists => Linking(proc[p])' /\ (proc'[p].at \notin Mid => links' = caption)
      BY <1>1, <2>1 DEF Linking, Mid
    <2>3. QED BY <1>1, <1>5, <2>2, MidLinks
  <1>7. CountOK'
    <2>1. \A t \in Tag : Counted(t)' <=> Counted(t)
      BY <1>1 DEF Counted, Mid
    <2>2. QED BY <2>1 DEF IInv, CountOK
  <1>8. QED BY <1>5, <1>6, <1>7 DEF IInv

LEMMA NotifyNewPostStep ==
  ASSUME IInv, NEW p \in Proc, NotifyNewPost(p)
  PROVE  IInv'
  <1>0. /\ TypeOK /\ StepFine(proc[p]) /\ proc[p].at = "tell" /\ Goto(p, "music") /\ told' = told + 1
        /\ UNCHANGED <<status, due, caption, links, count, uses, files, faults, cause>>
    BY DEF IInv, StepsOK, NotifyNewPost, At
  <1>1. Publicizes(p) /\ proc[p].op # "edit"
    BY <1>0 DEF StepFine, Publicizes, Works, Mid
  <1>2. /\ \A q \in Proc \ {p} : proc'[q] = proc[q]
        /\ proc'[p].at = "music" /\ proc'[p].op = proc[p].op
    BY <1>0, GotoIs DEF Place
  <1>3. ~Spoilt /\ Exists => links = caption
    BY <1>0 DEF IInv, LinksOK, Linking
  <1>4. told' \in Nat /\ uses' \in Nat
    <2>1. told \in Nat /\ uses \in Nat
      BY <1>0 DEF TypeOK
    <2>2. QED BY <1>0, <2>1
  <1>5. ToldOK'
    <2>1. SUFFICES ASSUME "overlap" \notin cause' PROVE ToldOK'
      BY DEF ToldOK
    <2>2. told = 0 /\ uses = 0 /\ ~NotOut
      BY <1>0, <1>1, <2>1 DEF IInv, ToldOK
    <2>3. told' = 1 /\ uses' = 0
      BY <1>0, <2>2
    <2>4. \A q \in Proc \ {p} : ~Publicizes(q)'
      BY <1>0, <1>1, <1>2, <2>1 DEF IInv, OneWriter, Publicizes, Works
    <2>5. Publicizes(p)'
      BY <1>1, <1>2 DEF Publicizes, Works, Mid
    <2>6. ~NotOut'
      BY <1>0, <1>2, <2>2 DEF NotOut, Raw
    <2>7. QED BY <1>2, <2>3, <2>4, <2>5, <2>6 DEF ToldOK
  <1>6. proc[p].at \in Mid \ {"unlink", "insert"}
    BY <1>0 DEF Mid
  <1>7. QED BY <1>0, <1>1, <1>3, <1>4, <1>5, <1>6, MidGoto

LEMMA CountMusicStep ==
  ASSUME IInv, NEW p \in Proc, CountMusic(p)
  PROVE  IInv'
  <1>0. /\ TypeOK /\ StepFine(proc[p]) /\ proc[p].at = "music" /\ uses' = uses + 1
        /\ UNCHANGED <<status, due, caption, links, count, told, files, faults, cause>>
    BY DEF IInv, StepsOK, CountMusic, At
  <1>1. Publicizes(p) /\ proc[p].op # "edit"
    BY <1>0 DEF StepFine, Publicizes, Works, Mid
  <1>a. PICK l \in {"reply", "end"} : Goto(p, l) /\ (l = "reply" => proc[p].op = "create")
    BY DEF CountMusic
  <1>2. /\ \A q \in Proc \ {p} : proc'[q] = proc[q]
        /\ proc'[p].at = l /\ proc'[p].op = proc[p].op
    BY <1>0, <1>a, GotoIs DEF Place
  <1>3. ~Spoilt /\ Exists => links = caption
    BY <1>0 DEF IInv, LinksOK, Linking
  <1>4. told' \in Nat /\ uses' \in Nat
    <2>1. told \in Nat /\ uses \in Nat
      BY <1>0 DEF TypeOK
    <2>2. QED BY <1>0, <2>1
  <1>5. ToldOK'
    <2>1. SUFFICES ASSUME "overlap" \notin cause' PROVE ToldOK'
      BY DEF ToldOK
    <2>2. told = 1 /\ uses = 0 /\ ~NotOut
      BY <1>0, <1>1, <2>1 DEF IInv, ToldOK
    <2>3. told' = 1 /\ uses' = 1
      BY <1>0, <2>2
    <2>4. \A q \in Proc : ~Publicizes(q)'
      BY <1>0, <1>1, <1>2, <2>1 DEF IInv, OneWriter, Publicizes, Works, Mid
    <2>5. ~NotOut'
      BY <1>0, <1>2, <2>2 DEF NotOut, Raw
    <2>6. QED BY <2>3, <2>4, <2>5 DEF ToldOK
  <1>6. proc[p].at \in Mid \ {"unlink", "insert"}
    BY <1>0 DEF Mid
  <1>7. QED BY <1>0, <1>1, <1>a, <1>3, <1>4, <1>5, <1>6, MidGoto

LEMMA LinkMentionsStep ==
  ASSUME IInv, NEW p \in Proc, LinkMentions(p)
  PROVE  IInv'
  <1>0. /\ TypeOK /\ StepFine(proc[p]) /\ proc[p].at = "link" /\ proc[p].todo = {} /\ status # "none"
        /\ UNCHANGED <<status, due, content, files, faults, cause>>
    BY DEF IInv, StepsOK, StepFine, LinkMentions, At, Mid, Effects
  <1>1. due' \in BOOLEAN /\ faults' \in 0..FAULTS /\ told' \in Nat /\ uses' \in Nat
    BY <1>0 DEF TypeOK, content
  <1>2. CASE ~Exists /\ Rejects(p)
    <2>1. status = "gone"
      BY <1>0, <1>2 DEF Exists, TypeOK, Status
    <2>2. QED BY <1>0, <1>1, <1>2, <2>1, RejectsStep
  <1>3. CASE Goto(p, IF proc[p].op = "edit" THEN "end" ELSE "tell")
    <2>1. ~Spoilt /\ Exists => links = caption
      BY <1>0 DEF IInv, LinksOK, Linking
    <2>2. PICK l \in {"tell", "end"} : Goto(p, l) /\ (l = "end" <=> proc[p].op = "edit")
      BY <1>3
    <2>3. /\ \A q \in Proc \ {p} : proc'[q] = proc[q]
          /\ proc'[p].at = l /\ proc'[p].op = proc[p].op
      BY <1>0, <2>2, GotoIs DEF Place
    <2>4. /\ \A q \in Proc : Publicizes(q)' <=> Publicizes(q)
          /\ \A q \in Proc : proc'[q].at = "music" <=> proc[q].at = "music"
          /\ NotOut' <=> NotOut
      BY <1>0, <2>2, <2>3 DEF Publicizes, Works, Mid, NotOut, Raw
    <2>5. ToldOK'
      BY <1>0, <2>4 DEF IInv, ToldOK, content
    <2>6. proc[p].at \in Mid \ {"unlink", "insert"}
      BY <1>0 DEF Mid
    <2>7. QED BY <1>0, <1>1, <2>1, <2>2, <2>5, <2>6, MidGoto DEF content
  <1>4. QED BY <1>2, <1>3 DEF LinkMentions

LEMMA UnlinkStep ==
  ASSUME IInv, NEW p \in Proc, Unlink(p)
  PROVE  IInv'
  <1>0. /\ TypeOK /\ StepsOK /\ StepFine(proc[p]) /\ links' = {} /\ Goto(p, "link")
        /\ proc[p].at = "unlink" /\ proc[p].at \in Mid /\ proc[p].op = "edit"
        /\ cause \cap {"edited", "draft edited"} # {}
        /\ UNCHANGED <<status, due, caption, count, told, uses, files, faults, cause>>
    BY DEF IInv, StepsOK, StepFine, Unlink, At, Mid
  <1>1. /\ proc' \in [Proc -> Process] /\ \A q \in Proc \ {p} : proc'[q] = proc[q]
        /\ proc'[p].at = "link" /\ proc'[p].op = proc[p].op /\ proc'[p].seen = proc[p].seen
        /\ proc'[p].todo = proc[p].todo
    BY <1>0, GotoIs DEF Place
  <1>2. StepFine(proc[p])'
    BY <1>0, <1>1 DEF StepFine, Mid, Effects
  <1>3. /\ links' \subseteq Tag /\ count' \in [Tag -> Nat] /\ told' \in Nat /\ uses' \in Nat
        /\ proc'[p].at \in Mid \cup {"end", "reply"}
    BY <1>0, <1>1 DEF TypeOK, Mid
  <1>4. \A t \in Tag : count'[t] >= count[t]
    <2>1. count \in [Tag -> Nat] /\ count' = count
      BY <1>0 DEF TypeOK
    <2>2. QED BY <2>1
  <1>5. /\ TypeOK' /\ OneWriter' /\ StepsOK' /\ MediaFollowThePost' /\ (NotOut' <=> NotOut)
        /\ \A q \in Proc \ {p} : (Works(q)' <=> Works(q)) /\ (Publicizes(q)' <=> Publicizes(q))
    BY <1>0, <1>1, <1>2, <1>3, <1>4, MidStep
  <1>6. ToldOK'
    <2>1. Publicizes(p)' <=> Publicizes(p)
      BY <1>0, <1>1 DEF Publicizes
    <2>2. QED BY <1>0, <1>1, <1>5, <2>1, MidTold
  <1>7. LinksOK'
    <2>1. ~Spoilt /\ Exists => Linking(proc[p])
      BY DEF IInv, LinksOK
    <2>2. ~Spoilt /\ Exists => Linking(proc[p])'
      BY <1>0, <1>1, <2>1 DEF Linking
    <2>3. proc'[p].at \in Mid
      BY <1>1 DEF Mid
    <2>4. QED BY <1>0, <1>1, <1>5, <2>2, <2>3, MidLinks
  <1>8. CountOK'
    BY <1>0 DEF CountOK
  <1>9. QED BY <1>5, <1>6, <1>7, <1>8 DEF IInv

-----------------------------------------------------------------------------
LEMMA ContinueStep ==
  ASSUME IInv, NEW p \in Proc, Continue(p)
  PROVE  IInv'
  BY InsertPostStep, EnqueuePublishStep, AnswerStep, RemovesFiles, UnqueueStep, FinalizeUpdateStep,
     CountTagStep, LinkTagStep, LinkMentionsStep, NotifyNewPostStep, CountMusicStep,
     EditCaptionStep, UnlinkStep, DeletePostStep
  DEF Continue

LEMMA NextIInv == IInv /\ [Next]_vars => IInv'
  <1> SUFFICES ASSUME IInv, [Next]_vars PROVE IInv'
    OBVIOUS
  <1>1. ASSUME NEW p \in Req, Start(p) PROVE IInv'
    BY <1>1, PutMediaStep, ReadStep DEF Start
  <1>2. ASSUME NEW p \in Proc, Continue(p) PROVE IInv'
    BY <1>2, ContinueStep
  <1>3. CASE JobStep
    BY <1>3, JobReadStep, PublishScheduledStep, ContinueStep, JobIn DEF JobStep
  <1>4. ASSUME NEW p \in Proc, Fail(p) \/ Crash(p) PROVE IInv'
    BY <1>4, FailStep, CrashStep
  <1>5. CASE ComesDue \/ RemoveByKey
    BY <1>5, ComesDueStep, RemoveByKeyStep
  <1>6. CASE UNCHANGED vars
    <2>1. UNCHANGED <<status, due, caption, links, count, told, uses, files, proc, faults, cause>>
      BY <1>6 DEF vars, content
    <2>2. TypeOK' /\ OneWriter' /\ MediaFollowThePost' /\ CountOK'
      BY <2>1 DEF IInv, TypeOK, OneWriter, Works, MediaFollowThePost, Exists, CountOK, Counted
    <2>3. StepsOK'
      BY ZenonT(40), <2>1 DEF IInv, StepsOK, StepFine
    <2>4. ToldOK'
      BY <2>1 DEF IInv, ToldOK, NotOut, Raw, Publicizes, Works
    <2>5. LinksOK'
      BY <2>1 DEF IInv, LinksOK, Linking, NotOut, Raw, Works, Spoilt, Exists
    <2>6. QED BY <2>2, <2>3, <2>4, <2>5 DEF IInv
  <1>7. QED
    <2>1. Req \subseteq Proc
      BY DEF Proc
    <2>2. QED BY <1>1, <1>2, <1>3, <1>4, <1>5, <1>6, <2>1 DEF Next

THEOREM InductiveInvariant == Spec => []IInv
  <1>1. Init /\ [][Next]_vars => []IInv
    BY InitIInv, NextIInv, PTL
  <1>2. QED BY <1>1, PTL DEF Spec

\* Even if others overlap, nobody is told of a post that is not out.
Silent == status \in {"none", "DRAFT", "SCHEDULED"} => told = 0 /\ uses = 0

LEMMA NextSilent == IInv /\ Silent /\ [Next]_vars => Silent'
  <1> SUFFICES ASSUME IInv, Silent, [Next]_vars PROVE Silent'
    OBVIOUS
  <1>1. ASSUME NEW p \in Proc, NotifyNewPost(p) \/ CountMusic(p) PROVE Silent'
    <2>1. StepFine(proc[p]) /\ proc[p].at \in {"tell", "music"} /\ status' = status
      BY <1>1 DEF IInv, StepsOK, NotifyNewPost, CountMusic, At
    <2>2. status \in {"PUBLISHED", "gone"}
      BY <2>1 DEF StepFine, Mid
    <2>3. QED BY <2>1, <2>2 DEF Silent
  <1>2. ASSUME UNCHANGED <<told, uses>>, status' \in {status, "PUBLISHED", "gone"} \/ status = "none"
        PROVE  Silent'
    BY <1>2 DEF Silent
  <1>3. ASSUME NEW p \in Proc, Start(p) \/ Fail(p) \/ Crash(p) PROVE Silent'
    BY <1>2, <1>3 DEF Start, PutMedia, PublishRead, EditRead, RemoveRead, Fail, Crash, content
  <1>4. CASE JobRead \/ PublishScheduled \/ ComesDue \/ RemoveByKey \/ UNCHANGED vars
    BY <1>2, <1>4 DEF JobRead, PublishScheduled, ComesDue, RemoveByKey, vars, content
  <1>5. ASSUME NEW p \in Proc, Continue(p) PROVE Silent'
    <2>1. CASE InsertPost(p)
      <3>1. StepFine(proc[p]) /\ proc[p].at = "post" /\ UNCHANGED <<told, uses>>
        BY <2>1 DEF IInv, StepsOK, InsertPost, At
      <3>2. QED BY <1>2, <3>1 DEF StepFine
    <2>2. CASE FinalizeUpdate(p) \/ DeletePost(p)
      BY <1>2, <2>2 DEF FinalizeUpdate, DeletePost, content
    <2>3. CASE EnqueuePublish(p) \/ Answer(p) \/ UndoCreate(p) \/ Unqueue(p) \/ CountTag(p) \/ LinkTag(p)
               \/ LinkMentions(p) \/ EditCaption(p) \/ Unlink(p) \/ RemoveFiles(p)
      BY <1>2, <2>3 DEF EnqueuePublish, Answer, UndoCreate, Unqueue, CountTag, LinkTag, LinkMentions,
                        EditCaption, Unlink, RemoveFiles, content
    <2>4. QED BY <1>1, <1>5, <2>1, <2>2, <2>3 DEF Continue
  <1>6. Req \subseteq Proc
    BY DEF Proc
  <1>7. QED BY <1>3, <1>4, <1>5, <1>6, JobIn DEF Next, JobStep

LEMMA AlwaysSilent == Spec => []Silent
  <1>1. Init => Silent
    BY DEF Init, Silent
  <1>2. Init /\ []IInv /\ [][Next]_vars => []Silent
    BY <1>1, NextSilent, PTL
  <1>3. QED BY <1>2, InductiveInvariant, PTL DEF Spec

-----------------------------------------------------------------------------
\* The variables keep their types: the counters of a post's hashtags, too, never leave Nat.
THEOREM TypeCorrect == Spec => []TypeOK
  <1>1. IInv => TypeOK
    BY DEF IInv
  <1>2. QED BY <1>1, InductiveInvariant, PTL

LEMMA QuietIs == Quiet => \A p \in Proc : ~Works(p) /\ ~Publicizes(p) /\ proc[p].at \notin Effects
  BY DEF Quiet, Works, Publicizes, Mid, Effects

\* However many requests and hashtags there are, finalizePublish and updateCaption leave a
\* published post listed under the hashtags of its caption.
THEOREM TagsFollow == Spec => []TagsFollowTheCaption
  <1>1. IInv => TagsFollowTheCaption
    <2>1. SUFFICES ASSUME IInv, status = "PUBLISHED", Quiet, cause \subseteq {"edited", "lost"}
                   PROVE  links = caption
      BY DEF TagsFollowTheCaption
    <2>2. ~Spoilt /\ Exists
      BY <2>1 DEF Spoilt, Exists
    <2>3. ~NotOut
      BY <2>1, QuietIs DEF NotOut, Raw, Effects
    <2>4. QED BY <2>1, <2>2, <2>3, QuietIs DEF IInv, LinksOK
  <1>2. QED BY <1>1, InductiveInvariant, PTL

\* linkHashtags counts a post that is listed, and counts it once.
THEOREM CountersFollow == Spec => []CountersAgree
  <1>1. IInv => CountersAgree
    <2>1. SUFFICES ASSUME IInv PROVE CountersAgree
      OBVIOUS
    <2>2. \A t \in links : count[t] > 0
      BY <2>1 DEF IInv, CountOK
    <2>3. ASSUME Quiet, status # "gone", cause \subseteq {"lost"}, NEW t \in Tag
          PROVE  count[t] = IF t \in links THEN 1 ELSE 0
      <3>1. Counted(t) <=> t \in links
        BY <2>3, QuietIs DEF Counted, Effects
      <3>2. QED BY <2>1, <2>3, <3>1 DEF IInv, CountOK
    <2>4. QED BY <2>2, <2>3 DEF CountersAgree
  <1>2. QED BY <1>1, InductiveInvariant, PTL

\* finalizePublish tells the followers once, and never before the post is out.
THEOREM FollowersAreToldOnce == Spec => []FollowersHearOnce
  <1>1. IInv /\ Silent => FollowersHearOnce
    <2>1. SUFFICES ASSUME IInv, Silent PROVE FollowersHearOnce
      OBVIOUS
    <2>2. status \in {"none", "DRAFT", "SCHEDULED"} => told = 0 /\ uses = 0
      BY <2>1 DEF Silent
    <2>3. ASSUME status = "PUBLISHED", Quiet, cause \subseteq {"edited", "lost"}
          PROVE  told = 1 /\ uses = 1
      <3>1. ~NotOut
        BY <2>3, QuietIs DEF NotOut, Raw, Effects
      <3>2. "overlap" \notin cause /\ cause \cap {"failure", "draft edited"} = {}
        BY <2>3
      <3>3. QED BY <2>1, <2>3, <3>1, <3>2, QuietIs DEF IInv, ToldOK
    <2>4. told > 1 => "overlap" \in cause
      <3>1. "overlap" \notin cause => told \in {0, 1}
        BY <2>1 DEF IInv, ToldOK
      <3>2. QED BY <3>1
    <2>5. QED BY <2>2, <2>3, <2>4 DEF FollowersHearOnce
  <1>2. QED BY <1>1, InductiveInvariant, AlwaysSilent, PTL

\* A post that is there has its media, and one that is gone leaves none behind.
THEOREM MediaFollow == Spec => []MediaFollowThePost
  <1>1. IInv => MediaFollowThePost
    BY DEF IInv
  <1>2. QED BY <1>1, InductiveInvariant, PTL

\* Caption, links and counters agree, but for the exceptions named.
THEOREM BookkeepingFollows == Spec => []BookkeepingAgrees
  BY TagsFollow, CountersFollow, PTL DEF BookkeepingAgrees
-----------------------------------------------------------------------------
\* The other components take their own steps.

LEMMA ContentStep ==
  ASSUME [ContentNext]_allvars
  PROVE  /\ [P!Next]_pvars /\ [K!Next]_kvars /\ [A!Next]_avars /\ [Q!Next]_qvars /\ [R!Next]_rvars /\ [M!Next]_mvars
         /\ part' = part
  BY DEF ContentNext, Publishes, Reads, Taps, Uploads, Replies, Ranks, Plays, published, allvars,
     pvars, kvars, avars, qvars, rvars, mvars

LEMMA Counting ==
  ASSUME NEW S
  PROVE  K!Cardinality(S) = Cardinality(S) /\ A!Cardinality(S) = Cardinality(S)
  BY DEF K!Cardinality, Cardinality, A!Cardinality

-----------------------------------------------------------------------------
\* Marks.

\* A request; the ids are any numbers.
Tap == [at : {"start", "write", "count", "done", "failed"}, user : User \cup {None}, found : Nat,
        alone : BOOLEAN, passed : BOOLEAN, marked : BOOLEAN, count : Nat]

AllRows == UNION {{u} \X row[u] : u \in User}

MarksType ==
  /\ table \in K!Kinds /\ item \in BOOLEAN /\ made \in Nat
  /\ row \in [User -> SUBSET Nat] /\ day \subseteq Nat /\ tap \in [Call -> Tap] /\ turns \in [User -> Nat]
  /\ IsFiniteSet(AllRows)
  /\ \A r \in Call : IF K!At(r, "start") THEN tap[r] = K!Fresh ELSE tap[r].user \in User

\* The ids are used up in turn, and a toggle has one row of a user or none.
RowsOK ==
  \A u \in User :
    /\ row[u] \subseteq 1..made
    /\ table.unique => \A x, y \in row[u] : x = y
    /\ table.toggles /\ item => (row[u] # {} <=> turns[u] % 2 = 1)
    /\ (\E x, y \in row[u] \ day : x # y) => ~table.unique /\ K!Twofold(u)

\* Whoever is alone with his user finds what he has read.
TapOK(r) ==
  /\ K!At(r, "write") => ~table.direct
  /\ K!At(r, "count") => table.counts
  /\ K!At(r, "write") /\ tap[r].alone /\ item =>
       IF tap[r].found = 0 THEN K!Readable(tap[r].user) = {} ELSE tap[r].found \in row[tap[r].user]
  /\ K!At(r, "count") /\ tap[r].marked /\ ~tap[r].passed => row[tap[r].user] # {}
  /\ K!At(r, "write") => ~tap[r].marked
  /\ K!At(r, "done") /\ table.counts /\ tap[r].marked /\ ~tap[r].passed => tap[r].count > 0
  /\ K!At(r, "failed") => ~item \/ ~tap[r].alone

Together ==
  \A q, r \in Call : q # r /\ K!Busy(q) /\ K!Busy(r) /\ tap[q].user = tap[r].user => ~tap[r].alone

MarksInv == MarksType /\ RowsOK /\ (\A r \in Call : TapOK(r)) /\ Together

LEMMA KindIs ==
  ASSUME table \in K!Kinds
  PROVE  /\ table.toggles \in BOOLEAN /\ table.direct \in BOOLEAN /\ table.unique \in BOOLEAN /\ table.counts \in BOOLEAN
         /\ table.toggles => table.unique /\ ~table.direct
         /\ table.direct => ~table.counts /\ table.unique
  <1>1. \/ table = K!Toggle(TRUE) \/ table = K!Toggle(FALSE) \/ table = K!Direct
        \/ table = [K!Toggle(TRUE) EXCEPT !.toggles = FALSE]
        \/ table = [K!Toggle(FALSE) EXCEPT !.toggles = FALSE, !.unique = FALSE]
    BY DEF K!Kinds, K!PostLike, K!CommentLike, K!StoryLike, K!NoteLike, K!Repost, K!Favorite, K!PostView, K!ProfileView,
       K!StoryView, K!SavedMusic, K!Restricted, K!Searched, K!MessageReaction
  <1>2. CASE table = K!Toggle(TRUE)
    BY <1>2 DEF K!Toggle
  <1>3. CASE table = K!Toggle(FALSE)
    BY <1>3 DEF K!Toggle
  <1>4. CASE table = K!Direct
    BY <1>4 DEF K!Direct
  <1>5. CASE table = [K!Toggle(TRUE) EXCEPT !.toggles = FALSE]
    BY <1>5 DEF K!Toggle
  <1>6. CASE table = [K!Toggle(FALSE) EXCEPT !.toggles = FALSE, !.unique = FALSE]
    BY <1>6 DEF K!Toggle
  <1>7. QED BY <1>1, <1>2, <1>3, <1>4, <1>5, <1>6

LEMMA FreshIs ==
  /\ K!Fresh \in Tap /\ K!Fresh.at = "start" /\ K!Fresh.user = None /\ ~K!Fresh.marked /\ None \notin User
  BY OtherIsApart DEF K!Fresh, Tap

LEMMA Odd == ASSUME NEW n \in Nat PROVE ((n + 1) % 2 = 1) <=> (n % 2 # 1)
  OBVIOUS

LEMMA MarksInit == ContentInit => MarksInv
  <1> SUFFICES ASSUME K!Init PROVE MarksInv
    BY DEF ContentInit
  <1>1. \A u \in User : row[u] = {}
    BY DEF K!Init
  <1>2. AllRows = {}
    BY <1>1 DEF AllRows
  <1>3. MarksType
    BY <1>2, FreshIs, FS_EmptySet DEF K!Init, MarksType, K!At
  <1>4. RowsOK
    BY <1>1 DEF K!Init, RowsOK
  <1>5. \A r \in Call : tap[r] = K!Fresh
    BY DEF K!Init
  <1>6. (\A r \in Call : TapOK(r)) /\ Together
    BY <1>5, FreshIs DEF TapOK, Together, K!At, K!Busy
  <1>7. QED BY <1>3, <1>4, <1>6 DEF MarksInv

\* One row more, or fewer.
LEMMA RowsStayFinite ==
  ASSUME IsFiniteSet(AllRows), row \in [User -> SUBSET Nat], row' \in [User -> SUBSET Nat],
         NEW u \in User, NEW x \in Nat, row'[u] \subseteq row[u] \cup {x},
         \A v \in User \ {u} : row'[v] \subseteq row[v]
  PROVE  IsFiniteSet(AllRows')
  <1>1. AllRows' \subseteq AllRows \cup {<<u, x>>}
    BY DEF AllRows
  <1>2. IsFiniteSet(AllRows \cup {<<u, x>>})
    BY FS_AddElement
  <1>3. QED BY <1>1, <1>2, FS_Subset

\* A request that another one's step leaves where it is.
Stays(q) ==
  /\ tap'[q] \in Tap /\ tap'[q].at = tap[q].at /\ tap'[q].user = tap[q].user /\ tap'[q].found = tap[q].found
  /\ tap'[q].marked = tap[q].marked /\ tap'[q].count = tap[q].count
  /\ tap'[q].alone => tap[q].alone
  /\ tap[q].passed => tap'[q].passed
  /\ tap[q] = K!Fresh => tap'[q] = K!Fresh

\* A request goes to a place with a mark, or is passed by.
LEMMA TapMoves ==
  ASSUME NEW t \in Tap, NEW l \in {"start", "write", "count", "done", "failed"}, NEW b \in BOOLEAN, NEW x,
         x = [t EXCEPT !.at = l, !.marked = b]
  PROVE  x \in Tap /\ x.at = l /\ x.marked = b /\ x.user = t.user /\ x.alone = t.alone /\ x.passed = t.passed
  BY DEF Tap

LEMMA TapPassed ==
  ASSUME NEW t \in Tap, NEW x, x = [t EXCEPT !.passed = TRUE]
  PROVE  x \in Tap /\ x.at = t.at /\ x.marked = t.marked /\ x.user = t.user /\ x.alone = t.alone /\ x.passed
         /\ x.found = t.found /\ x.count = t.count
  BY DEF Tap

LEMMA WrittenIs ==
  ASSUME MarksType, NEW r \in Call, K!At(r, "write"), NEW b \in BOOLEAN, K!Written(r, b)
  PROVE  /\ tap' \in [Call -> Tap] /\ tap'[r].at = (IF table.counts THEN "count" ELSE "done")
         /\ tap'[r].user = tap[r].user /\ tap'[r].marked = b /\ tap'[r].alone = tap[r].alone
         /\ \A q \in Call \ {r} : Stays(q) /\ tap'[q].alone = tap[q].alone /\ (K!At(q, "count") => tap'[q].passed)
  <1>1. table.counts \in BOOLEAN /\ tap \in [Call -> Tap]
    BY KindIs DEF MarksType
  <1>2. /\ tap'[r] = [tap[r] EXCEPT !.at = IF table.counts THEN "count" ELSE "done", !.marked = b]
        /\ DOMAIN tap' = Call
        /\ \A q \in Call \ {r} : tap'[q] = IF K!At(q, "count") THEN [tap[q] EXCEPT !.passed = TRUE] ELSE tap[q]
        /\ tap' = [q \in Call |-> tap'[q]]
    BY <1>1 DEF K!Written
  <1>3. /\ tap'[r] \in Tap /\ tap'[r].at = (IF table.counts THEN "count" ELSE "done")
        /\ tap'[r].user = tap[r].user /\ tap'[r].marked = b /\ tap'[r].alone = tap[r].alone
    <2>1. PICK l \in {"count", "done"} : l = IF table.counts THEN "count" ELSE "done"
      OBVIOUS
    <2>2. tap[r] \in Tap /\ tap'[r] = [tap[r] EXCEPT !.at = l, !.marked = b]
      BY <1>1, <1>2, <2>1
    <2>3. l \in {"start", "write", "count", "done", "failed"}
      OBVIOUS
    <2>4. tap'[r] \in Tap /\ tap'[r].at = l /\ tap'[r].marked = b /\ tap'[r].user = tap[r].user
          /\ tap'[r].alone = tap[r].alone
      BY <2>2, <2>3 DEF Tap
    <2>5. QED BY <2>1, <2>4
  <1>4. ASSUME NEW q \in Call \ {r}
        PROVE  Stays(q) /\ tap'[q].alone = tap[q].alone /\ (K!At(q, "count") => tap'[q].passed)
    <2>1. CASE K!At(q, "count")
      <3>1. tap[q] \in Tap /\ tap'[q] = [tap[q] EXCEPT !.passed = TRUE] /\ tap[q] # K!Fresh
        BY <1>1, <1>2, <2>1, FreshIs DEF K!At
      <3>2. QED BY <3>1, TapPassed DEF Stays
    <2>2. CASE ~K!At(q, "count")
      BY <1>1, <1>2, <2>2 DEF Stays
    <2>3. QED BY <2>1, <2>2
  <1>5. tap' \in [Call -> Tap]
    <2>1. \A q \in Call : tap'[q] \in Tap
      BY <1>3, <1>4 DEF Stays
    <2>2. QED BY <1>2, <2>1
  <1>6. QED BY <1>3, <1>4, <1>5

\* Only one request has changed where it is.
LEMMA TogetherStays ==
  ASSUME MarksType, Together, tap' \in [Call -> Tap], NEW r \in Call, K!Busy(r), tap'[r].user = tap[r].user, tap'[r].alone = tap[r].alone,
         \A q \in Call \ {r} : Stays(q)
  PROVE  Together'
  BY DEF Together, Stays, K!Busy

LEMMA FailsIs ==
  ASSUME MarksInv, NEW r \in Call, K!At(r, "write"), K!Fails(r), ~item \/ ~tap[r].alone,
         UNCHANGED <<table, item, day>>
  PROVE  MarksInv'
  <1>1. MarksType /\ RowsOK /\ (\A q \in Call : TapOK(q)) /\ Together /\ tap \in [Call -> Tap]
    BY DEF MarksInv, MarksType
  <1>2. /\ tap' \in [Call -> Tap] /\ tap'[r].at = "failed" /\ tap'[r].user = tap[r].user /\ tap'[r].alone = tap[r].alone
        /\ \A q \in Call \ {r} : tap'[q] = tap[q]
        /\ row' = row /\ made' = made /\ turns' = turns
    BY <1>1 DEF K!Fails, Tap
  <1>3. MarksType'
    BY <1>1, <1>2 DEF MarksType, AllRows, K!At
  <1>4. RowsOK'
    BY <1>1, <1>2 DEF RowsOK, K!Twofold
  <1>5. ASSUME NEW q \in Call PROVE TapOK(q)'
    BY <1>1, <1>2 DEF TapOK, K!At, K!Readable
  <1>6. Together'
    BY <1>1, <1>2, TogetherStays DEF K!Busy, K!At, Stays
  <1>7. QED BY <1>3, <1>4, <1>5, <1>6 DEF MarksInv

LEMMA UnmarkStep ==
  ASSUME MarksInv, NEW r \in Call, K!Unmark(r)
  PROVE  MarksInv'
  <1>0. /\ MarksType /\ RowsOK /\ (\A q \in Call : TapOK(q)) /\ Together /\ tap \in [Call -> Tap]
        /\ row \in [User -> SUBSET Nat] /\ turns \in [User -> Nat] /\ tap[r].user \in User /\ tap[r].found \in Nat
        /\ table.toggles /\ table.unique /\ ~table.direct /\ table.counts \in BOOLEAN
    BY KindIs DEF MarksInv, MarksType, K!Unmark, K!At, K!Fresh, Tap
  <1> DEFINE u == tap[r].user
             f == tap[r].found
  <1>1. CASE f \notin row[u]
    <2>1. ~item \/ ~tap[r].alone
      BY <1>0, <1>1 DEF TapOK, K!Unmark
    <2>2. K!At(r, "write") /\ K!Fails(r) /\ UNCHANGED <<table, item, day>>
      BY <1>1 DEF K!Unmark
    <2>3. QED BY <2>1, <2>2, FailsIs
  <1>2. CASE f \in row[u]
    <2>1. /\ K!At(r, "write") /\ row' = [row EXCEPT ![u] = @ \ {f}] /\ turns' = [turns EXCEPT ![u] = @ + 1]
          /\ K!Written(r, FALSE) /\ UNCHANGED <<table, item, day, made>>
      BY <1>2 DEF K!Unmark
    <2>2. /\ tap' \in [Call -> Tap] /\ tap'[r].at = (IF table.counts THEN "count" ELSE "done")
          /\ tap'[r].user = u /\ ~tap'[r].marked /\ tap'[r].alone = tap[r].alone
          /\ \A q \in Call \ {r} : Stays(q) /\ tap'[q].alone = tap[q].alone /\ (K!At(q, "count") => tap'[q].passed)
      BY <1>0, <2>1, WrittenIs
    <2>3. row[u] = {f}
      BY <1>0, <1>2 DEF RowsOK
    <2>4. /\ row' \in [User -> SUBSET Nat] /\ row'[u] = {} /\ \A v \in User \ {u} : row'[v] = row[v]
          /\ turns' \in [User -> Nat] /\ turns'[u] = turns[u] + 1 /\ \A v \in User \ {u} : turns'[v] = turns[v]
      BY <1>0, <2>1, <2>3
    <2>5. IsFiniteSet(AllRows')
      BY <1>0, <2>4, RowsStayFinite DEF MarksType
    <2>6. MarksType'
      BY <1>0, <2>1, <2>2, <2>4, <2>5 DEF MarksType, K!At, Stays
    <2>7. RowsOK'
      <3>1. ASSUME NEW v \in User, v # u
            PROVE  /\ row'[v] \subseteq 1..made
                   /\ table.unique => \A x, y \in row'[v] : x = y
                   /\ table.toggles /\ item => (row'[v] # {} <=> turns'[v] % 2 = 1)
                   /\ ~\E x, y \in row'[v] \ day : x # y
        BY <1>0, <2>4, <3>1 DEF RowsOK
      <3>2. turns[u] % 2 = 1 \/ ~item
        BY <1>0, <1>2 DEF RowsOK
      <3>3. item => turns'[u] % 2 # 1
        BY <1>0, <2>4, <3>2, Odd
      <3>4. QED BY <2>1, <2>4, <3>1, <3>3 DEF RowsOK
    <2>8. ASSUME NEW q \in Call PROVE TapOK(q)'
      <3>1. CASE q = r
        BY <1>0, <2>1, <2>2, <3>1 DEF TapOK, K!At
      <3>2. CASE q # r
        <4>1. K!At(q, "write") /\ tap[q].alone => tap[q].user # u /\ tap[q].user \in User
          BY <1>0, <2>1, <3>2 DEF Together, K!Busy, K!At, MarksType, K!Fresh
        <4>2. QED BY <1>0, <2>1, <2>2, <2>4, <3>2, <4>1 DEF TapOK, K!At, Stays, K!Readable
      <3>3. QED BY <3>1, <3>2
    <2>9. Together'
      BY <1>0, <2>1, <2>2, TogetherStays DEF K!Busy, K!At
    <2>10. QED BY <2>6, <2>7, <2>8, <2>9 DEF MarksInv
  <1>3. QED BY <1>1, <1>2

LEMMA MarkStep ==
  ASSUME MarksInv, NEW r \in Call, K!Mark(r)
  PROVE  MarksInv'
  <1>0. /\ MarksType /\ RowsOK /\ (\A q \in Call : TapOK(q)) /\ Together /\ tap \in [Call -> Tap]
        /\ row \in [User -> SUBSET Nat] /\ turns \in [User -> Nat] /\ made \in Nat
        /\ tap[r].found = 0
        /\ table.unique \in BOOLEAN /\ table.toggles \in BOOLEAN /\ table.counts \in BOOLEAN
        /\ table.toggles => table.unique
    BY KindIs DEF MarksInv, MarksType, K!Mark, K!At, K!Fresh, Tap
  <1>u. PICK u \in User : u = tap[r].user
    BY DEF MarksInv, MarksType, K!Mark, K!At, K!Fresh
  <1>1. CASE ~(item /\ (table.unique => row[u] = {}))
    <2>1. ~item \/ ~tap[r].alone
      BY <1>0, <1>u, <1>1 DEF TapOK, K!Mark, K!Readable
    <2>2. K!At(r, "write") /\ K!Fails(r) /\ UNCHANGED <<table, item, day>>
      BY <1>u, <1>1 DEF K!Mark
    <2>3. QED BY <2>1, <2>2, FailsIs
  <1>2. CASE item /\ (table.unique => row[u] = {})
    <2>1. /\ K!At(r, "write") /\ row' = [row EXCEPT ![u] = @ \cup {made + 1}] /\ made' = made + 1
          /\ turns' = [turns EXCEPT ![u] = @ + 1]
          /\ K!Written(r, TRUE) /\ UNCHANGED <<table, item, day>>
      BY <1>u, <1>2 DEF K!Mark
    <2>2. /\ tap' \in [Call -> Tap] /\ tap'[r].at = (IF table.counts THEN "count" ELSE "done")
          /\ tap'[r].user = u /\ tap'[r].marked /\ tap'[r].alone = tap[r].alone
          /\ \A q \in Call \ {r} : Stays(q) /\ tap'[q].alone = tap[q].alone /\ (K!At(q, "count") => tap'[q].passed)
      BY <1>0, <1>u, <2>1, WrittenIs
    <2>3. /\ row' \in [User -> SUBSET Nat] /\ row'[u] = row[u] \cup {made + 1}
          /\ \A v \in User \ {u} : row'[v] = row[v]
          /\ turns' \in [User -> Nat] /\ turns'[u] = turns[u] + 1 /\ \A v \in User \ {u} : turns'[v] = turns[v]
      BY <1>0, <1>u, <2>1
    <2>4. IsFiniteSet(AllRows')
      BY <1>0, <1>u, <2>3, RowsStayFinite DEF MarksType
    <2>5. MarksType'
      BY <1>0, <1>u, <2>1, <2>2, <2>3, <2>4 DEF MarksType, K!At, Stays
    <2>6. RowsOK'
      <3>1. ASSUME NEW v \in User, v # u
            PROVE  /\ row'[v] \subseteq 1..made'
                   /\ table.unique => \A x, y \in row'[v] : x = y
                   /\ table.toggles /\ item => (row'[v] # {} <=> turns'[v] % 2 = 1)
                   /\ (\E x, y \in row'[v] \ day : x # y) => ~table.unique /\ K!Twofold(v)'
        <4>1. row[v] \subseteq 1..made /\ 1..made \subseteq 1..made'
          BY <1>0, <1>u, <2>1 DEF RowsOK
        <4>2. K!Twofold(v) => K!Twofold(v)'
          BY <1>u, <2>2 DEF K!Twofold, Stays
        <4>3. QED BY <1>0, <1>u, <2>3, <3>1, <4>1, <4>2 DEF RowsOK
      <3>2. row'[u] \subseteq 1..made' /\ (table.unique => \A x, y \in row'[u] : x = y)
        BY <1>0, <1>u, <1>2, <2>1, <2>3 DEF RowsOK
      <3>3. table.toggles => turns'[u] % 2 = 1 /\ row'[u] # {}
        <4>1. table.toggles => row[u] = {} /\ turns[u] % 2 # 1
          BY <1>0, <1>u, <1>2 DEF RowsOK
        <4>2. turns[u] \in Nat /\ turns'[u] = turns[u] + 1 /\ row'[u] # {}
          BY <1>0, <1>u, <2>3
        <4>3. QED BY <4>1, <4>2, Odd
      <3>4. (\E x, y \in row'[u] \ day : x # y) => ~table.unique /\ K!Twofold(u)'
        <4>1. SUFFICES ASSUME \E x, y \in row'[u] \ day : x # y PROVE ~table.unique /\ K!Twofold(u)'
          OBVIOUS
        <4>2. ~table.unique
          BY <3>2, <4>1
        <4>3. row[u] \ day # {}
          BY <2>3, <4>1
        <4>4. ~tap[r].alone
          BY <1>0, <1>u, <1>2, <2>1, <4>2, <4>3 DEF TapOK, K!Readable
        <4>5. QED BY <2>2, <4>2, <4>4 DEF K!Twofold
      <3>5. QED BY <2>1, <3>1, <3>2, <3>3, <3>4 DEF RowsOK
    <2>7. ASSUME NEW q \in Call PROVE TapOK(q)'
      <3>1. CASE q = r
        <4>1. row'[tap'[q].user] # {}
          BY <1>0, <1>u, <2>2, <2>3, <3>1
        <4>2. CASE table.counts
          BY <1>0, <2>1, <2>2, <3>1, <4>1, <4>2 DEF TapOK, K!At
        <4>3. CASE ~table.counts
          BY <1>0, <2>1, <2>2, <3>1, <4>1, <4>3 DEF TapOK, K!At
        <4>4. QED BY <4>2, <4>3
      <3>2. CASE q # r
        <4>1. K!At(q, "write") /\ tap[q].alone => tap[q].user # u /\ tap[q].user \in User
          BY <1>0, <1>u, <2>1, <3>2 DEF Together, K!Busy, K!At, MarksType, K!Fresh
        <4>2. QED BY <1>0, <1>u, <2>1, <2>2, <2>3, <3>2, <4>1 DEF TapOK, K!At, Stays, K!Readable
      <3>3. QED BY <3>1, <3>2
    <2>8. Together'
      BY <1>0, <1>u, <2>1, <2>2, TogetherStays DEF K!Busy, K!At
    <2>9. QED BY <2>5, <2>6, <2>7, <2>8 DEF MarksInv
  <1>3. QED BY <1>1, <1>2

\* Steps of one request that write no row.
LEMMA QuietStep ==
  ASSUME MarksInv, NEW r \in Call, K!Busy(r), tap' \in [Call -> Tap], \A q \in Call \ {r} : tap'[q] = tap[q],
         tap'[r].at \in {"count", "done"}, tap'[r].user = tap[r].user, tap'[r].alone = tap[r].alone, TapOK(r)',
         UNCHANGED <<table, item, row, made, day, turns>>
  PROVE  MarksInv'
  <1>1. MarksType /\ RowsOK /\ (\A q \in Call : TapOK(q)) /\ Together /\ tap \in [Call -> Tap]
    BY DEF MarksInv, MarksType
  <1>2. MarksType'
    BY <1>1 DEF MarksType, AllRows, K!At, K!Busy, K!Fresh
  <1>3. RowsOK'
    BY <1>1 DEF RowsOK, K!Twofold
  <1>4. ASSUME NEW q \in Call PROVE TapOK(q)'
    <2>1. CASE q = r
      BY <2>1
    <2>2. CASE q # r
      BY <1>1, <2>2 DEF TapOK, K!At, K!Readable
    <2>3. QED BY <2>1, <2>2
  <1>5. Together'
    BY <1>1, TogetherStays DEF Stays
  <1>6. QED BY <1>2, <1>3, <1>4, <1>5 DEF MarksInv

LEMMA KeepStep ==
  ASSUME MarksInv, NEW r \in Call, K!Keep(r)
  PROVE  MarksInv'
  <1>0. /\ MarksType /\ TapOK(r) /\ tap \in [Call -> Tap] /\ table.counts \in BOOLEAN /\ K!At(r, "write")
        /\ UNCHANGED <<table, item, row, made, day, turns>>
    BY KindIs DEF MarksInv, MarksType, K!Keep
  <1>1. PICK l \in {"count", "done"} : l = IF table.counts THEN "count" ELSE "done"
    OBVIOUS
  <1>2. tap' = [tap EXCEPT ![r].at = l]
    BY <1>1 DEF K!Keep
  <1>3. /\ tap' \in [Call -> Tap] /\ (\A q \in Call \ {r} : tap'[q] = tap[q])
        /\ tap'[r].at = l /\ tap'[r].user = tap[r].user /\ tap'[r].alone = tap[r].alone /\ tap'[r].marked = tap[r].marked
    BY <1>0, <1>2 DEF Tap
  <1>4. TapOK(r)'
    BY <1>0, <1>1, <1>3 DEF TapOK, K!At
  <1>5. QED BY <1>0, <1>3, <1>4, QuietStep DEF K!Busy, K!At

LEMMA CountStep ==
  ASSUME MarksInv, NEW r \in Call, K!Count(r)
  PROVE  MarksInv'
  <1>0. /\ MarksType /\ TapOK(r) /\ tap \in [Call -> Tap] /\ tap[r].user \in User /\ K!At(r, "count")
        /\ UNCHANGED <<table, item, row, made, day, turns>>
    BY DEF MarksInv, MarksType, K!Count, K!At, K!Fresh
  <1>1. PICK n : n = Cardinality(AllRows)
    OBVIOUS
  <1>2. n \in Nat /\ (row[tap[r].user] # {} => n > 0)
    <2>1. n \in Nat /\ (n = 0 => AllRows = {})
      BY <1>0, <1>1, FS_CardinalityType, FS_EmptySet DEF MarksType
    <2>2. ASSUME row[tap[r].user] # {} PROVE AllRows # {}
      <3>1. PICK x : x \in row[tap[r].user]
        BY <2>2
      <3>2. <<tap[r].user, x>> \in {tap[r].user} \X row[tap[r].user]
        BY <3>1
      <3>3. <<tap[r].user, x>> \in AllRows
        BY <1>0, <3>2 DEF AllRows
      <3>4. QED BY <3>3
    <2>3. QED BY <2>1, <2>2
  <1>3. tap' = [tap EXCEPT ![r].at = "done", ![r].count = n]
    BY <1>1, Counting DEF K!Count, AllRows
  <1>4. /\ tap' \in [Call -> Tap] /\ (\A q \in Call \ {r} : tap'[q] = tap[q])
        /\ tap'[r].at = "done" /\ tap'[r].user = tap[r].user /\ tap'[r].alone = tap[r].alone
        /\ tap'[r].marked = tap[r].marked /\ tap'[r].passed = tap[r].passed /\ tap'[r].count = n
    BY <1>0, <1>2, <1>3 DEF Tap
  <1>5. TapOK(r)'
    BY <1>0, <1>2, <1>4 DEF TapOK, K!At
  <1>6. QED BY <1>0, <1>4, <1>5, QuietStep DEF K!Busy, K!At

LEMMA FindStep ==
  ASSUME MarksInv, NEW r \in Call, NEW u \in User, K!Find(r, u)
  PROVE  MarksInv'
  <1>0. /\ MarksType /\ RowsOK /\ (\A q \in Call : TapOK(q)) /\ Together /\ tap \in [Call -> Tap]
        /\ row \in [User -> SUBSET Nat] /\ K!At(r, "start") /\ tap[r] = K!Fresh /\ tap[r].user = None
        /\ ~table.direct /\ item /\ table.unique \in BOOLEAN
        /\ UNCHANGED <<table, item, row, made, day, turns>>
    BY KindIs, FreshIs DEF MarksInv, MarksType, K!Find, K!Comes
  <1>1. PICK f \in IF K!Readable(u) = {} THEN {0} ELSE K!Readable(u), alone \in BOOLEAN :
          /\ alone => \A q \in Call : K!Busy(q) => tap[q].user # u
          /\ tap' = [q \in Call |->
               IF q = r THEN [K!Fresh EXCEPT !.at = "write", !.user = u, !.found = f, !.alone = alone]
               ELSE IF K!Busy(q) /\ tap[q].user = u THEN [tap[q] EXCEPT !.alone = FALSE] ELSE tap[q]]
    <2>1. PICK b \in BOOLEAN : b <=> \A q \in Call : K!Busy(q) => tap[q].user # u
      OBVIOUS
    <2>2. b = (\A q \in Call : K!Busy(q) => tap[q].user # u)
      BY <2>1
    <2>3. PICK f \in IF K!Readable(u) = {} THEN {0} ELSE K!Readable(u) :
            tap' = [q \in Call |->
               IF q = r THEN [K!Fresh EXCEPT !.at = "write", !.user = u, !.found = f,
                                             !.alone = (\A c \in Call : K!Busy(c) => tap[c].user # u)]
               ELSE IF K!Busy(q) /\ tap[q].user = u THEN [tap[q] EXCEPT !.alone = FALSE] ELSE tap[q]]
      BY DEF K!Find
    <2>4. QED BY <2>1, <2>2, <2>3
  <1>2. /\ f \in Nat /\ (f = 0 => K!Readable(u) = {}) /\ (f # 0 => f \in row[u])
    <2>1. row[u] \subseteq Nat /\ 0 \notin row[u] /\ K!Readable(u) \subseteq row[u]
      BY <1>0 DEF RowsOK, K!Readable
    <2>2. QED BY <2>1
  <1>3. /\ tap'[r] \in Tap /\ tap'[r].at = "write" /\ tap'[r].user = u /\ tap'[r].found = f /\ tap'[r].alone = alone
        /\ ~tap'[r].marked
    BY <1>1, <1>2, FreshIs DEF Tap, K!Fresh
  <1>4. ASSUME NEW q \in Call \ {r}
        PROVE  Stays(q) /\ (~(K!Busy(q) /\ tap[q].user = u) => tap'[q] = tap[q])
               /\ (K!Busy(q) /\ tap[q].user = u => ~tap'[q].alone) /\ tap'[q].passed = tap[q].passed
    <2>1. CASE K!Busy(q) /\ tap[q].user = u
      <3>1. tap'[q] = [tap[q] EXCEPT !.alone = FALSE] /\ tap[q] \in Tap /\ tap[q] # K!Fresh
        BY <1>0, <1>1, <2>1, FreshIs DEF K!Busy
      <3>2. QED BY <2>1, <3>1 DEF Stays, Tap
    <2>2. CASE ~(K!Busy(q) /\ tap[q].user = u)
      BY <1>0, <1>1, <2>2 DEF Stays
    <2>3. QED BY <2>1, <2>2
  <1>5. tap' \in [Call -> Tap]
    BY <1>1, <1>3, <1>4 DEF Stays
  <1>6. MarksType'
    BY <1>0, <1>3, <1>4, <1>5 DEF MarksType, AllRows, K!At, Stays
  <1>7. RowsOK'
    <2>1. ASSUME NEW v \in User, K!Twofold(v) PROVE K!Twofold(v)'
      BY <1>0, <1>4, <2>1, FreshIs DEF K!Twofold, Stays
    <2>2. QED BY <1>0, <2>1 DEF RowsOK
  <1>8. ASSUME NEW q \in Call PROVE TapOK(q)'
    <2>1. CASE q = r
      BY <1>0, <1>2, <1>3, <2>1 DEF TapOK, K!At, K!Readable
    <2>2. CASE q # r
      BY <1>0, <1>4, <2>2 DEF TapOK, K!At, K!Readable, Stays
    <2>3. QED BY <2>1, <2>2
  <1>9. Together'
    <2>1. ASSUME NEW p \in Call, NEW q \in Call, p # q, K!Busy(p)', K!Busy(q)', tap'[p].user = tap'[q].user
          PROVE  ~tap'[q].alone
      <3>1. CASE q = r
        BY <1>1, <1>3, <1>4, <2>1, <3>1 DEF K!Busy, Stays
      <3>2. CASE p = r
        BY <1>3, <1>4, <2>1, <3>2 DEF K!Busy, Stays
      <3>3. CASE p # r /\ q # r
        BY <1>0, <1>4, <2>1, <3>3 DEF Together, K!Busy, Stays
      <3>4. QED BY <3>1, <3>2, <3>3
    <2>2. QED BY <2>1 DEF Together
  <1>10. QED BY <1>6, <1>7, <1>8, <1>9 DEF MarksInv

\* Setting and taking back in one statement.
LEMMA DirectStep ==
  ASSUME MarksInv, NEW r \in Call, NEW u \in User, K!Set(r, u) \/ K!Take(r, u)
  PROVE  MarksInv'
  <1>0. /\ MarksType /\ RowsOK /\ (\A q \in Call : TapOK(q)) /\ Together /\ tap \in [Call -> Tap]
        /\ row \in [User -> SUBSET Nat] /\ made \in Nat /\ K!At(r, "start")
        /\ table.direct /\ ~table.counts /\ table.unique /\ ~table.toggles
        /\ UNCHANGED <<table, item, day, turns>>
    BY KindIs DEF MarksInv, MarksType, K!Set, K!Take, K!Comes
  <1>1. /\ tap' \in [Call -> Tap] /\ \A q \in Call \ {r} : tap'[q] = tap[q]
        /\ tap'[r].at = "done" /\ tap'[r].user = u
    <2>1. PICK x \in Tap : x.at = "done" /\ x.user = u /\ tap' = [tap EXCEPT ![r] = x]
      <3>1. CASE K!Set(r, u)
        <4>1. [K!Fresh EXCEPT !.at = "done", !.user = u, !.marked = TRUE] \in Tap
          BY FreshIs DEF Tap
        <4>2. QED BY <3>1, <4>1, FreshIs DEF K!Set, Tap
      <3>2. CASE K!Take(r, u)
        <4>1. [K!Fresh EXCEPT !.at = "done", !.user = u] \in Tap
          BY FreshIs DEF Tap
        <4>2. QED BY <3>2, <4>1, FreshIs DEF K!Take, Tap
      <3>3. QED BY <3>1, <3>2
    <2>2. QED BY <1>0, <2>1
  <1>2. /\ row' \in [User -> SUBSET Nat] /\ made' \in Nat /\ made' >= made
        /\ \A v \in User \ {u} : row'[v] = row[v]
        /\ row'[u] \subseteq row[u] \cup {made + 1} /\ row'[u] \subseteq 1..made'
        /\ \A x, y \in row'[u] : x = y
    BY <1>0 DEF K!Set, K!Take, RowsOK
  <1>3. IsFiniteSet(AllRows')
    BY <1>0, <1>2, RowsStayFinite DEF MarksType
  <1>4. MarksType'
    BY <1>0, <1>1, <1>2, <1>3 DEF MarksType, K!At
  <1>5. RowsOK'
    <2>1. ASSUME NEW v \in User PROVE row'[v] \subseteq 1..made' /\ \A x, y \in row'[v] : x = y
      BY <1>0, <1>2, <2>1 DEF RowsOK
    <2>2. QED BY <1>0, <2>1 DEF RowsOK
  <1>6. ASSUME NEW q \in Call PROVE TapOK(q)'
    BY <1>0, <1>1 DEF TapOK, K!At
  <1>7. \A q \in Call : ~K!Busy(q)'
    BY <1>0, <1>1 DEF TapOK, K!At, K!Busy
  <1>8. Together'
    BY <1>7 DEF Together
  <1>9. QED BY <1>4, <1>5, <1>6, <1>8 DEF MarksInv

LEMMA DeleteItemStep ==
  ASSUME MarksInv, K!DeleteItem
  PROVE  MarksInv'
  <1>0. /\ MarksType /\ RowsOK /\ (\A q \in Call : TapOK(q)) /\ Together /\ tap \in [Call -> Tap]
        /\ item' = FALSE /\ row' = [u \in User |-> {}] /\ UNCHANGED <<table, made, day, turns>>
    BY DEF MarksInv, MarksType, K!DeleteItem
  <1>1. ASSUME NEW q \in Call
        PROVE  Stays(q) /\ tap'[q].alone = tap[q].alone /\ (K!At(q, "count") => tap'[q].passed)
    <2>1. CASE K!At(q, "count")
      <3>1. tap[q] \in Tap /\ tap'[q] = [tap[q] EXCEPT !.passed = TRUE] /\ tap[q] # K!Fresh
        BY <1>0, <2>1, FreshIs DEF K!At, K!DeleteItem
      <3>2. QED BY <3>1, TapPassed DEF Stays
    <2>2. CASE ~K!At(q, "count")
      BY <1>0, <2>2 DEF Stays, K!DeleteItem
    <2>3. QED BY <2>1, <2>2
  <1>2. tap' \in [Call -> Tap]
    BY <1>1 DEF Stays, K!DeleteItem
  <1>3. AllRows' = {}
    BY <1>0 DEF AllRows
  <1>4. MarksType'
    BY <1>0, <1>1, <1>2, <1>3, FS_EmptySet DEF MarksType, K!At, Stays
  <1>5. RowsOK'
    BY <1>0 DEF RowsOK
  <1>6. ASSUME NEW q \in Call PROVE TapOK(q)'
    BY <1>0, <1>1 DEF TapOK, K!At, Stays
  <1>7. Together'
    BY <1>0, <1>1 DEF Together, K!Busy, Stays
  <1>8. QED BY <1>4, <1>5, <1>6, <1>7 DEF MarksInv

LEMMA DayPassesStep ==
  ASSUME MarksInv, K!DayPasses
  PROVE  MarksInv'
  <1>0. /\ MarksType /\ RowsOK /\ (\A q \in Call : TapOK(q)) /\ Together
        /\ ~table.unique /\ ~table.toggles /\ day' = 1..made /\ made \in Nat
        /\ UNCHANGED <<table, item, row, made, tap, turns>>
    BY KindIs DEF MarksInv, MarksType, K!DayPasses
  <1>1. MarksType'
    BY <1>0 DEF MarksType, AllRows, K!At
  <1>2. \A u \in User : row[u] \ day' = {}
    BY <1>0 DEF RowsOK
  <1>3. RowsOK'
    BY <1>0, <1>2 DEF RowsOK
  <1>4. ASSUME NEW q \in Call PROVE TapOK(q)'
    <2>1. K!At(q, "write") => tap[q].user \in User
      BY <1>0 DEF MarksType, K!At, K!Fresh
    <2>2. QED BY <1>0, <1>2, <2>1 DEF TapOK, K!At, K!Readable
  <1>5. Together'
    BY <1>0 DEF Together, K!Busy
  <1>6. QED BY <1>1, <1>3, <1>4, <1>5 DEF MarksInv

LEMMA MarksNext == MarksInv /\ [K!Next]_kvars => MarksInv'
  <1> SUFFICES ASSUME MarksInv, [K!Next]_kvars PROVE MarksInv'
    OBVIOUS
  <1>1. CASE K!Next
    BY <1>1, UnmarkStep, MarkStep, KeepStep, CountStep, FindStep, DirectStep, DeleteItemStep, DayPassesStep DEF K!Next
  <1>2. CASE UNCHANGED kvars
    <2>1. UNCHANGED <<table, item, row, made, day, tap, turns>>
      BY <1>2 DEF kvars
    <2>2. QED BY <2>1 DEF MarksInv, MarksType, AllRows, RowsOK, TapOK, Together, K!At, K!Busy, K!Readable, K!Twofold
  <1>3. QED BY <1>1, <1>2

LEMMA MarksAreRight == MarksInv => K!MarksAgree
  <1> SUFFICES ASSUME MarksInv PROVE K!MarksAgree
    OBVIOUS
  <1>1. MarksType /\ RowsOK /\ (\A r \in Call : TapOK(r))
    BY DEF MarksInv
  <1>2. ASSUME NEW S, \A x, y \in S : x = y PROVE K!Cardinality(S) <= 1
    <2>1. CASE S = {}
      BY <2>1, Counting, FS_EmptySet
    <2>2. CASE S # {}
      <3>1. PICK x : S = {x}
        BY <1>2, <2>2
      <3>2. QED BY <3>1, Counting, FS_Singleton
    <2>3. QED BY <2>1, <2>2
  <1>3. table.unique => \A u \in User : K!Cardinality(row[u]) <= 1
    BY <1>1, <1>2 DEF RowsOK
  <1>4. ASSUME NEW u \in User, K!Cardinality(row[u] \ day) > 1 PROVE ~table.unique /\ K!Twofold(u)
    <2>1. \E x, y \in row[u] \ day : x # y
      <3>1. SUFFICES ASSUME \A x, y \in row[u] \ day : x = y PROVE FALSE
        OBVIOUS
      <3>2. K!Cardinality(row[u] \ day) <= 1
        BY <1>2, <3>1
      <3>3. K!Cardinality(row[u] \ day) \in Nat
        <4>1. CASE row[u] \ day = {}
          BY <4>1, Counting, FS_EmptySet
        <4>2. CASE row[u] \ day # {}
          <5>1. PICK x : row[u] \ day = {x}
            BY <3>1, <4>2
          <5>2. K!Cardinality({x}) = 1
            BY Counting, FS_Singleton
          <5>3. QED BY <5>1, <5>2
        <4>3. QED BY <4>1, <4>2
      <3>4. QED BY <1>4, <3>2, <3>3
    <2>2. QED BY <1>1, <2>1 DEF RowsOK
  <1>5. QED BY <1>1, <1>3, <1>4 DEF K!MarksAgree, RowsOK, TapOK

-----------------------------------------------------------------------------
\* Pictures.

\* The key of an object: the request that has put it, and which of its objects it is.
Key == Call \X Nat

FileRequest ==
  [at : {"start", "put", "thumb", "push", "read", "write", "remove", "undo", "done", "failed"},
   op : {"set", "delete", "upload"}, own : SUBSET Key, old : Key \cup {None}, files : Int,
   kept : SUBSET Key, over : BOOLEAN]

PicturesType == upload \in [Call -> FileRequest] /\ avatar \in Key \cup {None}

\* The keys are used up in turn.
Numbered(r, S) == IsFiniteSet(S) /\ S = {r} \X (1..Cardinality(S))

\* Who sets an avatar puts it once; an upload takes its objects back, but for the one whose
\* thumbnail could not be stored.
UploadOK(r) ==
  LET u == upload[r]
  IN  /\ u.at = "start" => u = A!Fresh
      /\ Numbered(r, u.own)
      /\ u.op = "delete" => u.own = {}
      /\ u.op = "set" /\ u.at = "put" => u.own = {}
      /\ u.op = "set" /\ u.at \in {"read", "write", "remove", "done"} => u.own = {<<r, 1>>}
      /\ u.op = "set" /\ u.at \in {"read", "write"} => <<r, 1>> \in stored
      /\ u.op = "set" => u.own \subseteq {<<r, 1>>}
      /\ u.op # "upload" => u.kept = {} /\ u.at \notin {"thumb", "push", "undo"}
      /\ u.op = "upload" => u.at \notin {"read", "write", "remove"} /\ u.kept \subseteq u.own
      /\ u.at = "thumb" => \A o, p \in u.own \ u.kept : o = p
      /\ u.op = "upload" /\ u.at = "put" => u.own = u.kept
      /\ u.op = "upload" /\ u.at \in {"put", "thumb", "push"} => u.own \subseteq stored
      /\ u.op = "upload" /\ u.at = "done" => u.kept \subseteq stored \cup taken /\ (u.own \cap stored) \ missed \subseteq u.kept
      /\ u.at \in {"undo", "failed"} /\ u.op = "upload" =>
           \A o, p \in (u.own \cap stored) \ (missed \cup u.kept) : o = p
      /\ u.op = "upload" /\ u.at = "failed" => u.kept = {}

\* An avatar that has been written.
Was(x) == x # None => \E q \in Call : upload[q].op = "set" /\ upload[q].at \in {"remove", "done"} /\ x = <<q, 1>>

Working(r) == ~A!Ended(r) /\ upload[r].op # "upload"

\* What was read as the old avatar is not written again, and is the avatar unless another was
\* written meanwhile.
OldOK(r) ==
  /\ upload[r].at \in {"write", "remove"} => Was(upload[r].old)
  /\ upload[r].at = "remove" => upload[r].old # None /\ upload[r].old # avatar
  /\ upload[r].at = "write" /\ avatar # upload[r].old =>
       \A q \in Call : avatar = <<q, 1>> => upload[q].over

\* An avatar that was replaced without an overlap is removed, or somebody is about to.
LeftOK(r) ==
  upload[r].op = "set" /\ upload[r].at \in {"remove", "done"} /\ ~upload[r].over =>
    \/ <<r, 1>> \notin stored \ missed
    \/ avatar = <<r, 1>>
    \/ \E p \in Call : upload[p].at = "remove" /\ upload[p].old = <<r, 1>>

AvatarOK == Was(avatar) /\ (avatar # None => avatar \in stored \cup taken)

Overlaps == \A p, q \in Call : p # q /\ Working(p) /\ Working(q) => upload[p].over

FilesInv ==
  /\ PicturesType /\ AvatarOK /\ Overlaps
  /\ \A r \in Call : UploadOK(r) /\ OldOK(r) /\ LeftOK(r)

LEMMA NewUpload == A!Fresh \in FileRequest /\ A!Fresh.at = "start" /\ A!Fresh.op = "set" /\ A!Fresh.own = {}
                   /\ A!Fresh.kept = {} /\ A!Fresh.over = FALSE
  BY DEF A!Fresh, FileRequest

LEMMA NoneYet == ASSUME NEW r PROVE Numbered(r, {})
  <1>1. {} = {r} \X (1..0)
    OBVIOUS
  <1>2. QED BY <1>1, FS_EmptySet DEF Numbered

LEMMA OneKeyMore ==
  ASSUME NEW r, NEW S, Numbered(r, S), NEW n, n = Cardinality(S)
  PROVE  n \in Nat /\ Numbered(r, S \cup {<<r, n + 1>>}) /\ <<r, n + 1>> \notin S /\ (S = {} => n = 0)
  <1>1. S = {r} \X (1..n) /\ IsFiniteSet(S) /\ n \in Nat
    BY FS_CardinalityType DEF Numbered
  <1>2. <<r, n + 1>> \notin S
    BY <1>1
  <1>3. S \cup {<<r, n + 1>>} = {r} \X (1..n + 1)
    <2>1. 1..n + 1 = (1..n) \cup {n + 1}
      BY <1>1
    <2>2. QED BY <1>1, <2>1
  <1>4. IsFiniteSet(S \cup {<<r, n + 1>>}) /\ Cardinality(S \cup {<<r, n + 1>>}) = n + 1
    BY <1>1, <1>2, FS_AddElement
  <1>5. S = {} => n = 0
    BY FS_EmptySet
  <1>6. QED BY <1>1, <1>2, <1>3, <1>4, <1>5 DEF Numbered

LEMMA FilesInit == ContentInit => FilesInv
  <1> SUFFICES ASSUME A!Init PROVE FilesInv
    BY DEF ContentInit
  <1>1. \A r \in Call : upload[r] = A!Fresh
    BY DEF A!Init
  <1>2. PicturesType /\ AvatarOK
    BY NewUpload DEF A!Init, PicturesType, AvatarOK, Was
  <1>3. \A r \in Call : UploadOK(r)
    BY <1>1, NewUpload, NoneYet DEF UploadOK
  <1>4. \A r \in Call : OldOK(r) /\ LeftOK(r)
    BY <1>1, NewUpload DEF OldOK, LeftOK
  <1>5. Overlaps
    BY <1>1, NewUpload DEF Overlaps, Working, A!Ended
  <1>6. QED BY <1>2, <1>3, <1>4, <1>5 DEF FilesInv

\* Nothing happens to the objects of a request, and to it no more than that another begins.
Besides(q) ==
  /\ upload'[q] \in FileRequest /\ upload'[q].at = upload[q].at /\ upload'[q].op = upload[q].op
  /\ upload'[q].own = upload[q].own /\ upload'[q].old = upload[q].old /\ upload'[q].kept = upload[q].kept
  /\ upload[q].over => upload'[q].over
  /\ upload[q].at = "start" => upload'[q] = upload[q]

Untouched(q) ==
  \A n \in Nat : (<<q, n>> \in stored' <=> <<q, n>> \in stored) /\ (<<q, n>> \in missed' <=> <<q, n>> \in missed)

LEMMA BesidesUploadOK ==
  ASSUME NEW q \in Call, UploadOK(q), Besides(q), Untouched(q), taken' = taken
  PROVE  UploadOK(q)'
  <1>1. PICK n \in Nat : upload[q].own = {q} \X (1..n)
    BY FS_CardinalityType DEF UploadOK, Numbered
  <1>2. \A x \in upload[q].own : (x \in stored' <=> x \in stored) /\ (x \in missed' <=> x \in missed)
    <2>1. SUFFICES ASSUME NEW k \in 1..n PROVE (<<q, k>> \in stored' <=> <<q, k>> \in stored) /\ (<<q, k>> \in missed' <=> <<q, k>> \in missed)
      BY <1>1
    <2>2. QED BY DEF Untouched
  <1>3. upload[q].own # {} /\ upload[q].own \subseteq {<<q, 1>>} => <<q, 1>> \in upload[q].own
    OBVIOUS
  <1>4. Numbered(q, upload'[q].own)
    BY DEF UploadOK, Besides
  <1>5. QED BY <1>2, <1>4 DEF UploadOK, Besides, Numbered

\* One whose avatar was written, or may be, and stays so.
Set(r) == upload[r].op = "set" /\ upload[r].at \in {"remove", "done"}

\* A step of a request before it writes an avatar, or of an upload.
LEMMA BesidesStep ==
  ASSUME FilesInv, NEW r \in Call, upload' \in [Call -> FileRequest], UNCHANGED <<avatar, taken>>,
         \A q \in Call \ {r} : Besides(q) /\ Untouched(q),
         UploadOK(r)', OldOK(r)', ~Set(r), ~Set(r)',
         upload[r].at # "remove", upload'[r].at # "remove", Overlaps'
  PROVE  FilesInv'
  <1>0. /\ PicturesType /\ AvatarOK /\ (\A q \in Call : UploadOK(q) /\ OldOK(q) /\ LeftOK(q))
        /\ upload \in [Call -> FileRequest]
    BY DEF FilesInv, PicturesType
  <1>1. ASSUME NEW x, Was(x) PROVE Was(x)'
    BY <1>1 DEF Was, Besides, Set
  <1>2. ASSUME avatar # None
        PROVE  \E q \in Call \ {r} : avatar = <<q, 1>> /\ Set(q)
    BY <1>0, <1>2 DEF AvatarOK, Was, Set
  <1>3. avatar # None => avatar \in stored' \cup taken'
    <2>1. SUFFICES ASSUME avatar # None PROVE avatar \in stored' \cup taken'
      OBVIOUS
    <2>2. PICK q \in Call \ {r} : avatar = <<q, 1>>
      BY <1>2, <2>1
    <2>3. QED BY <1>0, <2>1, <2>2 DEF AvatarOK, Untouched
  <1>4. PicturesType' /\ AvatarOK'
    <2>1. PICK a : a = avatar
      OBVIOUS
    <2>2. Was(a)'
      BY <1>0, <1>1, <2>1 DEF AvatarOK
    <2>3. QED BY <1>0, <1>3, <2>1, <2>2 DEF PicturesType, AvatarOK, Was
  <1>5. \A q \in Call : UploadOK(q)'
    BY <1>0, BesidesUploadOK
  <1>6. ASSUME NEW q \in Call \ {r} PROVE OldOK(q)'
    <2>1. OldOK(q) /\ Besides(q)
      BY <1>0
    <2>2. PICK x : x = upload[q].old
      OBVIOUS
    <2>3. upload[q].at \in {"write", "remove"} => Was(x)'
      BY <1>1, <2>1, <2>2 DEF OldOK
    <2>4. ASSUME NEW p \in Call, avatar = <<p, 1>>, upload[p].over PROVE upload'[p].over
      <3>1. avatar # None
        BY <2>4, NoneIsNothing
      <3>2. PICK w \in Call \ {r} : avatar = <<w, 1>>
        BY <1>2, <3>1
      <3>3. p = w
        BY <2>4, <3>2
      <3>4. QED BY <2>4, <3>3 DEF Besides
    <2>5. QED BY <2>1, <2>2, <2>3, <2>4 DEF OldOK, Besides, Was
  <1>7. ASSUME NEW q \in Call PROVE LeftOK(q)'
    <2>0. LeftOK(q)
      BY <1>0
    <2>1. SUFFICES ASSUME Set(q)', ~upload'[q].over
                   PROVE  \/ <<q, 1>> \notin stored' \ missed'
                          \/ avatar' = <<q, 1>>
                          \/ \E p \in Call : upload'[p].at = "remove" /\ upload'[p].old = <<q, 1>>
      BY DEF LeftOK, Set
    <2>2. q # r
      BY <2>1
    <2>3. Set(q) /\ ~upload[q].over /\ Untouched(q)
      BY <2>1, <2>2 DEF Besides, Set
    <2>4. CASE \E p \in Call : upload[p].at = "remove" /\ upload[p].old = <<q, 1>>
      <3>1. PICK p \in Call : upload[p].at = "remove" /\ upload[p].old = <<q, 1>>
        BY <2>4
      <3>2. upload'[p].at = "remove" /\ upload'[p].old = <<q, 1>>
        BY <3>1 DEF Besides
      <3>3. QED BY <3>2
    <2>5. CASE avatar = <<q, 1>> \/ <<q, 1>> \notin stored \ missed
      BY <2>3, <2>5 DEF Untouched
    <2>6. QED BY <2>0, <2>3, <2>4, <2>5 DEF LeftOK, Set
  <1>8. QED BY <1>4, <1>5, <1>6, <1>7 DEF FilesInv

\* Nobody begins.
LEMMA NoNewOverlap ==
  ASSUME Overlaps, \A q \in Call : (Working(q)' => Working(q)) /\ (upload[q].over => upload'[q].over)
  PROVE  Overlaps'
  BY DEF Overlaps

\* One object more, with a new key.
LEMMA PutStep ==
  ASSUME FilesInv, NEW r \in Call, NEW next \in {"read", "thumb", "push"}, A!Put(r, next)
  PROVE  \/ /\ Numbered(r, upload'[r].own) /\ stored \subseteq stored' /\ upload' \in [Call -> FileRequest]
            /\ \E o : /\ o \in upload'[r].own /\ o \notin upload[r].own /\ upload'[r].own = upload[r].own \cup {o}
                      /\ o \in stored' /\ (upload[r].own = {} => o = <<r, 1>>)
            /\ upload'[r].at = next /\ upload'[r].op = upload[r].op /\ upload'[r].old = upload[r].old
            /\ upload'[r].kept = upload[r].kept /\ upload'[r].over = upload[r].over
            /\ \A q \in Call \ {r} : upload'[q] = upload[q] /\ \A n \in Nat : (<<q, n>> \in stored' <=> <<q, n>> \in stored)
         \/ /\ upload' = [upload EXCEPT ![r].at = IF upload[r].op = "upload" THEN "undo" ELSE "failed"]
            /\ UNCHANGED stored
  <1>0. upload \in [Call -> FileRequest] /\ Numbered(r, upload[r].own)
    BY DEF FilesInv, PicturesType, UploadOK
  <1>1. CASE upload' = [upload EXCEPT ![r].at = IF upload[r].op = "upload" THEN "undo" ELSE "failed"] /\ UNCHANGED stored
    BY <1>1
  <1>2. CASE /\ stored' = stored \cup {<<r, A!Cardinality(upload[r].own) + 1>>}
             /\ upload' = [upload EXCEPT ![r].own = @ \cup {<<r, A!Cardinality(upload[r].own) + 1>>}, ![r].at = next]
    <2>1. PICK n : n = Cardinality(upload[r].own)
      OBVIOUS
    <2>2. /\ stored' = stored \cup {<<r, n + 1>>}
          /\ upload' = [upload EXCEPT ![r].own = @ \cup {<<r, n + 1>>}, ![r].at = next]
      BY <1>2, <2>1, Counting
    <2>3. PICK S : S = upload[r].own
      OBVIOUS
    <2>4. n \in Nat /\ Numbered(r, S \cup {<<r, n + 1>>}) /\ <<r, n + 1>> \notin S /\ (S = {} => n = 0)
      BY <1>0, <2>1, <2>3, OneKeyMore
    <2>5. upload'[r] = [upload[r] EXCEPT !.own = S \cup {<<r, n + 1>>}, !.at = next] /\ <<r, n + 1>> \in Key
      BY <1>0, <2>2, <2>3, <2>4 DEF Key
    <2>6. /\ upload' \in [Call -> FileRequest] /\ upload'[r].own = S \cup {<<r, n + 1>>}
          /\ upload'[r].at = next /\ upload'[r].op = upload[r].op /\ upload'[r].old = upload[r].old
          /\ upload'[r].kept = upload[r].kept /\ upload'[r].over = upload[r].over
      <3>1. upload[r] \in FileRequest /\ S \cup {<<r, n + 1>>} \in SUBSET Key
        BY <1>0, <2>3, <2>5 DEF FileRequest
      <3>2. upload'[r] \in FileRequest
        BY <2>5, <3>1 DEF FileRequest
      <3>3. upload' \in [Call -> FileRequest]
        BY <1>0, <2>2, <2>5, <3>2
      <3>4. QED BY <2>5, <3>1, <3>3 DEF FileRequest
    <2>7. \A q \in Call \ {r} : upload'[q] = upload[q] /\ \A m \in Nat : (<<q, m>> \in stored' <=> <<q, m>> \in stored)
      BY <1>0, <2>2
    <2>8. S = {} => <<r, n + 1>> = <<r, 1>>
      BY <2>4
    <2>9. Numbered(r, upload'[r].own) /\ stored \subseteq stored'
      BY <2>2, <2>4, <2>6
    <2>10. \E o : /\ o \in upload'[r].own /\ o \notin upload[r].own /\ upload'[r].own = upload[r].own \cup {o}
                      /\ o \in stored' /\ (upload[r].own = {} => o = <<r, 1>>)
      BY <2>2, <2>3, <2>4, <2>6, <2>8
    <2>11. QED BY <2>6, <2>7, <2>9, <2>10
  <1>3. QED BY <1>1, <1>2 DEF A!Put, A!Goes

\* The steps of those who set an avatar, but for the last two.
LEMMA BeginStep ==
  ASSUME FilesInv, NEW r \in Call, NEW op \in {"set", "delete"}, A!Begin(r, op)
  PROVE  FilesInv'
  <1>0. /\ UploadOK(r) /\ upload \in [Call -> FileRequest] /\ Overlaps /\ upload[r] = A!Fresh /\ A!At(r, "start")
        /\ upload[r].at = "start" /\ UNCHANGED <<stored, avatar, missed, taken>>
    BY DEF FilesInv, PicturesType, UploadOK, A!Begin, A!Comes, A!At
  <1>1. PICK others : others = {q \in Call : Working(q)}
    OBVIOUS
  <1>2. PICK b \in BOOLEAN : b = (others # {})
    OBVIOUS
  <1>3. upload' = [q \in Call |->
           IF q = r THEN [A!Fresh EXCEPT !.op = op, !.at = IF op = "set" THEN "put" ELSE "read", !.over = b]
           ELSE IF q \in others THEN [upload[q] EXCEPT !.over = TRUE] ELSE upload[q]]
    BY <1>1, <1>2 DEF A!Begin, Working
  <1>4. PICK l \in {"put", "read"} : l = IF op = "set" THEN "put" ELSE "read"
    OBVIOUS
  <1>5. upload'[r] = [A!Fresh EXCEPT !.op = op, !.at = l, !.over = b]
    BY <1>3, <1>4
  <1>6. /\ upload'[r] \in FileRequest /\ upload'[r].at = l /\ upload'[r].op = op /\ upload'[r].over = b
        /\ upload'[r].own = {} /\ upload'[r].kept = {}
    BY <1>2, <1>4, <1>5, NewUpload DEF FileRequest
  <1>7. ASSUME NEW q \in Call \ {r}
        PROVE  Besides(q) /\ Untouched(q) /\ (Working(q) => upload'[q].over) /\ (Working(q)' <=> Working(q))
    <2>1. CASE q \in others
      <3>1. upload'[q] = [upload[q] EXCEPT !.over = TRUE] /\ upload[q] \in FileRequest /\ upload[q].at # "start"
        BY <1>0, <1>1, <1>3, <2>1 DEF Working, A!Ended
      <3>2. QED BY <1>0, <3>1 DEF FileRequest, Besides, Untouched, Working, A!Ended
    <2>2. CASE q \notin others
      BY <1>0, <1>1, <1>3, <2>2 DEF Besides, Untouched, Working, A!Ended
    <2>3. QED BY <2>1, <2>2
  <1>8. upload' \in [Call -> FileRequest]
    BY <1>3, <1>6, <1>7 DEF Besides
  <1>9. UploadOK(r)'
    BY <1>4, <1>6, NoneYet DEF UploadOK
  <1>10. OldOK(r)'
    BY <1>4, <1>6 DEF OldOK
  <1>11. Overlaps'
    <2>1. SUFFICES ASSUME NEW p \in Call, NEW q \in Call, p # q, Working(p)', Working(q)' PROVE upload'[p].over
      BY DEF Overlaps
    <2>2. CASE p = r
      BY <1>1, <1>2, <1>6, <1>7, <2>1, <2>2
    <2>3. CASE p # r
      BY <1>7, <2>1, <2>3
    <2>4. QED BY <2>2, <2>3
  <1>12. QED BY <1>0, <1>4, <1>6, <1>7, <1>8, <1>9, <1>10, <1>11, BesidesStep DEF Set

LEMMA PutAvatarStep ==
  ASSUME FilesInv, NEW r \in Call, A!PutAvatar(r)
  PROVE  FilesInv'
  <1>0. /\ UploadOK(r) /\ upload \in [Call -> FileRequest] /\ Overlaps
        /\ upload[r].at = "put" /\ upload[r].op = "set" /\ upload[r].own = {} /\ A!Put(r, "read")
        /\ UNCHANGED <<avatar, missed, taken>>
    BY DEF FilesInv, PicturesType, UploadOK, A!PutAvatar, A!At
  <1>1. CASE upload' = [upload EXCEPT ![r].at = IF upload[r].op = "upload" THEN "undo" ELSE "failed"] /\ UNCHANGED stored
    <2>1. /\ upload'[r] = [upload[r] EXCEPT !.at = "failed"] /\ upload[r] \in FileRequest
          /\ \A q \in Call \ {r} : upload'[q] = upload[q]
      BY <1>0, <1>1
    <2>2. /\ upload' \in [Call -> FileRequest] /\ upload'[r].at = "failed" /\ upload'[r].op = "set" /\ upload'[r].own = {}
          /\ upload'[r].kept = upload[r].kept /\ upload'[r].over = upload[r].over
      BY <1>0, <1>1, <2>1 DEF FileRequest
    <2>3. \A q \in Call \ {r} : Besides(q) /\ Untouched(q)
      BY <1>0, <1>1, <2>1 DEF Besides, Untouched
    <2>4. UploadOK(r)' /\ OldOK(r)'
      BY <1>0, <2>2, NoneYet DEF UploadOK, OldOK
    <2>5. Overlaps'
      BY <1>0, <2>1, <2>2, NoNewOverlap DEF Working, A!Ended
    <2>6. QED BY <1>0, <2>2, <2>3, <2>4, <2>5, BesidesStep DEF Set
  <1>2. CASE /\ Numbered(r, upload'[r].own) /\ stored \subseteq stored' /\ upload' \in [Call -> FileRequest]
             /\ upload'[r].own = {<<r, 1>>} /\ <<r, 1>> \in stored'
             /\ upload'[r].at = "read" /\ upload'[r].op = "set"
             /\ upload'[r].kept = upload[r].kept /\ upload'[r].over = upload[r].over
             /\ \A q \in Call \ {r} : upload'[q] = upload[q] /\ \A n \in Nat : (<<q, n>> \in stored' <=> <<q, n>> \in stored)
    <2>1. \A q \in Call \ {r} : Besides(q) /\ Untouched(q)
      BY <1>0, <1>2 DEF Besides, Untouched
    <2>2. UploadOK(r)' /\ OldOK(r)'
      BY <1>0, <1>2 DEF UploadOK, OldOK
    <2>3. Overlaps'
      <3>1. \A q \in Call : (Working(q)' => Working(q)) /\ (upload[q].over => upload'[q].over)
        BY <1>0, <1>2 DEF Working, A!Ended
      <3>2. QED BY <1>0, <3>1, NoNewOverlap
    <2>4. QED BY <1>0, <1>2, <2>1, <2>2, <2>3, BesidesStep DEF Set
  <1>3. QED BY <1>0, <1>1, <1>2, PutStep

\* A request alone changes, and no object.
LEMMA MoveStep ==
  ASSUME FilesInv, NEW r \in Call, NEW u \in FileRequest, upload' = [upload EXCEPT ![r] = u],
         UNCHANGED <<stored, avatar, missed, taken>>,
         upload[r].at \notin {"remove", "done", "failed"}, u.at # "remove", ~Set(r), ~(u.op = "set" /\ u.at = "done"),
         UploadOK(r)', OldOK(r)',
         u.over = upload[r].over \/ u.op = "upload", u.op = upload[r].op \/ u.op = "upload",
         upload[r].at = "start" => u.op = "upload"
  PROVE  FilesInv'
  <1>1. upload \in [Call -> FileRequest] /\ Overlaps
    BY DEF FilesInv, PicturesType
  <1>2. upload'[r] = u /\ (\A q \in Call \ {r} : upload'[q] = upload[q]) /\ upload' \in [Call -> FileRequest]
    BY <1>1
  <1>3. \A q \in Call \ {r} : Besides(q) /\ Untouched(q)
    BY <1>1, <1>2 DEF Besides, Untouched
  <1>4. Overlaps'
    <2>1. SUFFICES ASSUME NEW p \in Call, NEW q \in Call, p # q, Working(p)', Working(q)' PROVE upload'[p].over
      BY DEF Overlaps
    <2>2. Working(p) /\ Working(q) /\ upload'[p].over = upload[p].over
      BY <1>1, <1>2, <2>1 DEF Working, A!Ended
    <2>3. QED BY <1>1, <2>1, <2>2 DEF Overlaps
  <1>5. QED BY <1>2, <1>3, <1>4, BesidesStep DEF Set

LEMMA ReadOldStep ==
  ASSUME FilesInv, NEW r \in Call, A!ReadOld(r)
  PROVE  FilesInv'
  <1>0. /\ UploadOK(r) /\ OldOK(r) /\ AvatarOK /\ upload \in [Call -> FileRequest] /\ avatar \in Key \cup {None}
        /\ upload[r].at = "read" /\ upload[r].op \in {"set", "delete"} /\ UNCHANGED <<stored, avatar, missed, taken>>
    BY DEF FilesInv, PicturesType, UploadOK, A!ReadOld, A!At, FileRequest
  <1>1. PICK l \in {"done", "write"} : l = IF upload[r].op = "delete" /\ avatar = None THEN "done" ELSE "write"
    OBVIOUS
  <1>2. PICK u : u = [upload[r] EXCEPT !.old = avatar, !.at = l]
    OBVIOUS
  <1>3. upload' = [upload EXCEPT ![r] = u]
    BY <1>0, <1>1, <1>2 DEF A!ReadOld
  <1>4. /\ u \in FileRequest /\ u.at = l /\ u.op = upload[r].op /\ u.own = upload[r].own /\ u.old = avatar
        /\ u.kept = upload[r].kept /\ u.over = upload[r].over
    BY <1>0, <1>1, <1>2 DEF FileRequest
  <1>5. upload'[r] = u /\ \A q \in Call \ {r} : upload'[q] = upload[q]
    BY <1>0, <1>3
  <1>6. UploadOK(r)'
    BY <1>0, <1>1, <1>4, <1>5 DEF UploadOK
  <1>7. Was(avatar)'
    BY <1>0, <1>5 DEF AvatarOK, Was
  <1>8. OldOK(r)'
    BY <1>0, <1>1, <1>4, <1>5, <1>7 DEF OldOK, Was
  <1>9. QED BY <1>0, <1>1, <1>3, <1>4, <1>6, <1>8, MoveStep DEF Set

LEMMA WriteAvatarStep ==
  ASSUME FilesInv, NEW r \in Call, A!WriteAvatar(r)
  PROVE  FilesInv'
  <1>0. /\ UploadOK(r) /\ OldOK(r) /\ AvatarOK /\ Overlaps /\ upload \in [Call -> FileRequest]
        /\ (\A q \in Call : UploadOK(q) /\ OldOK(q) /\ LeftOK(q)) /\ avatar \in Key \cup {None}
        /\ upload[r].at = "write" /\ upload[r].op \in {"set", "delete"} /\ UNCHANGED <<stored, missed, taken>>
    BY DEF FilesInv, PicturesType, UploadOK, A!WriteAvatar, A!At, FileRequest
  <1>1. CASE A!Goes(r, "failed") /\ UNCHANGED avatar
    <2>1. PICK u : u = [upload[r] EXCEPT !.at = "failed"]
      OBVIOUS
    <2>2. upload' = [upload EXCEPT ![r] = u]
      BY <1>1, <2>1 DEF A!Goes
    <2>3. /\ u \in FileRequest /\ u.at = "failed" /\ u.op = upload[r].op /\ u.own = upload[r].own /\ u.old = upload[r].old
          /\ u.kept = upload[r].kept /\ u.over = upload[r].over
      BY <1>0, <2>1 DEF FileRequest
    <2>4. upload'[r] = u
      BY <1>0, <2>2
    <2>5. UploadOK(r)' /\ OldOK(r)'
      BY <1>0, <2>3, <2>4 DEF UploadOK, OldOK
    <2>6. QED BY <1>0, <1>1, <2>2, <2>3, <2>5, MoveStep DEF Set
  <1>2. CASE /\ avatar' = IF upload[r].op = "set" THEN <<r, 1>> ELSE None
             /\ A!Goes(r, IF upload[r].old = None THEN "done" ELSE "remove")
    <2>0. PICK l \in {"done", "remove"} : l = IF upload[r].old = None THEN "done" ELSE "remove"
      OBVIOUS
    <2>1. upload' = [upload EXCEPT ![r].at = l] /\ upload[r] \in FileRequest
      BY <1>0, <1>2, <2>0 DEF A!Goes
    <2>2. upload'[r] = [upload[r] EXCEPT !.at = l] /\ (\A q \in Call \ {r} : upload'[q] = upload[q])
      BY <1>0, <2>1
    <2>3. /\ upload' \in [Call -> FileRequest] /\ upload'[r].at = l /\ upload'[r].op = upload[r].op
          /\ upload'[r].own = upload[r].own /\ upload'[r].old = upload[r].old /\ upload'[r].kept = upload[r].kept
          /\ upload'[r].over = upload[r].over
      BY <1>0, <2>0, <2>1, <2>2 DEF FileRequest
    <2>4. ASSUME NEW x, Was(x) PROVE Was(x)' /\ x # <<r, 1>>
      BY <1>0, <2>2, <2>3, <2>4, NoneIsNothing DEF Was
    <2>5. <<r, 1>> \in Key /\ <<r, 1>> # None
      BY NoneIsNothing DEF Key
    <2>6. PicturesType'
      BY <1>2, <2>3, <2>5 DEF PicturesType
    <2>7. AvatarOK'
      <3>1. CASE upload[r].op = "set"
        BY <1>0, <1>2, <2>0, <2>3, <3>1 DEF AvatarOK, Was, UploadOK
      <3>2. CASE upload[r].op # "set"
        BY <1>2, <3>2 DEF AvatarOK, Was
      <3>3. QED BY <3>1, <3>2
    <2>8. ASSUME NEW q \in Call PROVE UploadOK(q)'
      <3>1. CASE q = r
        <4>1. Numbered(r, upload'[r].own)
          BY <1>0, <2>3 DEF UploadOK
        <4>2. QED BY <1>0, <2>0, <2>3, <3>1, <4>1 DEF UploadOK, Numbered
      <3>2. CASE q # r
        <4>1. Numbered(q, upload'[q].own)
          BY <1>0, <2>2, <3>2 DEF UploadOK
        <4>2. UploadOK(q)
          BY <1>0
        <4>3. QED BY <1>0, <2>2, <3>2, <4>1, <4>2 DEF UploadOK, Numbered
      <3>3. QED BY <3>1, <3>2
    <2>9. ASSUME NEW q \in Call PROVE OldOK(q)'
      <3>1. OldOK(q) /\ upload'[q].old = upload[q].old
        BY <1>0, <2>2, <2>3
      <3>2. PICK x : x = upload[q].old
        OBVIOUS
      <3>3. upload'[q].at \in {"write", "remove"} => Was(x)' /\ x # <<r, 1>>
        BY <1>0, <2>2, <2>4, <3>1, <3>2 DEF OldOK
      <3>4. upload'[q].at \in {"write", "remove"} => Was(upload[q].old)'
        BY <3>1, <3>2, <3>3 DEF Was
      <3>5. upload'[q].at = "remove" => upload'[q].old # None /\ upload'[q].old # avatar'
        BY <1>2, <2>0, <2>2, <2>3, <3>1, <3>2, <3>3 DEF OldOK
      <3>6. ASSUME upload'[q].at = "write", NEW p \in Call, avatar' = <<p, 1>> PROVE upload'[p].over
        <4>1. p = r /\ q # r
          BY <1>2, <2>0, <2>3, <3>6, NoneIsNothing
        <4>2. Working(r) /\ Working(q)
          BY <1>0, <2>2, <3>6, <4>1 DEF Working, A!Ended, UploadOK
        <4>3. upload[r].over
          BY <1>0, <4>1, <4>2 DEF Overlaps
        <4>4. QED BY <2>3, <4>1, <4>3
      <3>7. QED BY <3>1, <3>3, <3>4, <3>5, <3>6, <3>2 DEF OldOK, Was
    <2>10. ASSUME NEW q \in Call PROVE LeftOK(q)'
      <3>1. SUFFICES ASSUME Set(q)', ~upload'[q].over
                     PROVE  \/ <<q, 1>> \notin stored' \ missed'
                            \/ avatar' = <<q, 1>>
                            \/ \E p \in Call : upload'[p].at = "remove" /\ upload'[p].old = <<q, 1>>
        BY DEF LeftOK, Set
      <3>2. CASE q = r
        BY <1>2, <2>3, <3>1, <3>2 DEF Set
      <3>3. CASE q # r
        <4>1. LeftOK(q) /\ Set(q) /\ ~upload[q].over
          BY <1>0, <2>2, <3>1, <3>3 DEF Set
        <4>2. CASE <<q, 1>> \notin stored \ missed
          BY <1>0, <4>2
        <4>3. CASE avatar = <<q, 1>>
          <5>1. upload[r].old = <<q, 1>>
            BY <1>0, <4>1, <4>3 DEF OldOK
          <5>2. upload'[r].at = "remove" /\ upload'[r].old = <<q, 1>>
            BY <2>0, <2>3, <5>1, NoneIsNothing
          <5>3. QED BY <5>2
        <4>4. CASE \E p \in Call : upload[p].at = "remove" /\ upload[p].old = <<q, 1>>
          <5>1. PICK p \in Call : upload[p].at = "remove" /\ upload[p].old = <<q, 1>>
            BY <4>4
          <5>2. upload'[p].at = "remove" /\ upload'[p].old = <<q, 1>>
            BY <1>0, <2>2, <5>1
          <5>3. QED BY <5>2
        <4>5. QED BY <4>1, <4>2, <4>3, <4>4 DEF LeftOK, Set
      <3>4. QED BY <3>2, <3>3
    <2>11. Overlaps'
      BY <1>0, <2>2, <2>3, NoNewOverlap DEF Working, A!Ended
    <2>12. QED BY <2>6, <2>7, <2>8, <2>9, <2>10, <2>11 DEF FilesInv
  <1>3. QED BY <1>1, <1>2 DEF A!WriteAvatar

LEMMA RemoveOldStep ==
  ASSUME FilesInv, NEW r \in Call, A!RemoveOld(r)
  PROVE  FilesInv'
  <1>0. /\ OldOK(r) /\ AvatarOK /\ Overlaps /\ upload \in [Call -> FileRequest]
        /\ (\A q \in Call : UploadOK(q) /\ OldOK(q) /\ LeftOK(q)) /\ avatar \in Key \cup {None}
        /\ upload[r].at = "remove" /\ upload[r].op \in {"set", "delete"} /\ avatar' = avatar
        /\ upload' = [upload EXCEPT ![r].at = "done"] /\ A!Remove(upload[r].old)
        /\ taken' = taken
    BY DEF FilesInv, PicturesType, UploadOK, A!RemoveOld, A!At, A!Goes, FileRequest
  <1>1. PICK x : x = upload[r].old
    OBVIOUS
  <1>2. PICK w \in Call : Set(w) /\ x = <<w, 1>> /\ x # avatar
    BY <1>0, <1>1 DEF OldOK, Was, Set
  <1>3. (stored' = stored \ {x} /\ missed' = missed) \/ (missed' = missed \cup {x} /\ stored' = stored)
    BY <1>0, <1>1 DEF A!Remove
  <1>4. upload'[r] = [upload[r] EXCEPT !.at = "done"] /\ (\A q \in Call \ {r} : upload'[q] = upload[q])
    BY <1>0
  <1>5. /\ upload' \in [Call -> FileRequest] /\ upload'[r].at = "done" /\ upload'[r].op = upload[r].op
        /\ upload'[r].own = upload[r].own /\ upload'[r].old = upload[r].old /\ upload'[r].kept = upload[r].kept
        /\ upload'[r].over = upload[r].over
    BY <1>0, <1>4 DEF FileRequest
  <1>6. ASSUME NEW y, Was(y) PROVE Was(y)'
    BY <1>0, <1>4, <1>5, <1>6 DEF Was
  <1>7. PicturesType' /\ AvatarOK'
    <2>1. PICK a : a = avatar
      OBVIOUS
    <2>2. Was(a)'
      BY <1>0, <1>6, <2>1 DEF AvatarOK
    <2>3. QED BY <1>0, <1>2, <1>3, <1>5, <2>1, <2>2 DEF PicturesType, AvatarOK, Was
  <1>8. ASSUME NEW q \in Call PROVE UploadOK(q)'
    <2>0. UploadOK(q)
      BY <1>0
    <2>1. CASE q = r
      <3>1. Numbered(r, upload'[r].own)
        BY <1>0, <1>5 DEF UploadOK
      <3>2. QED BY <1>0, <1>5, <2>0, <2>1, <3>1 DEF UploadOK, Numbered
    <2>2. CASE q # r /\ q = w
      <3>1. Numbered(q, upload'[q].own)
        BY <1>4, <2>0, <2>2 DEF UploadOK
      <3>2. QED BY <1>2, <1>4, <2>0, <2>2, <3>1 DEF UploadOK, Numbered, Set
    <2>3. CASE q # r /\ q # w
      <3>1. Besides(q) /\ Untouched(q)
        BY <1>0, <1>2, <1>3, <1>4, <2>3 DEF Besides, Untouched
      <3>2. QED BY <1>0, <2>0, <3>1, BesidesUploadOK
    <2>4. QED BY <2>1, <2>2, <2>3
  <1>9. ASSUME NEW q \in Call PROVE OldOK(q)'
    <2>1. CASE q = r
      BY <1>5, <2>1 DEF OldOK
    <2>2. CASE q # r
      <3>1. OldOK(q) /\ upload'[q] = upload[q] /\ \A p \in Call : upload'[p].over = upload[p].over
        BY <1>0, <1>4, <1>5, <2>2
      <3>2. PICK y : y = upload[q].old
        OBVIOUS
      <3>3. upload[q].at \in {"write", "remove"} => Was(y)'
        BY <1>6, <3>1, <3>2 DEF OldOK
      <3>4. QED BY <1>0, <3>1, <3>2, <3>3 DEF OldOK, Was
    <2>3. QED BY <2>1, <2>2
  <1>10. ASSUME NEW q \in Call PROVE LeftOK(q)'
    <2>1. SUFFICES ASSUME Set(q)', ~upload'[q].over
                   PROVE  \/ <<q, 1>> \notin stored' \ missed'
                          \/ avatar' = <<q, 1>>
                          \/ \E p \in Call : upload'[p].at = "remove" /\ upload'[p].old = <<q, 1>>
      BY DEF LeftOK, Set
    <2>2. LeftOK(q) /\ Set(q) /\ ~upload[q].over
      BY <1>0, <1>4, <1>5, <2>1 DEF Set
    <2>3. CASE <<q, 1>> = x
      BY <1>3, <2>3
    <2>4. CASE <<q, 1>> # x /\ (<<q, 1>> \notin stored \ missed \/ avatar = <<q, 1>>)
      BY <1>0, <1>3, <2>4
    <2>5. CASE <<q, 1>> # x /\ \E p \in Call : upload[p].at = "remove" /\ upload[p].old = <<q, 1>>
      <3>1. PICK p \in Call : upload[p].at = "remove" /\ upload[p].old = <<q, 1>>
        BY <2>5
      <3>2. upload'[p].at = "remove" /\ upload'[p].old = <<q, 1>>
        BY <1>1, <1>4, <2>5, <3>1
      <3>3. QED BY <3>2
    <2>6. QED BY <2>2, <2>3, <2>4, <2>5 DEF LeftOK, Set
  <1>11. Overlaps'
    BY <1>0, <1>4, <1>5, NoNewOverlap DEF Working, A!Ended
  <1>12. QED BY <1>7, <1>8, <1>9, <1>10, <1>11 DEF FilesInv

\* The steps of an upload.
LEMMA UploadStep ==
  ASSUME FilesInv, NEW r \in Call, NEW n \in Int, A!Upload(r, n)
  PROVE  FilesInv'
  <1>0. /\ UploadOK(r) /\ upload \in [Call -> FileRequest] /\ upload[r] = A!Fresh /\ upload[r].at = "start"
        /\ UNCHANGED <<stored, avatar, missed, taken>>
    BY DEF FilesInv, PicturesType, UploadOK, A!Upload, A!Comes, A!At
  <1>1. PICK u : u = [A!Fresh EXCEPT !.op = "upload", !.at = "put", !.files = n]
    OBVIOUS
  <1>2. upload' = [upload EXCEPT ![r] = u] /\ upload'[r] = u
    BY <1>0, <1>1 DEF A!Upload
  <1>3. u \in FileRequest /\ u.op = "upload" /\ u.at = "put" /\ u.own = {} /\ u.kept = {}
    BY <1>1, NewUpload DEF FileRequest
  <1>4. UploadOK(r)' /\ OldOK(r)'
    BY <1>2, <1>3, NoneYet DEF UploadOK, OldOK
  <1>5. QED BY <1>0, <1>2, <1>3, <1>4, MoveStep DEF Set

\* A put of an upload: the object belongs to the file that is not stored yet; if it fails, what
\* counts as stored is all that there is, but for the file of the thumbnail that is missing.
LEMMA UploadPutStep ==
  ASSUME FilesInv, NEW r \in Call, NEW next \in {"thumb", "push"}, A!Put(r, next),
         upload[r].op = "upload", upload[r].at = "put" \/ (upload[r].at = "thumb" /\ next = "push"),
         UNCHANGED <<avatar, missed, taken>>
  PROVE  FilesInv'
  <1>0. UploadOK(r) /\ OldOK(r) /\ upload \in [Call -> FileRequest] /\ Overlaps
    BY DEF FilesInv, PicturesType
  <1>1. CASE upload' = [upload EXCEPT ![r].at = IF upload[r].op = "upload" THEN "undo" ELSE "failed"] /\ UNCHANGED stored
    <2>1. PICK u : u = [upload[r] EXCEPT !.at = "undo"]
      OBVIOUS
    <2>2. upload' = [upload EXCEPT ![r] = u] /\ upload'[r] = u
      BY <1>0, <1>1, <2>1
    <2>3. /\ u \in FileRequest /\ u.at = "undo" /\ u.op = "upload" /\ u.own = upload[r].own
          /\ u.kept = upload[r].kept /\ u.over = upload[r].over
      BY <1>0, <2>1 DEF FileRequest
    <2>4. Numbered(r, upload'[r].own)
      BY <1>0, <2>2, <2>3 DEF UploadOK
    <2>5. \A o, p \in upload[r].own \ upload[r].kept : o = p
      BY <1>0 DEF UploadOK
    <2>6. UploadOK(r)' /\ OldOK(r)'
      BY <1>0, <1>1, <2>2, <2>3, <2>4, <2>5 DEF UploadOK, OldOK, Numbered
    <2>7. QED BY <1>0, <1>1, <2>2, <2>3, <2>6, MoveStep DEF Set
  <1>2. CASE /\ Numbered(r, upload'[r].own) /\ stored \subseteq stored' /\ upload' \in [Call -> FileRequest]
             /\ \E o : /\ o \in upload'[r].own /\ o \notin upload[r].own /\ upload'[r].own = upload[r].own \cup {o}
                       /\ o \in stored' /\ (upload[r].own = {} => o = <<r, 1>>)
             /\ upload'[r].at = next /\ upload'[r].op = upload[r].op /\ upload'[r].old = upload[r].old
             /\ upload'[r].kept = upload[r].kept /\ upload'[r].over = upload[r].over
             /\ \A q \in Call \ {r} : upload'[q] = upload[q] /\ \A n \in Nat : (<<q, n>> \in stored' <=> <<q, n>> \in stored)
    <2>1. \A q \in Call \ {r} : Besides(q) /\ Untouched(q)
      BY <1>0, <1>2 DEF Besides, Untouched
    <2>2. PICK o : upload'[r].own = upload[r].own \cup {o} /\ o \in stored'
      BY <1>2
    <2>3. upload'[r].own \subseteq stored' /\ upload[r].kept \subseteq upload[r].own
      BY <1>0, <1>2, <2>2 DEF UploadOK
    <2>4. next = "thumb" => \A x, y \in upload'[r].own \ upload'[r].kept : x = y
      BY <1>0, <1>2, <2>2 DEF UploadOK
    <2>5. UploadOK(r)' /\ OldOK(r)'
      BY <1>0, <1>2, <2>2, <2>3, <2>4 DEF UploadOK, OldOK
    <2>6. Overlaps'
      BY <1>0, <1>2, NoNewOverlap DEF Working, A!Ended
    <2>7. QED BY <1>0, <1>2, <2>1, <2>5, <2>6, BesidesStep DEF Set
  <1>3. QED BY <1>1, <1>2, PutStep

LEMMA PushStep ==
  ASSUME FilesInv, NEW r \in Call, A!Push(r)
  PROVE  FilesInv'
  <1>0. /\ UploadOK(r) /\ OldOK(r) /\ upload \in [Call -> FileRequest] /\ upload[r].at = "push" /\ upload[r].op = "upload"
        /\ UNCHANGED <<stored, avatar, missed, taken>>
    BY DEF FilesInv, PicturesType, UploadOK, A!Push, A!At, FileRequest
  <1>1. PICK l \in {"done", "put"} : l = IF upload[r].files = 1 THEN "done" ELSE "put"
    OBVIOUS
  <1>2. PICK m \in Int : m = upload[r].files - 1
    BY <1>0 DEF FileRequest
  <1>. DEFINE u == [upload[r] EXCEPT !.kept = upload[r].own, !.files = m, !.at = l]
  <1>3. upload' = [upload EXCEPT ![r] = u] /\ upload'[r] = u
    BY <1>0, <1>1, <1>2 DEF A!Push
  <1>4. /\ u \in FileRequest /\ u.at = l /\ u.op = "upload" /\ u.own = upload[r].own /\ u.kept = upload[r].own
        /\ u.over = upload[r].over
    BY <1>0, <1>1, <1>2 DEF FileRequest
  <1>5. Numbered(r, upload'[r].own)
    BY <1>0, <1>3, <1>4 DEF UploadOK
  <1>6. UploadOK(r)' /\ OldOK(r)'
    BY <1>0, <1>1, <1>3, <1>4, <1>5 DEF UploadOK, OldOK, Numbered
  <1>7. QED BY <1>0, <1>1, <1>3, <1>4, <1>6, MoveStep DEF Set

\* An object that an upload has kept is taken back, or the storage would not.
LEMMA TakeBackStep ==
  ASSUME FilesInv, NEW r \in Call, NEW o \in upload[r].kept, A!Remove(o),
         upload' = [upload EXCEPT ![r].kept = @ \ {o}], upload[r].at = "undo", UNCHANGED <<avatar, taken>>
  PROVE  FilesInv'
  <1>0. /\ UploadOK(r) /\ OldOK(r) /\ upload \in [Call -> FileRequest] /\ Overlaps
        /\ upload[r].op = "upload" /\ o \in upload[r].own
    BY DEF FilesInv, PicturesType, UploadOK
  <1>1. PICK n \in Nat : o = <<r, n>>
    BY <1>0, FS_CardinalityType DEF UploadOK, Numbered
  <1>2. (stored' = stored \ {o} /\ missed' = missed) \/ (missed' = missed \cup {o} /\ stored' = stored)
    BY DEF A!Remove
  <1>3. upload'[r] = [upload[r] EXCEPT !.kept = @ \ {o}] /\ (\A q \in Call \ {r} : upload'[q] = upload[q])
    BY <1>0
  <1>4. /\ upload' \in [Call -> FileRequest] /\ upload'[r].at = upload[r].at /\ upload'[r].op = "upload"
        /\ upload'[r].own = upload[r].own /\ upload'[r].old = upload[r].old /\ upload'[r].kept = upload[r].kept \ {o}
        /\ upload'[r].over = upload[r].over
    BY <1>0, <1>3 DEF FileRequest
  <1>5. \A q \in Call \ {r} : Besides(q) /\ Untouched(q)
    BY <1>0, <1>1, <1>2, <1>3 DEF Besides, Untouched
  <1>6. Numbered(r, upload'[r].own)
    BY <1>0, <1>4 DEF UploadOK
  <1>7. (upload'[r].own \cap stored') \ (missed' \cup upload'[r].kept) \subseteq (upload[r].own \cap stored) \ (missed \cup upload[r].kept)
    BY <1>2, <1>4
  <1>8. UploadOK(r)'
    BY <1>0, <1>4, <1>6, <1>7 DEF UploadOK
  <1>9. OldOK(r)' /\ Overlaps'
    <2>1. OldOK(r)'
      BY <1>4 DEF OldOK
    <2>2. \A q \in Call : (Working(q)' => Working(q)) /\ (upload[q].over => upload'[q].over)
      BY <1>0, <1>3, <1>4 DEF Working, A!Ended
    <2>3. QED BY <1>0, <2>1, <2>2, NoNewOverlap
  <1>10. QED BY <1>0, <1>4, <1>5, <1>8, <1>9, BesidesStep DEF Set

LEMMA UndoStep ==
  ASSUME FilesInv, NEW r \in Call, A!Undo(r)
  PROVE  FilesInv'
  <1>0. /\ UploadOK(r) /\ OldOK(r) /\ upload \in [Call -> FileRequest] /\ upload[r].at = "undo" /\ upload[r].op = "upload"
        /\ UNCHANGED <<avatar, taken>>
    BY DEF FilesInv, PicturesType, UploadOK, A!Undo, A!At, FileRequest
  <1>1. CASE upload[r].kept = {} /\ A!Goes(r, "failed") /\ UNCHANGED <<stored, missed>>
    <2>1. PICK u : u = [upload[r] EXCEPT !.at = "failed"]
      OBVIOUS
    <2>2. upload' = [upload EXCEPT ![r] = u] /\ upload'[r] = u
      BY <1>0, <1>1, <2>1 DEF A!Goes
    <2>3. /\ u \in FileRequest /\ u.at = "failed" /\ u.op = "upload" /\ u.own = upload[r].own
          /\ u.kept = upload[r].kept /\ u.over = upload[r].over
      BY <1>0, <2>1 DEF FileRequest
    <2>4. Numbered(r, upload'[r].own)
      BY <1>0, <2>2, <2>3 DEF UploadOK
    <2>5. UploadOK(r)' /\ OldOK(r)'
      BY <1>0, <1>1, <2>2, <2>3, <2>4 DEF UploadOK, OldOK, Numbered
    <2>6. QED BY <1>0, <1>1, <2>2, <2>3, <2>5, MoveStep DEF Set
  <1>2. CASE \E o \in upload[r].kept : A!Remove(o) /\ upload' = [upload EXCEPT ![r].kept = @ \ {o}]
    BY <1>0, <1>2, TakeBackStep
  <1>3. QED BY <1>1, <1>2 DEF A!Undo

\* A client removes an object of a request that has answered: no request moves, and none that
\* still counts on its objects loses one.
LEMMA RemoveFileStep ==
  ASSUME FilesInv, NEW o \in A!Object, A!RemoveFile(o)
  PROVE  FilesInv'
  <1>0. /\ PicturesType /\ AvatarOK /\ Overlaps
        /\ \A q \in Call : UploadOK(q) /\ OldOK(q) /\ LeftOK(q)
    BY DEF FilesInv
  <1>1. PICK c \in Call, m \in 1..2 * MaxFiles : o = <<c, m>>
    BY DEF A!Object
  <1>2. /\ UNCHANGED <<avatar, upload>> /\ upload[c].at \in {"remove", "done"}
        /\ stored' \subseteq stored /\ stored \ {o} \subseteq stored' /\ missed' = missed
        /\ stored' \ missed' \subseteq stored \ missed
        /\ stored \subseteq stored' \cup taken' /\ taken \subseteq taken'
    BY <1>1 DEF A!RemoveFile, A!Named
  <1>3. PicturesType' /\ AvatarOK' /\ Overlaps'
    BY <1>0, <1>2 DEF PicturesType, AvatarOK, Was, Overlaps, Working, A!Ended
  <1>4. ASSUME NEW q \in Call PROVE UploadOK(q)'
    <2>1. UploadOK(q)
      BY <1>0
    <2>2. Numbered(q, upload'[q].own)
      BY <1>2, <2>1 DEF UploadOK
    <2>3. upload[q].at \notin {"remove", "done"} => o \notin upload[q].own
      BY <1>1, <1>2, <2>1 DEF UploadOK, Numbered
    <2>4. (upload[q].own \cap stored') \ missed' \subseteq (upload[q].own \cap stored) \ missed
      BY <1>2
    <2>5. /\ upload[q].at \notin {"remove", "done"} /\ <<q, 1>> \in stored => <<q, 1>> \in stored'
          /\ upload[q].at \notin {"remove", "done"} /\ upload[q].own \subseteq stored => upload[q].own \subseteq stored'
      BY <1>1, <1>2, <2>3
    <2>6. upload'[q] = upload[q]
      BY <1>2
    <2>7. QED BY <1>2, <2>1, <2>2, <2>4, <2>5, <2>6 DEF UploadOK
  <1>5. ASSUME NEW q \in Call PROVE OldOK(q)' /\ LeftOK(q)'
    <2>1. OldOK(q) /\ LeftOK(q) /\ UNCHANGED <<avatar, upload>>
      BY <1>0, <1>2
    <2>2. OldOK(q)'
      BY <2>1 DEF OldOK, Was
    <2>3. <<q, 1>> \notin stored \ missed => <<q, 1>> \notin stored' \ missed'
      BY <1>2
    <2>4. LeftOK(q)'
      BY <2>1, <2>3 DEF LeftOK
    <2>5. QED BY <2>2, <2>4
  <1>6. QED BY <1>3, <1>4, <1>5 DEF FilesInv

LEMMA FilesNext ==
  ASSUME FilesInv, [A!Next]_avars
  PROVE  FilesInv'
  <1>1. CASE UNCHANGED avars
    <2>0. UNCHANGED <<stored, avatar, upload, missed, taken>>
      BY <1>1 DEF avars
    <2>1. PicturesType' /\ AvatarOK' /\ Overlaps'
      BY <2>0 DEF FilesInv, PicturesType, AvatarOK, Was, Overlaps, Working, A!Ended
    <2>2. ASSUME NEW r \in Call PROVE UploadOK(r)' /\ OldOK(r)' /\ LeftOK(r)'
      <3>1. UploadOK(r)'
        BY <2>0, BesidesUploadOK DEF FilesInv, PicturesType, Besides, Untouched
      <3>2. OldOK(r)'
        BY <2>0 DEF FilesInv, OldOK, Was
      <3>3. LeftOK(r)'
        BY <2>0 DEF FilesInv, LeftOK
      <3>4. QED BY <3>1, <3>2, <3>3
    <2>3. QED BY <2>1, <2>2 DEF FilesInv
  <1>2. CASE A!Next
    <2>1. CASE \E o \in A!Object : A!RemoveFile(o)
      BY <2>1, RemoveFileStep
    <2>2. ASSUME NEW r \in Call,
            \/ \E op \in {"set", "delete"} : A!Begin(r, op)
            \/ \E n \in 1..MaxFiles : A!Upload(r, n)
            \/ A!PutAvatar(r) \/ A!ReadOld(r) \/ A!WriteAvatar(r) \/ A!RemoveOld(r)
            \/ A!StoreFile(r) \/ A!StoreThumb(r) \/ A!Push(r) \/ A!Undo(r)
          PROVE  FilesInv'
      <3>1. CASE \E op \in {"set", "delete"} : A!Begin(r, op)
        BY <3>1, BeginStep
      <3>2. CASE \E n \in 1..MaxFiles : A!Upload(r, n)
        BY <3>2, UploadStep
      <3>3. CASE A!StoreFile(r)
        BY <3>3, UploadPutStep DEF A!StoreFile, A!At
      <3>4. CASE A!StoreThumb(r)
        <4>1. upload[r].op = "upload"
          BY <3>4 DEF FilesInv, UploadOK, A!StoreThumb, A!At
        <4>2. QED BY <3>4, <4>1, UploadPutStep DEF A!StoreThumb, A!At
      <3>5. QED BY <2>2, <3>1, <3>2, <3>3, <3>4, PutAvatarStep, ReadOldStep, WriteAvatarStep, RemoveOldStep, PushStep, UndoStep
    <2>3. QED BY <1>2, <2>1, <2>2 DEF A!Next
  <1>3. QED BY <1>1, <1>2

LEMMA PicturesAreRight == FilesInv => A!PicturesAgree
  <1> SUFFICES ASSUME FilesInv PROVE A!PicturesAgree
    OBVIOUS
  <1>1. AvatarOK /\ upload \in [Call -> FileRequest] /\ \A r \in Call : UploadOK(r) /\ LeftOK(r)
    BY DEF FilesInv, PicturesType
  <1>2. ASSUME NEW r \in Call, A!At(r, "done") PROVE upload[r].kept \subseteq stored \cup taken
    BY <1>1, <1>2 DEF UploadOK, A!At
  <1>3. ASSUME \A p \in Call : A!Ended(p), NEW r \in Call, NEW o \in (upload[r].own \cap stored) \ (missed \cup {avatar})
        PROVE  \/ upload[r].op = "set" /\ (A!At(r, "failed") \/ upload[r].over)
               \/ A!At(r, "done") /\ o \in upload[r].kept
               \/ upload[r].op = "upload" /\ A!At(r, "failed") /\ (upload[r].own \cap stored) \ missed = {o}
    <2>1. upload[r].at \in {"done", "failed"} /\ upload[r].op \in {"set", "upload"}
      BY <1>1, <1>3, NewUpload DEF A!Ended, UploadOK, FileRequest
    <2>2. CASE upload[r].op = "set"
      <3>1. upload[r].at = "done" => o = <<r, 1>>
        BY <1>1, <1>3, <2>2 DEF UploadOK
      <3>2. \A p \in Call : upload[p].at # "remove"
        BY <1>3 DEF A!Ended
      <3>3. QED BY <1>1, <1>3, <2>1, <2>2, <3>1, <3>2 DEF LeftOK, A!At
    <2>3. CASE upload[r].op = "upload" /\ upload[r].at = "done"
      BY <1>1, <1>3, <2>3 DEF UploadOK, A!At
    <2>4. CASE upload[r].op = "upload" /\ upload[r].at = "failed"
      <3>1. /\ upload[r].kept = {}
            /\ \A x, y \in (upload[r].own \cap stored) \ (missed \cup upload[r].kept) : x = y
        BY <1>1, <2>4 DEF UploadOK
      <3>2. QED BY <1>3, <2>4, <3>1 DEF A!At
    <2>5. QED BY <2>1, <2>2, <2>3, <2>4
  <1>4. QED BY <1>1, <1>2, <1>3 DEF A!PicturesAgree, AvatarOK

-----------------------------------------------------------------------------
\* Tracks.

\* A request; the versions are any numbers.
Import == [at : {"start", "search", "fetch", "write", "done", "failed"},
           track : Track \cup {None}, tried : Nat, got : Nat, passed : BOOLEAN]

TracksType ==
  version \in [Track -> Nat] /\ track \in [Track -> Nat \cup {None}] /\ import \in [Call -> Import]

\* A search has no track.  Whoever has fetched and was not passed has something as new as all
\* that was answered.
ImportOK(r) ==
  /\ import[r].at = "start" => import[r] = M!Fresh
  /\ import[r].at = "search" => import[r].track = None
  /\ import[r].at \in {"fetch", "write"} => import[r].track \in Track
  /\ import[r].at = "fetch" => ~import[r].passed
  /\ import[r].at = "failed" /\ import[r].track = None => import[r].tried = M!Len(M!Configured)
  /\ import[r].track # None => import[r].got <= version[import[r].track]
  /\ import[r].at = "done" /\ import[r].track # None /\ import[r].track \notin late =>
       track[import[r].track] # None /\ import[r].got <= track[import[r].track]
  /\ import[r].at = "write" /\ ~import[r].passed =>
       \A q \in Call : import[q].at = "done" /\ import[q].track = import[r].track => import[q].got <= import[r].got

TracksInv == TracksType /\ \A r \in Call : ImportOK(r)

LEMMA NewImport == M!Fresh \in Import /\ M!Fresh.at = "start" /\ M!Fresh.track = None /\ M!Fresh.passed = FALSE
                   /\ M!Fresh.got = 0
  BY DEF M!Fresh, Import

LEMMA TracksInit == ContentInit => TracksInv
  <1> SUFFICES ASSUME M!Init PROVE TracksInv
    BY DEF ContentInit
  <1>1. \A r \in Call : import[r] = M!Fresh
    BY DEF M!Init
  <1>2. \A r \in Call : ImportOK(r)
    BY <1>1, NewImport DEF ImportOK
  <1>3. TracksType
    BY NewImport DEF M!Init, TracksType
  <1>4. QED BY <1>2, <1>3 DEF TracksInv

\* A request alone goes on, and writes nothing.
LEMMA ImportMoves ==
  ASSUME TracksInv, NEW r \in Call, NEW u \in Import, import' = [import EXCEPT ![r] = u],
         UNCHANGED <<version, track, keys, late>>,
         u.at # "start",
         u.at = "search" => u.track = None,
         u.at \in {"fetch", "write"} => u.track \in Track,
         u.at = "fetch" => ~u.passed,
         u.at = "failed" /\ u.track = None => u.tried = M!Len(M!Configured),
         u.track # None => u.got <= version[u.track],
         u.at = "done" => u.track = None,
         u.at = "write" => \A q \in Call : import[q].at = "done" /\ import[q].track = u.track => import[q].got <= u.got
  PROVE  TracksInv'
  <1>0. TracksType /\ (\A q \in Call : ImportOK(q)) /\ import \in [Call -> Import]
    BY DEF TracksInv, TracksType
  <1>1. import'[r] = u /\ (\A q \in Call \ {r} : import'[q] = import[q]) /\ import' \in [Call -> Import]
    BY <1>0
  <1>2. TracksType'
    BY <1>0, <1>1 DEF TracksType
  <1>3. M!Len(M!Configured)' = M!Len(M!Configured)
    BY DEF M!Configured, M!Providers
  <1>4. ASSUME NEW q \in Call \ {r} PROVE ImportOK(q)'
    <2>1. ImportOK(q) /\ import'[q] = import[q]
      BY <1>0, <1>1
    <2>2. import[q].at = "write" /\ ~import[q].passed =>
            \A p \in Call : import'[p].at = "done" /\ import'[p].track = import[q].track => import'[p].got <= import[q].got
      <3>1. SUFFICES ASSUME import[q].at = "write" /\ ~import[q].passed, NEW p \in Call, import'[p].at = "done",
                            import'[p].track = import[q].track
                     PROVE  import'[p].got <= import[q].got
        OBVIOUS
      <3>2. import[q].track # None
        BY <2>1, <3>1, NoneIsNothing DEF ImportOK
      <3>3. p # r
        BY <1>1, <3>1, <3>2
      <3>4. QED BY <1>1, <2>1, <3>1, <3>3 DEF ImportOK
    <2>3. QED BY <1>3, <2>1, <2>2 DEF ImportOK
  <1>5. ImportOK(r)'
    <2>1. u.at = "write" => \A q \in Call : import'[q].at = "done" /\ import'[q].track = u.track => import'[q].got <= u.got
      BY <1>1
    <2>2. u.at = "done" /\ u.track # None => FALSE
      OBVIOUS
    <2>3. QED BY <1>1, <1>3, <2>1, <2>2 DEF ImportOK
  <1>6. QED BY <1>2, <1>4, <1>5 DEF TracksInv

LEMMA UpsertStep ==
  ASSUME TracksInv, NEW r \in Call, M!Upsert(r)
  PROVE  TracksInv'
  <1>0. /\ TracksType /\ (\A q \in Call : ImportOK(q)) /\ import \in [Call -> Import]
        /\ version \in [Track -> Nat] /\ track \in [Track -> Nat \cup {None}]
        /\ import[r].at = "write" /\ UNCHANGED <<version, keys>>
    BY DEF TracksInv, TracksType, M!Upsert, M!At
  <1>1. PICK t \in Track : t = import[r].track
    BY <1>0 DEF ImportOK
  <1>2. PICK g \in Nat : g = import[r].got
    BY <1>0 DEF Import
  <1>3. /\ track' = [track EXCEPT ![t] = g]
        /\ late' = IF import[r].passed THEN late \cup {t} ELSE late \ {t}
        /\ import' = [q \in Call |-> IF q = r THEN [import[r] EXCEPT !.at = "done"]
                               ELSE IF import[q].at = "write" /\ import[q].track = t
                               THEN [import[q] EXCEPT !.passed = TRUE] ELSE import[q]]
    BY <1>1, <1>2 DEF M!Upsert, M!At
  <1>4. import[r] \in Import /\ import'[r] = [import[r] EXCEPT !.at = "done"]
    BY <1>0, <1>3
  <1>5. import'[r] \in Import /\ import'[r].at = "done" /\ import'[r].track = t /\ import'[r].got = g
    BY <1>1, <1>2, <1>4 DEF Import
  <1>6. ASSUME NEW q \in Call \ {r}
        PROVE  /\ import'[q] \in Import /\ import'[q].at = import[q].at /\ import'[q].track = import[q].track
               /\ import'[q].tried = import[q].tried /\ import'[q].got = import[q].got
               /\ import'[q].passed = import[q].passed \/ (import[q].at = "write" /\ import[q].track = t /\ import'[q].passed)
               /\ import[q].at = "write" /\ import[q].track = t => import'[q].passed
               /\ import[q].at # "write" => import'[q] = import[q]
    <2>1. CASE import[q].at = "write" /\ import[q].track = t
      <3>1. import[q] \in Import /\ import'[q] = [import[q] EXCEPT !.passed = TRUE]
        BY <1>0, <1>3, <2>1
      <3>2. QED BY <2>1, <3>1 DEF Import
    <2>2. CASE ~(import[q].at = "write" /\ import[q].track = t)
      BY <1>0, <1>3, <2>2
    <2>3. QED BY <2>1, <2>2
  <1>7. import' \in [Call -> Import] /\ track' \in [Track -> Nat \cup {None}]
    BY <1>0, <1>3, <1>5, <1>6
  <1>8. M!Len(M!Configured)' = M!Len(M!Configured)
    BY <1>0 DEF M!Configured, M!Providers
  <1>9. None \notin Track /\ None \notin Nat /\ track'[t] = g /\ \A s \in Track \ {t} : track'[s] = track[s]
    BY <1>0, <1>3, NoneIsNothing
  <1>10. \A p \in Call : ~import[r].passed /\ import[p].at = "done" /\ import[p].track = t => import[p].got <= g
    BY <1>0, <1>1, <1>2 DEF ImportOK
  <1>11. ImportOK(r)'
    <2>1. g <= version[t] /\ g <= track'[t] /\ track'[t] # None
      BY <1>0, <1>1, <1>2, <1>9 DEF ImportOK
    <2>2. QED BY <1>0, <1>5, <2>1, <1>9 DEF ImportOK
  <1>12. ASSUME NEW q \in Call \ {r} PROVE ImportOK(q)'
    <2>0. ImportOK(q) /\ import[q] \in Import
      BY <1>0
    <2>1. import'[q].at = "done" /\ import'[q].track # None /\ import'[q].track \notin late' =>
            track'[import'[q].track] # None /\ import'[q].got <= track'[import'[q].track]
      <3>1. SUFFICES ASSUME import[q].at = "done", import[q].track # None, import[q].track \notin late'
                     PROVE  track'[import[q].track] # None /\ import[q].got <= track'[import[q].track]
        BY <1>6
      <3>2. CASE import[q].track = t
        BY <1>3, <1>9, <1>10, <3>1, <3>2
      <3>3. CASE import[q].track # t
        BY <1>3, <1>9, <2>0, <3>1, <3>3 DEF ImportOK, Import
      <3>4. QED BY <3>2, <3>3
    <2>2. import'[q].at = "write" /\ ~import'[q].passed =>
            \A p \in Call : import'[p].at = "done" /\ import'[p].track = import'[q].track => import'[p].got <= import'[q].got
      <3>1. SUFFICES ASSUME import[q].at = "write", ~import'[q].passed, NEW p \in Call, import'[p].at = "done",
                            import'[p].track = import[q].track
                     PROVE  import'[p].got <= import[q].got
        BY <1>6
      <3>2. import[q].track # t /\ ~import[q].passed
        BY <1>6, <3>1
      <3>3. p # r
        BY <1>5, <3>1, <3>2
      <3>4. QED BY <1>6, <2>0, <3>1, <3>2, <3>3 DEF ImportOK
    <2>3. QED BY <1>0, <1>6, <1>8, <2>0, <2>1, <2>2 DEF ImportOK
  <1>13. QED BY <1>0, <1>7, <1>11, <1>12 DEF TracksInv, TracksType

LEMMA TracksNext ==
  ASSUME TracksInv, [M!Next]_mvars
  PROVE  TracksInv'
  <1>0. /\ TracksType /\ (\A q \in Call : ImportOK(q)) /\ import \in [Call -> Import] /\ version \in [Track -> Nat]
        /\ None \notin Track
    BY NoneIsNothing DEF TracksInv, TracksType
  <1>1. CASE UNCHANGED mvars
    <2>1. UNCHANGED <<version, track, keys, import, late>>
      BY <1>1 DEF mvars
    <2>2. M!Len(M!Configured)' = M!Len(M!Configured)
      BY <2>1 DEF M!Configured, M!Providers
    <2>3. ASSUME NEW q \in Call PROVE ImportOK(q)'
      BY <1>0, <2>1, <2>2 DEF ImportOK
    <2>4. QED BY <1>0, <2>1, <2>3 DEF TracksInv, TracksType
  <1>2. ASSUME NEW r \in Call, M!Search(r) PROVE TracksInv'
    <2>. DEFINE u == [import[r] EXCEPT !.at = "search"]
    <2>1. import[r] = M!Fresh
      BY <1>0, <1>2 DEF M!Search, M!Comes, M!At, ImportOK
    <2>2. u \in Import /\ u.at = "search" /\ u.track = None
      BY <2>1, NewImport DEF Import
    <2>3. QED BY <1>2, <2>2, ImportMoves DEF M!Search
  <1>3. ASSUME NEW r \in Call, M!AskCatalogue(r) PROVE TracksInv'
    <2>1. PICK n \in Nat : n = import[r].tried + 1
      BY <1>0 DEF Import
    <2>2. PICK next \in {"done", "failed", "search"} :
             /\ import' = [import EXCEPT ![r].tried = n, ![r].at = next]
             /\ next = "failed" => n = M!Len(M!Configured)
      BY <1>0, <1>3, <2>1 DEF M!AskCatalogue
    <2>. DEFINE u == [import[r] EXCEPT !.tried = n, !.at = next]
    <2>3. /\ u \in Import /\ u.at = next /\ u.track = import[r].track /\ u.tried = n
          /\ import[r].track = None
      BY ZenonT(40), <1>0, <1>3, <2>1, <2>2 DEF Import, ImportOK, M!AskCatalogue, M!At
    <2>4. PICK v \in Import : v = u
      BY <2>3
    <2>5. import' = [import EXCEPT ![r] = v] /\ UNCHANGED <<version, track, keys, late>>
      <3>1. import' = [import EXCEPT ![r] = u]
        BY <1>0, <2>2
      <3>2. QED BY <1>3, <2>4, <3>1 DEF M!AskCatalogue
    <2>6. QED BY <1>0, <2>2, <2>3, <2>4, <2>5, ImportMoves
  <1>4. ASSUME NEW r \in Call, M!Fetch(r) PROVE TracksInv'
    <2>1. PICK t \in Track : t = import[r].track /\ import[r].at = "fetch"
      BY <1>0, <1>4 DEF ImportOK, M!Fetch, M!At
    <2>2. PICK next \in {"write", "failed"} : import' = [import EXCEPT ![r].at = next, ![r].got = version[t]]
      BY <1>4, <2>1 DEF M!Fetch
    <2>. DEFINE u == [import[r] EXCEPT !.at = next, !.got = version[t]]
    <2>3. u \in Import /\ u.at = next /\ u.track = t /\ u.got = version[t]
      BY <1>0, <2>1, <2>2 DEF Import
    <2>4. \A q \in Call : import[q].at = "done" /\ import[q].track = u.track => import[q].got <= u.got
      BY <1>0, <2>3 DEF ImportOK
    <2>5. version[t] <= version[t]
      BY <1>0
    <2>6. PICK v \in Import : v = u
      BY <2>3
    <2>7. import' = [import EXCEPT ![r] = v] /\ UNCHANGED <<version, track, keys, late>>
      <3>1. import' = [import EXCEPT ![r] = u]
        BY <1>0, <2>2
      <3>2. QED BY <1>4, <2>6, <3>1 DEF M!Fetch
    <2>8. /\ v.at = next /\ v.track \in Track /\ v.got <= version[v.track]
          /\ \A q \in Call : import[q].at = "done" /\ import[q].track = v.track => import[q].got <= v.got
      BY <2>3, <2>4, <2>5, <2>6
    <2>9. v.at # "start" /\ v.at # "search" /\ v.at # "fetch" /\ v.at # "done" /\ v.track # None
      BY <1>0, <2>8
    <2>. HIDE DEF u
    <2>10. QED BY <2>7, <2>8, <2>9, ImportMoves
  <1>5. ASSUME NEW r \in Call, NEW t \in Track, M!Import(r, t) PROVE TracksInv'
    <2>. DEFINE u == [import[r] EXCEPT !.at = "fetch", !.track = t]
    <2>1. import[r] = M!Fresh
      BY <1>0, <1>5 DEF M!Import, M!Comes, M!At, ImportOK
    <2>2. u \in Import /\ u.at = "fetch" /\ u.track = t /\ ~u.passed /\ u.got = 0
      BY <2>1, NewImport DEF Import
    <2>3. version[t] \in Nat /\ 0 <= version[t]
      BY <1>0
    <2>4. PICK v \in Import : v = u
      BY <2>2
    <2>5. import' = [import EXCEPT ![r] = v] /\ UNCHANGED <<version, track, keys, late>>
      <3>1. import' = [import EXCEPT ![r].at = "fetch", ![r].track = t]
        BY <1>5 DEF M!Import
      <3>2. import' = [import EXCEPT ![r] = u]
        BY <1>0, <3>1
      <3>3. QED BY <1>5, <2>4, <3>2 DEF M!Import
    <2>6. QED BY <1>0, <2>2, <2>3, <2>4, <2>5, ImportMoves
  <1>6. ASSUME NEW t \in Track, M!Changes(t) PROVE TracksInv'
    <2>1. /\ version' = [version EXCEPT ![t] = @ + 1] /\ UNCHANGED <<track, keys, import, late>>
      BY <1>6 DEF M!Changes
    <2>2. version' \in [Track -> Nat] /\ \A s \in Track : version[s] <= version'[s]
      BY <1>0, <2>1
    <2>3. TracksType'
      BY <1>0, <2>1, <2>2 DEF TracksType
    <2>4. ASSUME NEW q \in Call PROVE ImportOK(q)'
      <3>1. ImportOK(q) /\ import[q] \in Import
        BY <1>0
      <3>2. import[q].track # None => import[q].got <= version'[import[q].track]
        BY <1>0, <2>2, <3>1 DEF ImportOK, Import
      <3>3. M!Len(M!Configured)' = M!Len(M!Configured)
        BY <2>1 DEF M!Configured, M!Providers
      <3>4. QED BY <2>1, <3>1, <3>2, <3>3 DEF ImportOK
    <2>5. QED BY <2>3, <2>4 DEF TracksInv
  <1>7. QED BY <1>1, <1>2, <1>3, <1>4, <1>5, <1>6, UpsertStep DEF M!Next

\* The bytes of a range, whatever the header and the size are.
LEMMA Ranges ==
  ASSUME NEW size \in Nat, NEW from \in Nat \cup {None}, NEW to \in Nat \cup {None}
  PROVE  M!ParseRange(from, to, size).start..M!ParseRange(from, to, size).end = M!Asked(from, to, size)
  <1>0. None \notin Int
    BY NoneIsNothing
  <1>1. CASE from = None /\ to = None
    BY <1>1 DEF M!ParseRange, M!Asked, M!Whole
  <1>2. CASE from = None /\ to \in Nat
    BY <1>0, <1>2 DEF M!ParseRange, M!Asked, M!Whole
  <1>3. CASE from \in Nat /\ to = None
    BY <1>0, <1>3 DEF M!ParseRange, M!Asked, M!Whole
  <1>4. CASE from \in Nat /\ to \in Nat
    <2>0. from # None /\ to # None
      BY <1>0, <1>4
    <2>1. M!Asked(from, to, size) = {b \in 0..size - 1 : b >= from /\ b <= to}
      BY <2>0 DEF M!Asked
    <2>2. CASE from > to \/ from >= size
      <3>1. M!ParseRange(from, to, size) = M!Whole
        BY <2>0, <2>2 DEF M!ParseRange
      <3>2. QED BY <1>4, <2>1, <2>2, <3>1 DEF M!Whole
    <2>3. CASE ~(from > to \/ from >= size)
      <3>1. M!ParseRange(from, to, size) = [start |-> from, end |-> IF to < size THEN to ELSE size - 1]
        BY <2>0, <2>3 DEF M!ParseRange
      <3>2. QED BY <1>4, <2>1, <2>3, <3>1
    <2>4. QED BY <2>2, <2>3
  <1>5. QED BY <1>1, <1>2, <1>3, <1>4

LEMMA TracksAreRight == TracksInv => M!TracksAgree
  <1> SUFFICES ASSUME TracksInv PROVE M!TracksAgree
    OBVIOUS
  <1>1. \A r \in Call : ImportOK(r) /\ import[r] \in Import
    BY DEF TracksInv, TracksType
  <1>2. track \in [Track -> Nat \cup {None}]
    BY DEF TracksInv, TracksType
  <1>3. M!RangesAreAnswered
    BY Ranges, SizesAreNumbers DEF M!RangesAreAnswered
  <1>4. ASSUME NEW r \in Call, M!At(r, "done"), import[r].track # None, import[r].track \notin late
        PROVE  track[import[r].track] >= import[r].got
    BY <1>1, <1>2, <1>4 DEF ImportOK, Import, M!At
  <1>5. ASSUME NEW r \in Call, M!At(r, "failed"), import[r].track = None
        PROVE  import[r].tried = M!Len(M!Configured)
    BY <1>1, <1>5 DEF ImportOK, M!At
  <1>6. QED BY <1>3, <1>4, <1>5 DEF M!TracksAgree

-----------------------------------------------------------------------------
\* Stickers.

\* Nobody who has not answered has a row.
StickersInv ==
  /\ DOMAIN response = User \cup {Other} /\ response = [u \in User \cup {Other} |-> response[u]]
  /\ \A u \in User \cup {Other} : response[u] # None => u \in tried
  /\ knowing \subseteq tried

LEMMA StickersInit == ContentInit => StickersInv
  BY DEF ContentInit, Q!Init, StickersInv

LEMMA StickersNext ==
  ASSUME StickersInv, [Q!Next]_qvars
  PROVE  StickersInv'
  <1>1. CASE UNCHANGED <<response, tried, knowing>>
    BY <1>1 DEF StickersInv
  <1>2. ASSUME NEW r \in Call, Q!Respond(r), ~UNCHANGED <<response, tried, knowing>> PROVE StickersInv'
    <2>1. PICK u, p : u = reply[r].user /\ p = reply[r].pick
      OBVIOUS
    <2>2. /\ response' = [response EXCEPT ![u] = p] /\ tried' = tried \cup {u}
          /\ knowing' \subseteq knowing \cup {u}
      BY <1>2, <2>1 DEF Q!Respond, Q!Shown
    <2>3. QED BY <2>2 DEF StickersInv
  <1>3. ASSUME NEW u \in User \cup {Other}, Q!List(u) PROVE StickersInv'
    <2>1. UNCHANGED <<response, tried>> /\ (knowing' = knowing \/ (response[u] # None /\ knowing' \subseteq knowing \cup {u}))
      BY <1>3 DEF Q!List, Q!Shown
    <2>2. QED BY <2>1 DEF StickersInv
  <1>4. CASE Q!DeleteStory
    BY <1>4 DEF Q!DeleteStory, StickersInv
  <1>5. QED BY <1>1, <1>2, <1>3, <1>4 DEF qvars, Q!Next, Q!Create, Q!CreateLink, Q!Answer

-----------------------------------------------------------------------------
\* Finite sets.

\* What holds of no set without holding of a smaller one holds of none.
LEMMA SubsetInduction ==
  ASSUME NEW S, IsFiniteSet(S), NEW T \in SUBSET SUBSET S,
         \A s \in SUBSET S : (\A x \in s : s \ {x} \in T) => s \in T
  PROVE  T = SUBSET S
  <1> SUFFICES ASSUME (SUBSET S) \ T # {} PROVE FALSE
    OBVIOUS
  <1>0. IsWellFoundedOn(StrictSubsetOrdering(S), SUBSET S)
    <2>1. IsWellFoundedOn(StrictSubsetOrdering(S), FiniteSubsetsOf(S))
      BY FS_StrictSubsetOrderingWellFounded
    <2>2. QED BY <2>1, FS_FiniteSubsetsOfFinite
  <1>1. PICK s \in (SUBSET S) \ T : \A y \in (SUBSET S) \ T : ~(<<y, s>> \in StrictSubsetOrdering(S))
    <2> DEFINE V == (SUBSET S) \ T
               W == SUBSET S
               O == StrictSubsetOrdering(S)
    <2>1. V \subseteq W /\ V # {} /\ IsWellFoundedOn(O, W)
      BY <1>0
    <2> HIDE DEF V, W, O
    <2>2. \E s \in V : \A y \in V : ~(<<y, s>> \in O)
      BY <2>1, WFMin
    <2>3. QED BY <2>2 DEF V, O
  <1>2. PICK x \in s : s \ {x} \notin T
    BY <1>1
  <1>3. <<s \ {x}, s>> \in StrictSubsetOrdering(S)
    BY <1>1, <1>2 DEF StrictSubsetOrdering
  <1>4. QED BY <1>1, <1>2, <1>3

LEMMA SameCardinality ==
  \A S : P!Cardinality(S) = Cardinality(S) /\ Q!Cardinality(S) = Cardinality(S) /\ R!Cardinality(S) = Cardinality(S)
  BY DEF Cardinality, P!Cardinality, Q!Cardinality, R!Cardinality

LEMMA DisjointUnion ==
  ASSUME NEW X, NEW Y, NEW Z, IsFiniteSet(X), IsFiniteSet(Y), Z = X \cup Y, X \cap Y = {}
  PROVE  Cardinality(Z) = Cardinality(X) + Cardinality(Y)
  <1>1. Cardinality(X \cup Y) = Cardinality(X) + Cardinality(Y) - Cardinality(X \cap Y)
    BY FS_Union
  <1>2. Cardinality(X \cap Y) = 0
    BY FS_EmptySet
  <1>3. Cardinality(X) \in Nat /\ Cardinality(Y) \in Nat
    BY FS_CardinalityType
  <1>4. Cardinality(Z) = Cardinality(X \cup Y)
    OBVIOUS
  <1>5. QED BY <1>1, <1>2, <1>3, <1>4

LEMMA LowestExists ==
  ASSUME NEW S, IsFiniteSet(S), S # {}, NEW f, \A x \in S : f[x] \in Nat
  PROVE  \E x \in S : \A y \in S : f[x] <= f[y]
  <1> DEFINE T == {s \in SUBSET S : s = {} \/ \E x \in s : \A y \in s : f[x] <= f[y]}
  <1>1. ASSUME NEW s \in SUBSET S, \A x \in s : s \ {x} \in T PROVE s \in T
    <2>1. CASE s = {}
      BY <2>1
    <2>2. CASE s # {}
      <3>1. PICK x \in s : TRUE
        BY <2>2
      <3>2. CASE s \ {x} = {}
        <4>1. \A y \in s : f[x] <= f[y]
          BY <3>1, <3>2
        <4>2. QED BY <3>1, <4>1
      <3>3. CASE s \ {x} # {}
        <4>1. PICK m \in s \ {x} : \A y \in s \ {x} : f[m] <= f[y]
          BY <1>1, <3>1, <3>3
        <4>2. CASE f[m] <= f[x]
          BY <4>1, <4>2
        <4>3. CASE ~(f[m] <= f[x])
          <5>1. \A y \in s : f[x] <= f[y]
            BY <3>1, <4>1, <4>3
          <5>2. QED BY <3>1, <5>1
        <4>4. QED BY <4>2, <4>3
      <3>4. QED BY <3>2, <3>3
    <2>3. QED BY <2>1, <2>2
  <1>2. T = SUBSET S
    <2>1. T \in SUBSET SUBSET S
      OBVIOUS
    <2> HIDE DEF T
    <2>2. QED BY <1>1, <2>1, SubsetInduction
  <1>3. S \in T
    BY <1>2
  <1>4. QED BY <1>3

LEMMA NumbersAreFinite ==
  ASSUME NEW n \in Nat, NEW v, v \subseteq 1..n
  PROVE  IsFiniteSet(v) /\ Cardinality(v) <= n /\ Cardinality(v) \in Nat
  <1>1. PICK D : D = 1..n
    OBVIOUS
  <1>2. IsFiniteSet(D) /\ Cardinality(D) = n
    BY <1>1, FS_Interval
  <1>3. v \in SUBSET D
    BY <1>1
  <1>4. QED BY <1>2, <1>3, FS_Subset, FS_CardinalityType

LEMMA OneToOneIsOnto ==
  ASSUME NEW D, IsFiniteSet(D), NEW f \in [D -> D], \A i, j \in D : f[i] = f[j] => i = j
  PROVE  \A m \in D : \E i \in D : f[i] = m
  <1>1. f \in Injection(D, D)
    BY DEF Injection, IsInjective
  <1>2. f \in Surjection(D, D)
    BY <1>1, FS_Injection
  <1>3. QED BY <1>2 DEF Surjection

\* The least of some numbers.
LEMMA LeastExists ==
  ASSUME NEW n \in Nat, NEW S, S \subseteq 1..n, S # {}
  PROVE  R!Min(S) \in S /\ \A k \in S : R!Min(S) <= k
  <1>1. IsFiniteSet(S)
    BY NumbersAreFinite
  <1> DEFINE f == [k \in 1..n |-> k]
  <1>2. \A k \in S : f[k] = k /\ f[k] \in Nat
    OBVIOUS
  <1> HIDE DEF f
  <1>3. \E k \in S : \A l \in S : f[k] <= f[l]
    BY <1>1, <1>2, LowestExists
  <1>4. \E k \in S : \A l \in S : k <= l
    BY <1>2, <1>3
  <1>5. QED BY <1>4 DEF R!Min

-----------------------------------------------------------------------------
\* Stickers: what the results of a poll add up to.

Picked(s) == CHOOSE x \in s : TRUE

\* h adds up the numbers g over the subsets of S, in the order of the fold.
Adds(h, g, S) == h = [s \in SUBSET S |-> IF s = {} THEN 0 ELSE g[Picked(s)] + h[s \ {Picked(s)}]]

LEMMA SumsExist ==
  ASSUME NEW S, IsFiniteSet(S), NEW m \in Nat, NEW g \in [S -> 0..m]
  PROVE  \E h : Adds(h, g, S)
  <1> DEFINE B(s) == {p \in s \X (1..m) : p[2] <= g[p[1]]}
             h == [s \in SUBSET S |-> Cardinality(B(s))]
  <1>1. \A s \in SUBSET S : IsFiniteSet(B(s))
    <2> SUFFICES ASSUME NEW s \in SUBSET S PROVE IsFiniteSet(B(s))
      OBVIOUS
    <2>1. IsFiniteSet(s \X (1..m))
      <3>1. IsFiniteSet(s)
        BY FS_Subset
      <3>2. IsFiniteSet(1..m)
        BY FS_Interval
      <3>3. QED BY <3>1, <3>2, FS_Product
    <2>2. QED BY <2>1, FS_Subset
  <1>2. \A s \in SUBSET S : \A x \in s : Cardinality(B(s)) = g[x] + Cardinality(B(s \ {x}))
    <2> SUFFICES ASSUME NEW s \in SUBSET S, NEW x \in s
                 PROVE  Cardinality(B(s)) = g[x] + Cardinality(B(s \ {x}))
      OBVIOUS
    <2> DEFINE D == {p \in {x} \X (1..m) : p[2] <= g[x]}
               f == [k \in 1..g[x] |-> <<x, k>>]
    <2>1. g[x] \in 0..m
      OBVIOUS
    <2>2. f \in Bijection(1..g[x], D)
      <3>1. f \in [1..g[x] -> D]
        BY <2>1
      <3>2. \A i, j \in 1..g[x] : f[i] = f[j] => i = j
        OBVIOUS
      <3>3. \A d \in D : \E i \in 1..g[x] : f[i] = d
        <4> TAKE d \in D
        <4>1. d = <<x, d[2]>> /\ d[2] \in 1..g[x]
          BY <2>1
        <4>2. QED BY <4>1
      <3>4. QED BY <3>1, <3>2, <3>3 DEF Bijection, Injection, Surjection, IsInjective
    <2>3. IsFiniteSet(D) /\ Cardinality(D) = g[x]
      <3>1. IsFiniteSet(1..g[x]) /\ Cardinality(1..g[x]) = g[x]
        <4>1. 1 \in Int /\ g[x] \in Int /\ g[x] \in Nat
          BY <2>1
        <4>2. IsFiniteSet(1..g[x]) /\ Cardinality(1..g[x]) = IF 1 > g[x] THEN 0 ELSE g[x] - 1 + 1
          BY <4>1, FS_Interval
        <4>3. QED BY <4>1, <4>2
      <3>2. ExistsBijection(1..g[x], D)
        BY <2>2 DEF ExistsBijection
      <3> HIDE DEF D
      <3>3. QED BY <3>1, <3>2, FS_Bijection
    <2>4. B(s) = D \cup B(s \ {x}) /\ D \cap B(s \ {x}) = {}
      OBVIOUS
    <2>5. IsFiniteSet(B(s \ {x})) /\ Cardinality(B(s \ {x})) \in Nat
      BY <1>1, FS_CardinalityType
    <2> HIDE DEF D, B
    <2>6. Cardinality(D \cup B(s \ {x})) = Cardinality(D) + Cardinality(B(s \ {x})) - Cardinality(D \cap B(s \ {x}))
      BY <2>3, <2>5, FS_Union
    <2>7. Cardinality(D \cap B(s \ {x})) = 0
      BY <2>4, FS_EmptySet
    <2>8. QED BY <2>1, <2>3, <2>4, <2>5, <2>6, <2>7
  <1>3. Cardinality(B({})) = 0
    <2>1. B({}) = {}
      OBVIOUS
    <2>2. QED BY <2>1, FS_EmptySet
  <1> HIDE DEF B
  <1>4. \A s \in SUBSET S : h[s] = Cardinality(B(s))
    OBVIOUS
  <1>5. \A s \in SUBSET S : s # {} => Picked(s) \in s /\ s \ {Picked(s)} \in SUBSET S
    BY DEF Picked
  <1>6. \A s \in SUBSET S : h[s] = IF s = {} THEN 0 ELSE g[Picked(s)] + h[s \ {Picked(s)}]
    BY <1>2, <1>3, <1>4, <1>5
  <1>7. h = [s \in SUBSET S |-> h[s]]
    OBVIOUS
  <1> HIDE DEF h
  <1>8. Adds(h, g, S)
    BY <1>6, <1>7 DEF Adds
  <1>9. QED BY <1>8

\* SumFunction as the sum that it is: over no element nothing, over more of them one more.
LEMMA SumAdds ==
  ASSUME NEW S, IsFiniteSet(S), NEW m \in Nat, NEW g \in [S -> 0..m]
  PROVE  \E h : Adds(h, g, S) /\ Q!SumFunction(g) = h[S]
  <1>1. PICK h : Adds(h, g, S)
    BY SumsExist
  <1> DEFINE k == CHOOSE f : f = [s \in SUBSET (DOMAIN g) |-> IF s = {} THEN 0 ELSE g[CHOOSE x \in s : TRUE] + f[s \ {CHOOSE x \in s : TRUE}]]
  <1>2. k = [s \in SUBSET (DOMAIN g) |-> IF s = {} THEN 0 ELSE g[CHOOSE x \in s : TRUE] + k[s \ {CHOOSE x \in s : TRUE}]]
    BY ZenonT(40), <1>1 DEF Adds, Picked
  <1>3. Q!SumFunction(g) = k[DOMAIN g]
    BY DEF Q!SumFunction, Q!SumFunctionOnSet, Q!FoldFunctionOnSet, Q!MapThenFoldSet
  <1> HIDE DEF k
  <1>4. Adds(k, g, S)
    BY <1>2 DEF Adds, Picked
  <1>5. QED BY <1>3, <1>4

Viewers == User \cup {Other}

PollsInv ==
  /\ response \in [Viewers -> Option \cup {None}]
  /\ sticker \in Q!Valid \cup {None}
  /\ reply \in [Call -> Q!Request]
  /\ \A r \in Call : Q!At(r, "write") => reply[r].user \in Viewers /\ reply[r].pick \in Option

LEMMA PollsInit == ContentInit => PollsInv
  BY DEF ContentInit, Q!Init, PollsInv, Viewers, Q!Request, Q!Fresh, Q!At

LEMMA PollsNext ==
  ASSUME PollsInv, [Q!Next]_qvars
  PROVE  PollsInv'
  <1>0. /\ response \in [Viewers -> Option \cup {None}] /\ sticker \in Q!Valid \cup {None}
        /\ reply \in [Call -> Q!Request]
        /\ \A r \in Call : Q!At(r, "write") => reply[r].user \in Viewers /\ reply[r].pick \in Option
    BY DEF PollsInv
  <1>1. ASSUME NEW r \in Call, NEW l \in {"link", "done", "failed"}, Q!Goes(r, l)
        PROVE  /\ reply' \in [Call -> Q!Request]
               /\ \A q \in Call : Q!At(q, "write")' => reply'[q].user \in Viewers /\ reply'[q].pick \in Option
    BY <1>0, <1>1 DEF Q!Goes, Q!Request, Q!At
  <1>2. ASSUME NEW r \in Call, NEW s \in Q!Sticker, Q!Create(r, s) PROVE PollsInv'
    BY <1>0, <1>1, <1>2 DEF Q!Create, PollsInv
  <1>3. ASSUME NEW r \in Call, Q!CreateLink(r) PROVE PollsInv'
    <2>1. [type |-> "LINK", correct |-> None] \in Q!Valid
      BY DEF Q!Valid, Q!Sticker, Q!Types
    <2>2. QED BY <1>0, <1>1, <1>3, <2>1 DEF Q!CreateLink, PollsInv
  <1>4. ASSUME NEW r \in Call, Q!Respond(r) PROVE PollsInv'
    <2>1. CASE sticker # None
      <3>1. response' \in [Viewers -> Option \cup {None}]
        BY <1>0, <1>4, <2>1 DEF Q!Respond
      <3>2. QED BY <1>0, <1>1, <1>4, <2>1, <3>1 DEF Q!Respond, PollsInv
    <2>2. CASE sticker = None
      BY <1>0, <1>1, <1>4, <2>2 DEF Q!Respond, PollsInv
    <2>3. QED BY <2>1, <2>2
  <1>5. ASSUME NEW r \in Call, NEW u \in Viewers, NEW o \in Option, Q!Answer(r, u, o) PROVE PollsInv'
    <2>0. PICK x : x = [Q!Fresh EXCEPT !.user = u, !.pick = o,
                          !.at = IF sticker.type \in Q!NonAnswerable THEN "failed" ELSE "write"]
      OBVIOUS
    <2>1. reply' = [reply EXCEPT ![r] = x]
      BY <1>5, <2>0 DEF Q!Answer
    <2>2. /\ x.user = u /\ x.pick = o /\ x.at \in {"failed", "write"}
          /\ x = [at |-> x.at, user |-> x.user, pick |-> x.pick]
      BY <2>0 DEF Q!Fresh
    <2>3. x \in Q!Request
      BY <2>2 DEF Q!Request, Viewers
    <2>4. QED BY <1>0, <1>5, <2>1, <2>2, <2>3 DEF Q!Answer, PollsInv, Q!At
  <1>6. ASSUME NEW u \in Viewers, Q!List(u) PROVE PollsInv'
    BY <1>0, <1>6 DEF Q!List, PollsInv, Q!At
  <1>7. CASE Q!DeleteStory
    <2>1. /\ reply' \in [Call -> Q!Request]
          /\ \A q \in Call : Q!At(q, "write")' => reply'[q] = reply[q]
      BY <1>0, <1>7 DEF Q!DeleteStory, Q!Request, Q!At
    <2>2. \A q \in Call : Q!At(q, "write")' => Q!At(q, "write")
      BY <2>1 DEF Q!At
    <2>3. response' = [u \in Viewers |-> None] /\ sticker' = None
      BY <1>7 DEF Q!DeleteStory, Viewers
    <2>4. QED BY <1>0, <2>1, <2>2, <2>3 DEF PollsInv
  <1>8. CASE UNCHANGED qvars
    BY <1>0, <1>8 DEF qvars, PollsInv, Q!At
  <1>9. QED BY <1>2, <1>3, <1>4, <1>5, <1>6, <1>7, <1>8 DEF Q!Next, Viewers

Numbers == IsFiniteSet(Viewers) /\ IsFiniteSet(Option) /\ None \notin Option

LEMMA ViewersAreFinite == Numbers
  <1>1. IsFiniteSet(Viewers)
    BY RowsAreFinite, FS_AddElement DEF Viewers
  <1>2. QED BY <1>1, RowsAreFinite, NoneIsNothing DEF Numbers

\* Those whose answer is in s, one option after the other.
LEMMA AnswersAddUp ==
  ASSUME PollsInv, NEW h, Adds(h, [o \in Option |-> Cardinality(Q!Answers(o))], Option)
  PROVE  \A s \in SUBSET Option : h[s] = Cardinality({u \in Viewers : response[u] \in s})
  <1> DEFINE g == [o \in Option |-> Cardinality(Q!Answers(o))]
             B(s) == {u \in Viewers : response[u] \in s}
             T == {s \in SUBSET Option : h[s] = Cardinality(B(s))}
  <1>1. \A s \in SUBSET Option : IsFiniteSet(B(s)) /\ Cardinality(B(s)) \in Nat
    BY ViewersAreFinite, FS_Subset, FS_CardinalityType DEF Numbers
  <1>2. ASSUME NEW s \in SUBSET Option, \A x \in s : s \ {x} \in T PROVE s \in T
    <2>1. CASE s = {}
      <3>1. B(s) = {}
        BY <2>1
      <3>2. h[s] = 0
        BY <2>1 DEF Adds
      <3>3. QED BY <2>1, <3>1, <3>2, FS_EmptySet
    <2>2. CASE s # {}
      <3>1. PICK x : x = Picked(s) /\ x \in s
        BY <2>2 DEF Picked
      <3>2. h[s] = Cardinality(B({x})) + h[s \ {x}]
        <4>1. h[s] = g[x] + h[s \ {x}]
          BY <2>2, <3>1 DEF Adds
        <4>2. Q!Answers(x) = B({x})
          BY DEF Q!Answers, Viewers
        <4>3. QED BY <3>1, <4>1, <4>2
      <3>3. h[s \ {x}] = Cardinality(B(s \ {x}))
        BY <1>2, <3>1
      <3>4. B(s) = B({x}) \cup B(s \ {x}) /\ B({x}) \cap B(s \ {x}) = {}
        BY <3>1
      <3>5. IsFiniteSet(B({x})) /\ IsFiniteSet(B(s \ {x})) /\ Cardinality(B({x})) \in Nat /\ Cardinality(B(s \ {x})) \in Nat
        BY <1>1, <3>1
      <3> HIDE DEF B
      <3>8. Cardinality(B(s)) = Cardinality(B({x})) + Cardinality(B(s \ {x}))
        BY <3>4, <3>5, DisjointUnion
      <3>9. QED BY <3>2, <3>3, <3>8
    <2>3. QED BY <2>1, <2>2
  <1> HIDE DEF B
  <1>3. T = SUBSET Option
    <2>1. T \in SUBSET SUBSET Option /\ IsFiniteSet(Option)
      BY ViewersAreFinite DEF Numbers
    <2> HIDE DEF T
    <2>2. QED BY <1>2, <2>1, SubsetInduction
  <1>4. QED BY <1>3 DEF B

\* A rounded share is off by half a percent at most.
LEMMA Rounded ==
  ASSUME NEW n \in Nat, NEW t \in Nat \ {0}, n <= t
  PROVE  /\ Q!Percent(n, t) \in 0..100
         /\ 200 * n - t <= 2 * (t * Q!Percent(n, t)) /\ 2 * (t * Q!Percent(n, t)) <= 200 * n + t
  <1> DEFINE a == 200 * n + t
             b == 2 * t
             p == a \div b
  <1>1. a \in Nat /\ b \in Nat \ {0} /\ p = Q!Percent(n, t)
    BY DEF Q!Percent
  <1>2. p \in Int /\ b * p <= a /\ a < b * (p + 1)
    BY <1>1
  <1>3. QED BY <1>1, <1>2

\* The shares of the options in s come to as much as that of the answers in s, but for what is lost or
\* gained by rounding each.
LEMMA SharesAddUp ==
  ASSUME NEW c \in [Option -> Nat], NEW t \in Nat \ {0}, \A o \in Option : c[o] <= t,
         NEW h, Adds(h, c, Option),
         NEW k, Adds(k, [o \in Option |-> Q!Percent(c[o], t)], Option)
  PROVE  \A s \in SUBSET Option :
           /\ h[s] \in Nat /\ k[s] \in Nat
           /\ 200 * h[s] - Cardinality(s) * t <= 2 * (t * k[s])
           /\ 2 * (t * k[s]) <= 200 * h[s] + Cardinality(s) * t
  <1> DEFINE Fine(s) == /\ h[s] \in Nat /\ k[s] \in Nat
                        /\ 200 * h[s] - Cardinality(s) * t <= 2 * (t * k[s])
                        /\ 2 * (t * k[s]) <= 200 * h[s] + Cardinality(s) * t
             T == {s \in SUBSET Option : Fine(s)}
  <1>1. ASSUME NEW s \in SUBSET Option, \A x \in s : s \ {x} \in T PROVE s \in T
    <2>1. CASE s = {}
      <3>1. h[s] = 0 /\ k[s] = 0 /\ Cardinality(s) = 0
        BY <2>1, FS_EmptySet DEF Adds
      <3>2. QED BY <3>1
    <2>2. CASE s # {}
      <3>1. PICK x : x = Picked(s) /\ x \in s
        BY <2>2 DEF Picked
      <3>2. PICK p : p = Q!Percent(c[x], t)
        OBVIOUS
      <3>3. h[s] = c[x] + h[s \ {x}] /\ k[s] = p + k[s \ {x}]
        BY <2>2, <3>1, <3>2 DEF Adds
      <3>4. Fine(s \ {x})
        BY <1>1, <3>1
      <3>5. p \in Nat /\ 200 * c[x] - t <= 2 * (t * p) /\ 2 * (t * p) <= 200 * c[x] + t
        <4>1. c[x] \in Nat /\ c[x] <= t
          BY <3>1
        <4>2. /\ Q!Percent(c[x], t) \in 0..100
              /\ 200 * c[x] - t <= 2 * (t * Q!Percent(c[x], t))
              /\ 2 * (t * Q!Percent(c[x], t)) <= 200 * c[x] + t
          BY <4>1, Rounded
        <4>3. QED BY <3>2, <4>2
      <3>6. PICK n \in Nat : n = Cardinality(s \ {x}) /\ Cardinality(s) = n + 1
        <4>1. IsFiniteSet(s)
          BY ViewersAreFinite, FS_Subset DEF Numbers
        <4>2. Cardinality(s \ {x}) = Cardinality(s) - 1 /\ IsFiniteSet(s \ {x})
          BY <3>1, <4>1, FS_RemoveElement
        <4>3. Cardinality(s) \in Nat /\ Cardinality(s \ {x}) \in Nat
          BY <4>1, <4>2, FS_CardinalityType
        <4>4. QED BY <4>2, <4>3
      <3>7. PICK H, E \in Nat : H = h[s \ {x}] /\ E = k[s \ {x}]
        BY <3>4
      <3>8. 200 * H - n * t <= 2 * (t * E) /\ 2 * (t * E) <= 200 * H + n * t
        BY <3>4, <3>6, <3>7
      <3>9. t * (p + E) = t * p + t * E /\ (n + 1) * t = n * t + t
        BY <3>5, <3>6, <3>7
      <3>10. PICK C \in Nat : C = c[x]
        BY <3>1
      <3>11. PICK a, b, d \in Int : a = t * p /\ b = t * E /\ d = n * t
        BY <3>5, <3>6, <3>7
      <3>12. 200 * (C + H) - (d + t) <= 2 * (a + b) /\ 2 * (a + b) <= 200 * (C + H) + (d + t)
        BY <3>5, <3>8, <3>10, <3>11
      <3>13. Fine(s)
        BY <3>3, <3>5, <3>6, <3>7, <3>9, <3>10, <3>11, <3>12
      <3>14. QED BY <3>13
    <2>3. QED BY <2>1, <2>2
  <1> HIDE DEF Fine
  <1>2. T = SUBSET Option
    <2>1. T \in SUBSET SUBSET Option /\ IsFiniteSet(Option)
      BY ViewersAreFinite DEF Numbers
    <2> HIDE DEF T
    <2>2. QED BY <1>1, <2>1, SubsetInduction
  <1>3. QED BY <1>2 DEF Fine

\* results: the rows of the options add up to all the rows, and the shares to 100.
LEMMA ResultsAddUp == StickersInv /\ PollsInv => Q!StickersAgree
  <1> SUFFICES ASSUME StickersInv, PollsInv PROVE Q!StickersAgree
    OBVIOUS
  <1> DEFINE c == [o \in Option |-> Cardinality(Q!Answers(o))]
             t == Cardinality({u \in Viewers : response[u] # None})
             g == [o \in Option |-> Q!Percent(c[o], t)]
  <1>1. Q!Results = [total |-> t, count |-> c,
                     right |-> IF Q!IsQuiz THEN Cardinality(Q!Answers(sticker.correct)) ELSE 0]
    BY SameCardinality DEF Q!Results, Viewers
  <1>2. \A o \in Option \cup {None} : IsFiniteSet(Q!Answers(o)) /\ Cardinality(Q!Answers(o)) \in Nat
    BY ViewersAreFinite, FS_Subset, FS_CardinalityType DEF Numbers, Q!Answers, Viewers
  <1>3. t \in Nat /\ \A o \in Option : Cardinality(Q!Answers(o)) <= t
    <2>1. IsFiniteSet({u \in Viewers : response[u] # None})
      BY ViewersAreFinite, FS_Subset DEF Numbers
    <2>2. \A o \in Option : Q!Answers(o) \in SUBSET {u \in Viewers : response[u] # None}
      BY ViewersAreFinite DEF Numbers, Q!Answers, Viewers
    <2>3. QED BY <2>1, <2>2, FS_Subset, FS_CardinalityType
  <1>4. Q!Results.right \in Nat /\ Q!Results.right <= t
    <2>1. Q!IsQuiz => sticker.correct \in Option
      BY DEF Q!IsQuiz, PollsInv, Q!Valid, Q!Sticker
    <2>2. Q!Results.right = IF Q!IsQuiz THEN Cardinality(Q!Answers(sticker.correct)) ELSE 0
      BY <1>1
    <2>3. QED BY <1>2, <1>3, <2>1, <2>2
  <1>5. ASSUME t > 0
        PROVE  /\ Q!SumFunction(c) = t
               /\ 2 * Q!SumFunction(g) \in 200 - Cardinality(Option)..200 + Cardinality(Option)
    <2>1. c \in [Option -> 0..t] /\ g \in [Option -> 0..100] /\ IsFiniteSet(Option) /\ t \in Nat \ {0}
      <3>1. t \in Nat \ {0} /\ \A o \in Option : c[o] \in Nat /\ c[o] <= t
        BY <1>2, <1>3, <1>5
      <3> HIDE DEF c, t
      <3>2. \A o \in Option : Q!Percent(c[o], t) \in 0..100
        BY <3>1, Rounded
      <3>3. c \in [Option -> 0..t]
        BY <3>1 DEF c
      <3>4. QED BY <3>1, <3>2, <3>3, ViewersAreFinite DEF Numbers
    <2> HIDE DEF c, g, t
    <2>2. PICK h : Adds(h, c, Option) /\ Q!SumFunction(c) = h[Option]
      BY <2>1, SumAdds
    <2>3. PICK k : Adds(k, g, Option) /\ Q!SumFunction(g) = k[Option]
      BY <2>1, SumAdds
    <2>4. h[Option] = t
      <3>1. h[Option] = Cardinality({u \in Viewers : response[u] \in Option})
        BY <2>2, AnswersAddUp DEF c
      <3>2. {u \in Viewers : response[u] \in Option} = {u \in Viewers : response[u] # None}
        BY ViewersAreFinite DEF Numbers, PollsInv
      <3>3. QED BY <3>1, <3>2 DEF t
    <2>5. PICK n \in Nat : n = Cardinality(Option)
      BY <2>1, FS_CardinalityType
    <2>6. /\ k[Option] \in Nat
          /\ 200 * t - n * t <= 2 * (t * k[Option]) /\ 2 * (t * k[Option]) <= 200 * t + n * t
      BY <2>1, <2>2, <2>3, <2>4, <2>5, SharesAddUp DEF g
    <2>7. PICK E \in Nat : E = k[Option]
      BY <2>6
    <2>8. t * (200 - n) <= t * (2 * E) /\ t * (2 * E) <= t * (200 + n)
      BY <2>1, <2>6, <2>7
    <2>9. 200 - n <= 2 * E /\ 2 * E <= 200 + n
      <3>1. \A a, b \in Int : t * a <= t * b => a <= b
        BY <2>1
      <3>2. QED BY <2>8, <3>1
    <2>10. QED BY <2>2, <2>3, <2>4, <2>5, <2>7, <2>9
  <1>6. Q!SecretIsKept
    BY DEF StickersInv, Q!SecretIsKept
  <1>7. Q!Results.total = t /\ Q!Results.count = c
    BY <1>1
  <1> HIDE DEF c, t
  <1>8. QED BY <1>3, <1>4, <1>5, <1>6, <1>7, SameCardinality DEF Q!StickersAgree

-----------------------------------------------------------------------------
\* Pages.

PagesType ==
  /\ list.by \in {"row", "time", "offset"} /\ (list.by = "time" => list.changes = {"add", "delete"})
  /\ state \in [Item -> {"unmade", "in", "out", "deleted"}] /\ place \in [Item -> Nat]
  /\ same \subseteq P!Listed
  /\ page.at \in {"start", "next", "end"} /\ page.seen \in [Item -> Nat]
  /\ slips \in [changes : Nat, lost : Nat, again : Nat, cut : BOOLEAN, jumped : BOOLEAN]

\* Rows that are there, in the list or out of it.
There(i) == state[i] \in {"in", "out"}

PlacesApart ==
  list.by # "time" => \A i, j \in Item : There(i) /\ There(j) /\ place[i] = place[j] => i = j

\* Nothing happens before the first page.
Unread ==
  page.at = "start" =>
    /\ page.seen = [i \in Item |-> 0] /\ page.cursor = 0 /\ same = {}
    /\ ~slips.cut /\ ~slips.jumped /\ slips.lost = 0 /\ slips.again = 0

\* By row: above the cursor.
Passed == {i \in same \ secret : page.seen[i] = 0 /\ place[i] > place[page.cursor]}

CursorOK ==
  list.by = "row" /\ page.at = "next" =>
    /\ page.cursor \in Item /\ state[page.cursor] # "unmade"
    /\ ~slips.jumped =>
         /\ \A i \in same : page.seen[i] <= 1 /\ (page.seen[i] = 1 => place[i] >= place[page.cursor])
         /\ page.cursor \in same => page.seen[page.cursor] = 1
         /\ ~slips.cut => Cardinality(Passed) <= slips.lost

TimesOK ==
  list.by = "time" /\ page.at = "next" =>
    /\ page.cursor \in Nat
    /\ \A i \in Item : page.seen[i] <= 1
         /\ (page.seen[i] = 1 => place[i] >= page.cursor /\ state[i] # "unmade")
    /\ \A i \in same : page.seen[i] = 0 /\ place[i] >= page.cursor =>
         \E j \in Item : page.seen[j] = 1 /\ place[j] = place[i]

InPart(i) == P!InPart(i, place[i])

OffsetsOK ==
  list.by = "offset" /\ page.at = "next" =>
    /\ page.cursor \in Nat
    /\ Cardinality({i \in same : page.seen[i] = 0 /\ InPart(i)}) <= slips.lost
    /\ Cardinality({i \in same : page.seen[i] > 1 \/ (page.seen[i] = 1 /\ ~InPart(i))}) <= slips.again

PagesInv ==
  /\ PagesType /\ PlacesApart /\ Unread /\ CursorOK /\ TimesOK /\ OffsetsOK /\ P!PagesAreComplete

-----------------------------------------------------------------------------
LEMMA ItemsAreFinite ==
  ASSUME NEW S, S \subseteq Item
  PROVE  IsFiniteSet(S) /\ Cardinality(S) \in Nat
  BY RowsAreFinite, FS_Subset, FS_CardinalityType

LEMMA Fewer ==
  ASSUME NEW S, S \subseteq Item, NEW T, T \subseteq S
  PROVE  Cardinality(T) <= Cardinality(S) /\ (Cardinality(T) = Cardinality(S) => T = S)
  BY ItemsAreFinite, FS_Subset

LEMMA OneMoreRow ==
  ASSUME NEW S, S \subseteq Item, NEW T, T \subseteq Item, \A x, y \in T \ S : x = y
  PROVE  Cardinality(T) <= Cardinality(S) + 1
  <1>1. CASE T \ S = {}
    <2>1. T \subseteq S
      BY <1>1
    <2>2. QED BY <2>1, Fewer, ItemsAreFinite
  <1>2. CASE T \ S # {}
    <2>1. PICK x \in T \ S : TRUE
      BY <1>2
    <2>2. T \subseteq S \cup {x} /\ S \cup {x} \subseteq Item
      BY <2>1
    <2>3. Cardinality(S \cup {x}) = Cardinality(S) + 1
      BY <2>1, ItemsAreFinite, FS_AddElement
    <2>4. QED BY <2>2, <2>3, Fewer
  <1>3. QED BY <1>1, <1>2

LEMMA TopsOf ==
  ASSUME NEW S, S \subseteq Item, NEW n \in Nat, NEW T
  PROVE  T \in P!Tops(n, S) <=>
           /\ T \subseteq S /\ \A i \in T, j \in S \ T : place[i] >= place[j]
           /\ Cardinality(T) = IF Cardinality(S) < n THEN Cardinality(S) ELSE n
  BY SameCardinality DEF P!Tops

LEMMA LastOf ==
  ASSUME NEW T, T \subseteq Item, T # {}, \A i \in T : place[i] \in Nat
  PROVE  P!Last(T) \in T /\ \A j \in T : place[P!Last(T)] <= place[j]
  <1>1. \E i \in T : \A j \in T : place[i] <= place[j]
    BY ItemsAreFinite, LowestExists
  <1>2. QED BY <1>1 DEF P!Last

Apart(S) == \A i, j \in S : place[i] = place[j] => i = j

\* The rows of S before which there are less than n.
First(n, S) == {i \in S : Cardinality({j \in S : place[j] > place[i]}) < n}

\* There is one way to take the first n rows.
LEMMA TopsAreFirst ==
  ASSUME NEW S, S \subseteq Item, NEW n \in Nat, \A i \in S : place[i] \in Nat, Apart(S)
  PROVE  First(n, S) \in P!Tops(n, S) /\ \A T \in P!Tops(n, S) : T = First(n, S)
  <1>1. ASSUME NEW T \in P!Tops(n, S) PROVE T = First(n, S)
    <2>0. /\ T \subseteq S /\ \A i \in T, j \in S \ T : place[i] >= place[j]
          /\ Cardinality(T) = IF Cardinality(S) < n THEN Cardinality(S) ELSE n
      BY TopsOf
    <2>1. ASSUME NEW i \in T PROVE i \in First(n, S)
      <3> DEFINE U == {j \in S : place[j] > place[i]}
      <3>1. U \subseteq T \ {i} /\ T \ {i} \subseteq Item
        BY <2>0
      <3>2. Cardinality(T \ {i}) = Cardinality(T) - 1
        BY <2>0, <2>1, ItemsAreFinite, FS_RemoveElement
      <3>3. Cardinality(U) <= Cardinality(T) - 1 /\ Cardinality(U) \in Nat /\ Cardinality(T) \in Nat /\ Cardinality(S) \in Nat
        BY <2>0, <3>1, <3>2, Fewer, ItemsAreFinite
      <3>4. Cardinality(U) < n
        BY <2>0, <3>3
      <3>5. QED BY <2>0, <2>1, <3>4 DEF First
    <2>2. ASSUME NEW i \in First(n, S), i \notin T PROVE FALSE
      <3> DEFINE U == {j \in S : place[j] > place[i]}
      <3>1. i \in S /\ Cardinality(U) < n
        BY <2>2 DEF First
      <3>2. T \subseteq U /\ U \subseteq Item
        BY <2>0, <2>2, <3>1 DEF Apart
      <3>3. Cardinality(T) < n /\ Cardinality(T) \in Nat /\ Cardinality(S) \in Nat
        BY <2>0, <3>1, <3>2, Fewer, ItemsAreFinite
      <3>4. Cardinality(T) = Cardinality(S)
        BY <2>0, <3>3
      <3>5. T = S
        BY <2>0, <3>4, Fewer
      <3>6. QED BY <2>2, <3>1, <3>5
    <2>3. QED BY <2>0, <2>1, <2>2
  <1> DEFINE V == {s \in SUBSET S : P!Tops(n, s) # {}}
  <1>2. ASSUME NEW s \in SUBSET S, \A x \in s : s \ {x} \in V PROVE s \in V
    <2>1. CASE s = {}
      <3>1. {} \in P!Tops(n, s)
        BY <2>1, TopsOf, FS_EmptySet
      <3>2. QED BY <3>1
    <2>2. CASE s # {}
      <3>1. PICK x \in s : \A y \in s : place[x] <= place[y]
        BY <2>2, LowestExists, ItemsAreFinite
      <3>2. PICK T : T \in P!Tops(n, s \ {x})
        BY <1>2, <3>1
      <3>3. /\ T \subseteq s \ {x} /\ \A i \in T, j \in (s \ {x}) \ T : place[i] >= place[j]
            /\ Cardinality(T) = IF Cardinality(s \ {x}) < n THEN Cardinality(s \ {x}) ELSE n
        <4>1. s \ {x} \subseteq Item
          OBVIOUS
        <4>2. QED BY <3>2, <4>1, TopsOf
      <3>4. /\ Cardinality(s \ {x}) = Cardinality(s) - 1 /\ Cardinality(s) \in Nat
            /\ Cardinality(s \ {x}) \in Nat
        BY <3>1, ItemsAreFinite, FS_RemoveElement
      <3>5. CASE Cardinality(s \ {x}) < n
        <4>1. Cardinality(s) <= n
          BY <3>4, <3>5
        <4>2. s \in P!Tops(n, s)
          BY <3>4, <4>1, TopsOf
        <4>3. QED BY <4>2
      <3>6. CASE ~(Cardinality(s \ {x}) < n)
        <4>1. Cardinality(T) = n /\ ~(Cardinality(s) < n)
          BY <3>3, <3>4, <3>6
        <4>2. \A i \in T, j \in s \ T : place[i] >= place[j]
          BY <3>1, <3>3
        <4>3. T \in P!Tops(n, s)
          BY <3>3, <4>1, <4>2, TopsOf
        <4>4. QED BY <4>3
      <3>7. QED BY <3>5, <3>6
    <2>3. QED BY <2>1, <2>2
  <1>3. V = SUBSET S
    <2>1. V \in SUBSET SUBSET S /\ IsFiniteSet(S)
      BY ItemsAreFinite
    <2> HIDE DEF V
    <2>2. QED BY <1>2, <2>1, SubsetInduction
  <1>4. P!Tops(n, S) # {}
    BY <1>3
  <1>5. QED BY <1>1, <1>4

-----------------------------------------------------------------------------
LEMMA ShowFacts ==
  ASSUME PagesType, NEW T, T \subseteq Item, NEW more, more \in BOOLEAN, NEW c, P!Show(T, more, c)
  PROVE  /\ page'.at = IF more THEN "next" ELSE "end"
         /\ more => page'.cursor = c
         /\ page'.seen \in [Item -> Nat]
         /\ \A i \in T : page'.seen[i] = page.seen[i] + 1
         /\ \A i \in Item \ T : page'.seen[i] = page.seen[i]
  BY DEF P!Show, PagesType

\* What the database returns behind the cursor: rows below it, all but one at most; none if the row of
\* the cursor is deleted.
LEMMA RowsAhead ==
  ASSUME PagesType, PlacesApart, CursorOK, list.by = "row", page.at = "next", state[page.cursor] # "deleted"
  PROVE  LET c == page.cursor
             S == {j \in P!Listed : place[j] <= place[c]}
         IN  /\ P!Ahead \subseteq S /\ c \notin P!Ahead
             /\ \A x, y \in S \ P!Ahead : x = y
             /\ c \in P!Listed => \A x \in S \ P!Ahead : x = c
  <1> DEFINE c == page.cursor
             S == {j \in P!Listed : place[j] <= place[c]}
             D == UNION P!Tops(1, S)
  <1>1. P!Ahead = S \ D
    BY DEF P!Ahead, P!After
  <1>2. S \subseteq Item /\ c \in Item /\ There(c) /\ (\A i \in P!Listed : There(i) /\ i \in Item)
    BY DEF P!Listed, There, CursorOK, PagesType
  <1>3. \A i \in S : place[i] \in Nat
    BY <1>2 DEF PagesType
  <1>4. Apart(S)
    BY <1>2 DEF PlacesApart, Apart
  <1> HIDE DEF S
  <1>5. \A x, y \in D : x = y
    <2>1. \A T \in P!Tops(1, S) : T = First(1, S)
      BY <1>2, <1>3, <1>4, TopsAreFirst
    <2>2. ASSUME NEW x \in First(1, S), NEW y \in First(1, S) PROVE place[x] >= place[y]
      <3> DEFINE U == {j \in S : place[j] > place[x]}
      <3>1. Cardinality(U) < 1 /\ Cardinality(U) \in Nat /\ IsFiniteSet(U) /\ y \in S /\ x \in S
        BY <1>2, <2>2, ItemsAreFinite DEF First
      <3>2. U = {}
        BY <3>1, FS_EmptySet
      <3>3. QED BY <1>3, <3>1, <3>2
    <2>3. \A x, y \in First(1, S) : place[x] = place[y] /\ x \in S /\ y \in S
      BY <1>3, <2>2 DEF First
    <2>4. \A x, y \in First(1, S) : x = y
      BY <1>4, <2>3 DEF Apart
    <2>5. QED BY <2>1, <2>4
  <1>6. c \in P!Listed => c \in D
    <2> SUFFICES ASSUME c \in P!Listed PROVE c \in D
      OBVIOUS
    <2>1. c \in S /\ \A j \in S : place[c] >= place[j]
      BY <1>2 DEF S, PagesType, P!Listed
    <2>2. {j \in S : place[j] > place[c]} = {}
      BY <1>2, <1>3, <2>1
    <2>3. Cardinality({j \in S : place[j] > place[c]}) < 1
      BY <2>2, FS_EmptySet
    <2>4. c \in First(1, S)
      BY <2>1, <2>3 DEF First
    <2>5. First(1, S) \in P!Tops(1, S)
      BY <1>2, <1>3, <1>4, TopsAreFirst
    <2>6. QED BY <2>4, <2>5
  <1>7. c \notin P!Ahead
    BY <1>1, <1>6 DEF S
  <1> HIDE DEF D, c
  <1>8. \A x, y \in S \ P!Ahead : x = y
    BY <1>1, <1>5
  <1>9. c \in P!Listed => \A x \in S \ P!Ahead : x = c
    BY <1>1, <1>5, <1>6
  <1>10. QED BY <1>1, <1>7, <1>8, <1>9 DEF S, c

\* The rows that come into question and are not behind the cursor: those passed before, and one more if
\* the row of the cursor has left the list.
LEMMA RowsLost ==
  ASSUME PagesType, PlacesApart, Unread, CursorOK, list.by = "row", page.at # "end",
         ~slips.jumped, ~slips.cut, page.at = "next" => state[page.cursor] # "deleted",
         NEW X, X \subseteq (IF page.at = "start" THEN P!Listed ELSE same) \ secret,
         \A i \in X : page.seen[i] = 0 /\ i \notin P!Ahead
  PROVE  Cardinality(X) <= slips.lost + (IF page.at = "next" /\ state[page.cursor] = "out" THEN 1 ELSE 0)
  <1>1. CASE page.at = "start"
    <2>1. X = {}
      BY <1>1 DEF P!Ahead
    <2>2. QED BY <1>1, <2>1, FS_EmptySet DEF Unread
  <1>2. CASE page.at = "next"
    <2> DEFINE c == page.cursor
               S == {j \in P!Listed : place[j] <= place[c]}
    <2>1. /\ \A x, y \in S \ P!Ahead : x = y
          /\ c \in P!Listed => \A x \in S \ P!Ahead : x = c
      BY <1>2, RowsAhead
    <2>2. /\ c \in Item /\ (c \in same => page.seen[c] = 1) /\ Cardinality(Passed) <= slips.lost
          /\ state[c] # "unmade"
      BY <1>2 DEF CursorOK
    <2>3. X \subseteq same \ secret /\ same \subseteq P!Listed /\ P!Listed \subseteq Item
      BY <1>2 DEF PagesType, P!Listed
    <2>4. \A i \in X \ Passed : i \in S \ P!Ahead
      BY <2>2, <2>3 DEF Passed, PagesType
    <2>5. Passed \subseteq Item /\ X \subseteq Item
      BY <2>3 DEF Passed
    <2>6. CASE state[c] = "out"
      <3>1. \A x, y \in X \ Passed : x = y
        BY <2>1, <2>4
      <3>2. Cardinality(X) <= Cardinality(Passed) + 1
        BY <2>5, <3>1, OneMoreRow
      <3>3. QED BY <1>2, <2>2, <2>5, <2>6, <3>2, ItemsAreFinite DEF PagesType
    <2>7. CASE state[c] # "out"
      <3>1. c \in P!Listed
        BY <1>2, <2>2, <2>7 DEF PagesType, P!Listed
      <3>2. X \subseteq Passed
        BY <2>1, <2>2, <2>3, <2>4, <3>1
      <3>3. Cardinality(X) <= Cardinality(Passed)
        BY <2>5, <3>2, Fewer
      <3>4. QED BY <1>2, <2>2, <2>5, <2>7, <3>3, ItemsAreFinite DEF PagesType
    <2>8. QED BY <2>6, <2>7
  <1>3. QED BY <1>1, <1>2 DEF PagesType

\* Open page by row.
LEMMA RowsPage ==
  ASSUME PagesInv, P!NextPage, list.by = "row"
  PROVE  CursorOK' /\ P!PagesAreComplete'
  <1> DEFINE seen == page.seen
             c == page.cursor
             Open == P!Ahead
             start == page.at = "start"
  <1>1. PICK F, T :
          LET shown == F \ secret IN
          /\ F \in P!Tops(Limit + 1, Open) /\ T \in P!Tops(Limit, shown)
          /\ P!Show(T, Cardinality(shown) > Limit, IF T = {} THEN 0 ELSE P!Last(T))
          /\ slips' = [slips EXCEPT
               !.lost = @ + (IF page.at = "next" /\ state[page.cursor] = "out" THEN 1 ELSE 0),
               !.cut  = @ \/ (page.at = "next" /\ state[page.cursor] = "deleted")
                          \/ (Cardinality(F) > Limit /\ F \cap secret # {})]
    BY SameCardinality DEF P!NextPage, P!BuildCursorPage
  <1> DEFINE shown == F \ secret
             more == Cardinality(shown) > Limit
  <1>2. /\ same' = IF start THEN P!Listed ELSE same
        /\ UNCHANGED <<list, state, place, secret>> /\ page.at # "end"
    BY DEF P!NextPage
  <1>3. /\ P!Listed \subseteq Item /\ Open \subseteq P!Listed /\ same' \subseteq P!Listed
        /\ \A i \in P!Listed : place[i] \in Nat /\ state[i] = "in"
    <2>1. Open \subseteq P!Listed
      BY <1>2 DEF P!Ahead, P!After, P!Listed
    <2>2. QED BY <1>2, <2>1 DEF PagesInv, PagesType, P!Listed
  <1>4. /\ F \subseteq Open /\ \A i \in F, j \in Open \ F : place[i] >= place[j]
        /\ Cardinality(F) = IF Cardinality(Open) < Limit + 1 THEN Cardinality(Open) ELSE Limit + 1
    <2>1. Open \subseteq Item /\ Limit + 1 \in Nat
      BY <1>3, SizesAreNumbers
    <2>2. QED BY <1>1, <2>1, TopsOf
  <1>5. /\ T \subseteq shown /\ \A i \in T, j \in shown \ T : place[i] >= place[j]
        /\ Cardinality(T) = IF Cardinality(shown) < Limit THEN Cardinality(shown) ELSE Limit
    <2>1. shown \subseteq Item /\ Limit \in Nat
      BY <1>3, <1>4, SizesAreNumbers
    <2>2. QED BY <1>1, <2>1, TopsOf
  <1>6. /\ T \subseteq Open /\ T \subseteq Item /\ F \subseteq Item /\ shown \subseteq Item /\ shown \subseteq F
        /\ Cardinality(T) \in Nat /\ Cardinality(F) \in Nat /\ Cardinality(shown) \in Nat /\ Cardinality(Open) \in Nat
        /\ Cardinality(shown) <= Cardinality(F) /\ Open \subseteq Item /\ Limit \in Nat \ {0}
    BY <1>3, <1>4, <1>5, ItemsAreFinite, Fewer, SizesAreNumbers
  <1>7. /\ page'.at = IF more THEN "next" ELSE "end"
        /\ more => page'.cursor = IF T = {} THEN 0 ELSE P!Last(T)
        /\ page'.seen \in [Item -> Nat]
        /\ \A i \in T : page'.seen[i] = seen[i] + 1
        /\ \A i \in Item \ T : page'.seen[i] = seen[i]
    <2>1. PagesType /\ more \in BOOLEAN
      BY DEF PagesInv
    <2>2. P!Show(T, more, IF T = {} THEN 0 ELSE P!Last(T))
      BY <1>1
    <2> HIDE DEF more
    <2>3. QED BY <1>6, <2>1, <2>2, ShowFacts
  <1>8. /\ slips'.jumped = slips.jumped
        /\ slips'.lost = slips.lost + (IF page.at = "next" /\ state[c] = "out" THEN 1 ELSE 0)
        /\ ~slips'.cut => /\ ~slips.cut
                          /\ ~(page.at = "next" /\ state[c] = "deleted")
                          /\ (Cardinality(F) > Limit => F \cap secret = {})
    BY <1>1 DEF PagesInv, PagesType
  <1>9. ASSUME page.at = "next"
        PROVE  /\ state[c] = "deleted" => Open = {}
               /\ state[c] # "deleted" => \A i \in Open : i # c /\ place[i] < place[c]
    <2>1. state[c] = "deleted" => Open = {}
      BY <1>9 DEF P!Ahead, P!After
    <2>2. ASSUME state[c] # "deleted", NEW i \in Open PROVE i # c /\ place[i] < place[c]
      <3>1. i # c /\ place[i] <= place[c] /\ i \in P!Listed
        BY <1>9, <2>2, RowsAhead DEF PagesInv
      <3>2. There(i) /\ There(c) /\ c \in Item /\ i \in Item
        BY <1>3, <1>9, <2>2, <3>1 DEF There, PagesInv, CursorOK, PagesType
      <3>3. QED BY <3>1, <3>2 DEF PagesInv, PlacesApart, PagesType
    <2>3. QED BY <2>1, <2>2
  <1>10. start => \A i \in Item : seen[i] = 0
    BY DEF PagesInv, Unread
  <1>11. page.at = "next" => \A i \in same : ~slips.jumped => seen[i] <= 1 /\ (seen[i] = 1 => place[i] >= place[c])
    BY DEF PagesInv, CursorOK
  <1>12. page.at \in {"start", "next"} /\ seen \in [Item -> Nat] /\ place \in [Item -> Nat]
    BY <1>2 DEF PagesInv, PagesType
  <1>13. ASSUME ~slips.jumped
         PROVE  /\ \A i \in T \cap same' : seen[i] = 0
                /\ \A i \in same' : page'.seen[i] <= 1
    <2>1. ASSUME NEW i \in T \cap same' PROVE seen[i] = 0
      <3>1. CASE start
        BY <1>6, <1>10, <3>1
      <3>2. CASE page.at = "next"
        <4>1. i \in same /\ i \in Item /\ i \in Open
          BY <1>2, <1>6, <2>1, <3>2
        <4>2. place[i] < place[c] /\ c \in Item
          BY <1>9, <3>2, <4>1 DEF PagesInv, CursorOK
        <4>3. seen[i] \in Nat /\ seen[i] <= 1 /\ seen[i] # 1
          BY <1>11, <1>12, <1>13, <3>2, <4>1, <4>2
        <4>4. QED BY <4>3
      <3>3. QED BY <1>12, <3>1, <3>2
    <2>2. ASSUME NEW i \in same' PROVE page'.seen[i] <= 1
      <3>1. i \in Item /\ seen[i] <= 1
        BY <1>2, <1>3, <1>10, <1>11, <1>12, <1>13
      <3>2. QED BY <1>7, <2>1, <3>1
    <2>3. QED BY <2>1, <2>2
  <1> DEFINE Left == {i \in same' \ secret : page'.seen[i] = 0 /\ i \notin Open}
  <1>14. ASSUME ~slips.jumped, ~slips'.cut PROVE Cardinality(Left) <= slips'.lost
    <2>1. Left \subseteq (IF start THEN P!Listed ELSE same) \ secret
      BY <1>2
    <2>2. \A i \in Left : seen[i] = 0 /\ i \notin Open
      BY <1>3, <1>6, <1>7
    <2> HIDE DEF Left
    <2>3. page.at = "next" => state[c] # "deleted"
      BY <1>8, <1>14
    <2>4. QED BY <1>2, <1>8, <1>14, <2>1, <2>2, <2>3, RowsLost DEF PagesInv
  <1>15. ASSUME more PROVE CursorOK'
    <2>1. T # {}
      BY <1>5, <1>6, <1>15, FS_EmptySet
    <2>2. PICK d : d = P!Last(T) /\ d = page'.cursor
      BY <1>7, <1>15, <2>1
    <2>3. d \in T /\ \A j \in T : place[d] <= place[j]
      <3>1. \A i \in T : place[i] \in Nat
        BY <1>6, <1>12
      <3>2. QED BY <1>6, <2>1, <2>2, <3>1, LastOf
    <2>4. d \in Item /\ state[d] = "in" /\ d \in Open
      BY <1>3, <1>6, <2>3
    <2>5. ASSUME ~slips.jumped, NEW i \in same', page'.seen[i] = 1 PROVE place[i] >= place[d]
      <3>1. i \in Item /\ place[i] \in Nat /\ place[d] \in Nat
        BY <1>3, <1>12, <2>4
      <3>2. CASE i \in T
        BY <2>3, <3>1, <3>2
      <3>3. CASE i \notin T
        <4>1. seen[i] = 1
          BY <1>7, <2>5, <3>1, <3>3
        <4>2. page.at = "next" /\ i \in same
          BY <1>2, <1>10, <1>12, <3>1, <4>1
        <4>3. place[d] < place[c] /\ place[i] >= place[c] /\ c \in Item
          BY <1>9, <1>11, <2>4, <2>5, <4>1, <4>2 DEF PagesInv, CursorOK
        <4>4. QED BY <1>12, <3>1, <4>3
      <3>4. QED BY <3>2, <3>3
    <2>6. ~slips.jumped /\ d \in same' => page'.seen[d] = 1
      BY <1>7, <1>13, <2>3
    <2>7. ASSUME ~slips.jumped, ~slips'.cut PROVE Cardinality(Passed') <= slips'.lost
      <3>1. F \cap secret = {} /\ shown = F
        BY <1>6, <1>8, <1>15, <2>7
      <3>2. Passed' \subseteq Left
        <4> SUFFICES ASSUME NEW i \in Passed' PROVE i \notin Open
          BY <1>2 DEF Passed
        <4>1. i \in same' /\ page'.seen[i] = 0 /\ place[i] > place[d] /\ i \in Item
          BY <1>2, <1>3, <2>2 DEF Passed
        <4>2. i \notin T
          BY <1>6, <1>7, <1>12, <4>1
        <4>3. i \notin F
          <5>1. i \in F => place[d] >= place[i]
            BY <1>5, <2>3, <3>1, <4>2
          <5>2. QED BY <1>12, <2>4, <4>1, <5>1
        <4>4. i \in Open => place[d] >= place[i]
          BY <1>4, <1>5, <1>6, <2>3, <4>3
        <4>5. QED BY <1>12, <2>4, <4>1, <4>4
      <3>3. Left \subseteq Item
        BY <1>3
      <3>4. Cardinality(Passed') <= Cardinality(Left) /\ Cardinality(Left) <= slips'.lost
        BY <1>14, <2>7, <3>2, <3>3, Fewer
      <3>5. Cardinality(Passed') \in Nat /\ Cardinality(Left) \in Nat /\ slips'.lost \in Nat
        <4>1. Passed' \subseteq Item
          BY <3>2, <3>3
        <4>2. QED BY <1>8, <3>3, <4>1, ItemsAreFinite DEF PagesInv, PagesType
      <3>6. QED BY <3>4, <3>5
    <2>8. QED BY <1>2, <1>8, <1>13, <2>2, <2>4, <2>5, <2>6, <2>7 DEF CursorOK
  <1>16. ASSUME ~more PROVE P!PagesAreComplete'
    <2>1. ~slips.jumped => P!Twice' = {}
      BY <1>3, <1>7, <1>13 DEF P!Twice
    <2>2. ASSUME ~slips.jumped, ~slips'.cut PROVE Cardinality(P!Missed') <= slips'.lost
      <3>1. T = shown
        BY <1>5, <1>6, <1>16, Fewer
      <3>2. Cardinality(F) <= Limit
        <4>1. CASE Cardinality(F) > Limit
          <5>1. shown = F
            BY <1>8, <2>2, <4>1
          <5>2. QED BY <1>16, <4>1, <5>1
        <4>2. QED BY <1>6, <4>1
      <3>3. F = Open
        BY <1>4, <1>6, <3>2, Fewer
      <3>4. P!Missed' \subseteq Left
        BY <1>2, <1>3, <1>7, <1>12, <3>1, <3>3 DEF P!Missed
      <3>5. Left \subseteq Item /\ P!Missed' \subseteq Item
        BY <1>3, <3>4
      <3>6. Cardinality(P!Missed') <= Cardinality(Left) /\ Cardinality(Left) <= slips'.lost
        BY <1>14, <2>2, <3>4, <3>5, Fewer
      <3>7. Cardinality(P!Missed') \in Nat /\ Cardinality(Left) \in Nat /\ slips'.lost \in Nat
        BY <1>8, <3>5, ItemsAreFinite DEF PagesInv, PagesType
      <3>8. QED BY <3>6, <3>7
    <2>3. QED BY <1>2, <1>8, <2>1, <2>2, SameCardinality DEF P!PagesAreComplete
  <1>17. ASSUME more PROVE P!PagesAreComplete'
    BY <1>7, <1>17 DEF P!PagesAreComplete
  <1>18. ASSUME ~more PROVE CursorOK'
    BY <1>7, <1>18 DEF CursorOK
  <1>19. QED BY <1>15, <1>16, <1>17, <1>18

\* Open page by time.
LEMMA TimesPage ==
  ASSUME PagesInv, P!NextPage, list.by = "time"
  PROVE  TimesOK' /\ P!PagesAreComplete'
  <1> DEFINE seen == page.seen
             Open == P!Ahead
             start == page.at = "start"
  <1>1. PICK T : /\ T \in P!Tops(Limit, Open)
                 /\ P!Show(T, T # {}, IF T = {} THEN 0 ELSE place[P!Last(T)])
                 /\ slips' = slips
    BY DEF P!NextPage, P!TakeByTime
  <1>2. /\ same' = IF start THEN P!Listed ELSE same
        /\ UNCHANGED <<list, state, place, secret>> /\ page.at \in {"start", "next"}
        /\ seen \in [Item -> Nat] /\ place \in [Item -> Nat]
    BY DEF P!NextPage, PagesInv, PagesType
  <1>3. /\ P!Listed \subseteq Item /\ Open \subseteq P!Listed /\ same' \subseteq P!Listed
        /\ \A i \in P!Listed : state[i] = "in"
        /\ start => Open = P!Listed
        /\ page.at = "next" => Open = {i \in P!Listed : place[i] < page.cursor}
    BY <1>2 DEF P!Ahead, PagesInv, PagesType, P!Listed
  <1>4. /\ T \subseteq Open /\ \A i \in T, j \in Open \ T : place[i] >= place[j]
        /\ Cardinality(T) = IF Cardinality(Open) < Limit THEN Cardinality(Open) ELSE Limit
    <2>1. Open \subseteq Item /\ Limit \in Nat
      BY <1>3, SizesAreNumbers
    <2>2. QED BY <1>1, <2>1, TopsOf
  <1>5. T \subseteq Item /\ (T = {} => Open = {})
    <2>1. T \subseteq Item /\ Open \subseteq Item
      BY <1>3, <1>4
    <2>2. T = {} => Cardinality(T) = 0
      BY FS_EmptySet
    <2>3. T = {} => Cardinality(Open) = 0
      BY <1>4, <2>1, <2>2, ItemsAreFinite, SizesAreNumbers
    <2>4. Cardinality(Open) = 0 => Open = {}
      BY <2>1, ItemsAreFinite, FS_EmptySet
    <2>5. QED BY <2>1, <2>3, <2>4
  <1>6. /\ page'.at = IF T # {} THEN "next" ELSE "end"
        /\ T # {} => page'.cursor = place[P!Last(T)]
        /\ page'.seen \in [Item -> Nat]
        /\ \A i \in T : page'.seen[i] = seen[i] + 1
        /\ \A i \in Item \ T : page'.seen[i] = seen[i]
    <2>1. PagesType /\ (T # {}) \in BOOLEAN
      BY DEF PagesInv
    <2>2. P!Show(T, T # {}, IF T = {} THEN 0 ELSE place[P!Last(T)])
      BY <1>1
    <2>3. PICK more \in BOOLEAN : more = (T # {})
      OBVIOUS
    <2>4. PICK d : d = IF T = {} THEN 0 ELSE place[P!Last(T)]
      OBVIOUS
    <2>5. P!Show(T, more, d)
      BY <2>2, <2>3, <2>4
    <2>6. QED BY <1>5, <2>1, <2>3, <2>4, <2>5, ShowFacts
  <1>7. start => \A i \in Item : seen[i] = 0
    BY DEF PagesInv, Unread
  <1>8. page.at = "next" =>
          /\ page.cursor \in Nat
          /\ \A i \in Item : seen[i] <= 1 /\ (seen[i] = 1 => place[i] >= page.cursor /\ state[i] # "unmade")
          /\ \A i \in same : seen[i] = 0 /\ place[i] >= page.cursor =>
               \E j \in Item : seen[j] = 1 /\ place[j] = place[i]
    BY DEF PagesInv, TimesOK
  <1>9. \A i \in T : seen[i] = 0
    BY <1>2, <1>3, <1>4, <1>7, <1>8
  <1>10. \A i \in Item : page'.seen[i] <= 1
    BY <1>2, <1>6, <1>7, <1>8, <1>9
  <1>11. ASSUME NEW i \in same', i \notin Open, page'.seen[i] = 0
         PROVE  \E j \in Item : page'.seen[j] = 1 /\ place[j] = place[i]
    <2>1. page.at = "next" /\ i \in same /\ i \in Item /\ place[i] >= page.cursor /\ seen[i] = 0
      BY <1>2, <1>3, <1>4, <1>6, <1>8, <1>11
    <2>2. PICK j \in Item : seen[j] = 1 /\ place[j] = place[i]
      BY <1>8, <2>1
    <2>3. page'.seen[j] = 1
      BY <1>6, <1>9, <2>2
    <2>4. QED BY <2>2, <2>3
  <1>12. ASSUME T # {} PROVE TimesOK'
    <2>1. PICK d : d = P!Last(T) /\ page'.cursor = place[d]
      BY <1>6, <1>12
    <2>2. d \in T /\ \A j \in T : place[d] <= place[j]
      <3>1. \A i \in T : place[i] \in Nat
        BY <1>2, <1>5
      <3>2. QED BY <1>5, <1>12, <2>1, <3>1, LastOf
    <2>3. d \in Item /\ d \in Open /\ place[d] \in Nat
      BY <1>2, <1>4, <1>5, <2>2
    <2>4. ASSUME NEW i \in Item, page'.seen[i] = 1 PROVE place[i] >= place[d] /\ state[i] # "unmade"
      <3>1. CASE i \in T
        BY <1>3, <1>4, <2>2, <3>1
      <3>2. CASE i \notin T
        <4>1. seen[i] = 1 /\ page.at = "next"
          BY <1>2, <1>6, <1>7, <2>4, <3>2
        <4>2. place[d] < page.cursor
          BY <1>3, <2>3, <4>1
        <4>3. QED BY <1>2, <1>8, <2>3, <4>1, <4>2
      <3>3. QED BY <3>1, <3>2
    <2>5. ASSUME NEW i \in same', page'.seen[i] = 0, place[i] >= place[d]
          PROVE  \E j \in Item : page'.seen[j] = 1 /\ place[j] = place[i]
      <3>1. CASE i \in Open
        <4>1. i \notin T /\ i \in Item
          BY <1>2, <1>3, <1>5, <1>6, <2>5
        <4>2. place[d] = place[i]
          BY <1>2, <1>4, <2>2, <2>3, <2>5, <3>1, <4>1
        <4>3. page'.seen[d] = 1
          BY <1>6, <1>9, <2>2
        <4>4. QED BY <2>3, <4>2, <4>3
      <3>2. QED BY <1>11, <2>5, <3>1
    <2>6. QED BY <1>2, <1>10, <2>1, <2>3, <2>4, <2>5 DEF TimesOK
  <1>13. ASSUME T = {} PROVE P!PagesAreComplete'
    <2>1. P!Twice' = {}
      BY <1>3, <1>6, <1>10 DEF P!Twice
    <2>2. ASSUME NEW i \in P!Missed' PROVE \E j \in Item : page'.seen[j] = 1 /\ place[j] = place[i]
      BY <1>5, <1>11, <1>13, <2>2 DEF P!Missed
    <2>3. QED BY <1>2, <2>1, <2>2 DEF P!PagesAreComplete
  <1>14. ASSUME T # {} PROVE P!PagesAreComplete'
    BY <1>6, <1>14 DEF P!PagesAreComplete
  <1>15. ASSUME T = {} PROVE TimesOK'
    BY <1>6, <1>15 DEF TimesOK
  <1>16. QED BY <1>12, <1>13, <1>14, <1>15

-----------------------------------------------------------------------------
\* In an offset list, the part that has been read is that of the first rows.
LEMMA PartIsFirst ==
  ASSUME PagesType, page.cursor \in Nat
  PROVE  \A i \in P!Listed : InPart(i) <=> i \in First(page.cursor, P!Listed)
  <1> TAKE i \in P!Listed
  <1>1. {j \in P!Listed \ {i} : place[j] > place[i]} = {j \in P!Listed : place[j] > place[i]}
    BY DEF PagesType, P!Listed
  <1>2. QED BY <1>1, SameCardinality DEF InPart, P!InPart, First

LEMMA ListedApart ==
  ASSUME PagesType, PlacesApart, list.by # "time"
  PROVE  P!Listed \subseteq Item /\ (\A i \in P!Listed : place[i] \in Nat) /\ Apart(P!Listed)
  BY DEF PagesType, PlacesApart, P!Listed, Apart, There

Unseen == {i \in same : page.seen[i] = 0 /\ InPart(i)}
Anew == {i \in same : page.seen[i] > 1 \/ (page.seen[i] = 1 /\ ~InPart(i))}

LEMMA OffsetsPage ==
  ASSUME PagesInv, P!NextPage, list.by = "offset"
  PROVE  OffsetsOK' /\ P!PagesAreComplete'
  <1> DEFINE seen == page.seen
             Open == P!Ahead
             L == P!Listed
             start == page.at = "start"
             k == page.cursor
             more == Cardinality(Open) > Limit
  <1>1. PICK T : /\ T \in P!Tops(Limit, Open)
                 /\ P!Show(T, more, k + Limit)
                 /\ slips' = slips
    BY SameCardinality DEF P!NextPage, P!Slice
  <1>2. /\ same' = IF start THEN L ELSE same
        /\ UNCHANGED <<list, state, place, secret>> /\ page.at \in {"start", "next"}
        /\ seen \in [Item -> Nat] /\ place \in [Item -> Nat] /\ k \in Nat
        /\ slips.lost \in Nat /\ slips.again \in Nat
    BY DEF P!NextPage, PagesInv, PagesType, Unread, OffsetsOK
  <1>3. /\ L \subseteq Item /\ (\A i \in L : place[i] \in Nat) /\ Apart(L) /\ same' \subseteq L /\ same \subseteq L
    <2>1. L \subseteq Item /\ (\A i \in L : place[i] \in Nat) /\ Apart(L)
      BY ListedApart DEF PagesInv
    <2>2. QED BY <1>2, <2>1 DEF PagesInv, PagesType
  <1>4. First(k, L) \in P!Tops(k, L) /\ \A U \in P!Tops(k, L) : U = First(k, L)
    BY <1>2, <1>3, TopsAreFirst
  <1>5. Open = L \ First(k, L)
    <2>1. CASE start
      <3>1. k = 0 /\ Open = L
        BY <2>1 DEF PagesInv, Unread, P!Ahead
      <3>2. First(0, L) = {}
        <4> SUFFICES ASSUME NEW i \in First(0, L) PROVE FALSE
          OBVIOUS
        <4>1. {j \in L : place[j] > place[i]} \subseteq Item
          BY <1>3
        <4>2. QED BY <4>1, ItemsAreFinite DEF First
      <3>3. QED BY <3>1, <3>2
    <2>2. CASE page.at = "next"
      <3>1. Open = L \ UNION P!Tops(k, L)
        BY <2>2 DEF P!Ahead
      <3>2. UNION P!Tops(k, L) = First(k, L)
        BY <1>4
      <3>3. QED BY <3>1, <3>2
    <2>3. QED BY <1>2, <2>1, <2>2
  <1> DEFINE B == First(k, L)
  <1>6. /\ B \subseteq L /\ \A i \in B, j \in L \ B : place[i] >= place[j]
        /\ Cardinality(B) = IF Cardinality(L) < k THEN Cardinality(L) ELSE k
    BY <1>2, <1>3, <1>4, TopsOf
  <1>7. /\ T \subseteq Open /\ \A i \in T, j \in Open \ T : place[i] >= place[j]
        /\ Cardinality(T) = IF Cardinality(Open) < Limit THEN Cardinality(Open) ELSE Limit
    <2>1. Open \subseteq Item /\ Limit \in Nat
      BY <1>3, <1>5, SizesAreNumbers
    <2>2. QED BY <1>1, <2>1, TopsOf
  <1> HIDE DEF Open, B
  <1>8. /\ Open \subseteq L /\ Open \cap B = {} /\ L = Open \cup B /\ T \subseteq Item /\ Open \subseteq Item /\ B \subseteq Item
        /\ Cardinality(Open) \in Nat /\ Cardinality(B) \in Nat /\ Cardinality(T) \in Nat /\ Cardinality(L) \in Nat
        /\ Limit \in Nat \ {0}
    <2>1. Open \subseteq L /\ Open \cap B = {} /\ L = Open \cup B
      BY <1>5, <1>6 DEF B
    <2>2. T \subseteq Item /\ Open \subseteq Item /\ B \subseteq Item
      BY <1>3, <1>7, <2>1
    <2>3. QED BY <1>3, <2>1, <2>2, ItemsAreFinite, SizesAreNumbers
  <1>9. /\ page'.at = IF more THEN "next" ELSE "end"
        /\ more => page'.cursor = k + Limit
        /\ page'.seen \in [Item -> Nat]
        /\ \A i \in T : page'.seen[i] = seen[i] + 1
        /\ \A i \in Item \ T : page'.seen[i] = seen[i]
    <2>1. PagesType /\ more \in BOOLEAN
      BY DEF PagesInv
    <2>2. P!Show(T, more, k + Limit)
      BY <1>1
    <2> HIDE DEF more
    <2>3. QED BY <1>8, <2>1, <2>2, ShowFacts
  <1>10. start => \A i \in Item : seen[i] = 0
    BY DEF PagesInv, Unread
  <1>11. /\ page.at = "next" => Cardinality(Unseen) <= slips.lost /\ Cardinality(Anew) <= slips.again
         /\ \A i \in L : InPart(i) <=> i \in B
    BY <1>2, PartIsFirst DEF PagesInv, OffsetsOK, Unseen, Anew, B
  <1>12. ASSUME NEW X, X \subseteq same', \A i \in X : seen[i] = 0 /\ i \notin Open
         PROVE  Cardinality(X) <= slips.lost
    <2>1. CASE start
      <3>1. X = {} \/ X \subseteq B
        BY <1>3, <1>8, <1>12
      <3>2. B = {}
        <4>1. k = 0
          BY <2>1 DEF PagesInv, Unread
        <4>2. Cardinality(B) = 0
          BY <1>6, <1>8, <4>1
        <4>3. QED BY <1>8, <4>2, ItemsAreFinite, FS_EmptySet
      <3>3. X = {}
        BY <3>1, <3>2
      <3>4. QED BY <1>2, <3>3, FS_EmptySet
    <2>2. CASE page.at = "next"
      <3>1. X \subseteq Unseen /\ Unseen \subseteq Item
        BY <1>2, <1>3, <1>8, <1>11, <1>12, <2>2 DEF Unseen
      <3>2. Cardinality(X) <= Cardinality(Unseen) /\ Cardinality(X) \in Nat /\ Cardinality(Unseen) \in Nat
        <4>1. X \subseteq Item
          BY <3>1
        <4>2. QED BY <3>1, <4>1, Fewer, ItemsAreFinite
      <3>3. QED BY <1>2, <1>11, <2>2, <3>2
    <2>3. QED BY <1>2, <2>1, <2>2
  <1>13. ASSUME NEW X, X \subseteq same',
                \A i \in X : page'.seen[i] > 1 \/ (page'.seen[i] = 1 /\ i \notin B /\ i \notin T)
         PROVE  Cardinality(X) <= slips.again
    <2>1. \A i \in X : i \in Item /\ (seen[i] > 1 \/ (seen[i] = 1 /\ i \notin B))
      <3> TAKE i \in X
      <3>1. i \in L /\ i \in Item /\ seen[i] \in Nat
        BY <1>2, <1>3, <1>13
      <3>2. CASE i \in T
        BY <1>7, <1>8, <1>9, <1>13, <3>1, <3>2
      <3>3. CASE i \notin T
        BY <1>9, <1>13, <3>1, <3>3
      <3>4. QED BY <3>2, <3>3
    <2>2. CASE start
      <3>1. X = {}
        BY <1>10, <2>1, <2>2
      <3>2. QED BY <1>2, <3>1, FS_EmptySet
    <2>3. CASE page.at = "next"
      <3>1. X \subseteq Anew /\ Anew \subseteq Item
        BY <1>2, <1>3, <1>8, <1>11, <1>13, <2>1, <2>3 DEF Anew
      <3>2. Cardinality(X) <= Cardinality(Anew) /\ Cardinality(X) \in Nat /\ Cardinality(Anew) \in Nat
        <4>1. X \subseteq Item
          BY <3>1
        <4>2. QED BY <3>1, <4>1, Fewer, ItemsAreFinite
      <3>3. QED BY <1>2, <1>11, <2>3, <3>2
    <2>4. QED BY <1>2, <2>2, <2>3
  <1>14. ASSUME more PROVE OffsetsOK'
    <2>1. B \cup T = First(k + Limit, L)
      <3>1. Cardinality(B \cup T) = Cardinality(B) + Cardinality(T) /\ Cardinality(L) = Cardinality(Open) + Cardinality(B)
        <4>1. IsFiniteSet(Open) /\ IsFiniteSet(B) /\ IsFiniteSet(T) /\ B \cap T = {}
          BY <1>7, <1>8, ItemsAreFinite
        <4>2. Cardinality(B \cup T) = Cardinality(B) + Cardinality(T)
          BY <4>1, DisjointUnion
        <4>3. QED BY <1>8, <4>1, <4>2, DisjointUnion
      <3>2. Cardinality(B) = k /\ Cardinality(T) = Limit
        BY <1>2, <1>6, <1>7, <1>8, <1>14, <3>1
      <3>3. Cardinality(B \cup T) = k + Limit /\ ~(Cardinality(L) < k + Limit)
        BY <1>2, <1>8, <1>14, <3>1, <3>2
      <3>4. B \cup T \subseteq L /\ \A i \in B \cup T, j \in L \ (B \cup T) : place[i] >= place[j]
        BY <1>6, <1>7, <1>8
      <3>5. k + Limit \in Nat
        BY <1>2, <1>8
      <3>6. B \cup T \in P!Tops(k + Limit, L)
        BY <1>3, <3>3, <3>4, <3>5, TopsOf
      <3>7. QED BY <1>3, <3>5, <3>6, TopsAreFirst
    <2>2. \A i \in L : InPart(i)' <=> i \in B \cup T
      <3>1. page'.cursor = k + Limit /\ L' = L
        BY <1>2, <1>9, <1>14 DEF P!Listed
      <3>2. ASSUME NEW i \in L PROVE InPart(i)' <=> i \in First(k + Limit, L)
        <4>1. {j \in L \ {i} : place[j] > place[i]} = {j \in L : place[j] > place[i]}
          BY <1>3
        <4>2. InPart(i)' <=> Cardinality({j \in L \ {i} : place[j] > place[i]}) < k + Limit
          BY <1>2, <3>1, SameCardinality DEF InPart, P!InPart
        <4>3. QED BY <4>1, <4>2 DEF First
      <3>3. QED BY <2>1, <3>2
    <2>3. Cardinality(Unseen') <= slips.lost
      <3>1. Unseen' \subseteq same'
        BY DEF Unseen
      <3>2. ASSUME NEW i \in Unseen' PROVE seen[i] = 0 /\ i \notin Open
        <4>1. i \in same' /\ page'.seen[i] = 0 /\ i \in B \cup T
          BY <1>3, <2>2, <3>2 DEF Unseen
        <4>2. i \notin T /\ i \in Item
          BY <1>2, <1>3, <1>8, <1>9, <4>1
        <4>3. QED BY <1>8, <1>9, <4>1, <4>2
      <3>3. QED BY <1>12, <3>1, <3>2
    <2>4. Cardinality(Anew') <= slips.again
      <3>1. Anew' \subseteq same'
        BY DEF Anew
      <3>2. \A i \in Anew' : page'.seen[i] > 1 \/ (page'.seen[i] = 1 /\ i \notin B /\ i \notin T)
        BY <1>3, <2>2 DEF Anew
      <3>3. QED BY <1>13, <3>1, <3>2
    <2>5. page'.cursor \in Nat
      BY <1>2, <1>8, <1>9, <1>14
    <2>6. QED BY <1>1, <2>3, <2>4, <2>5 DEF OffsetsOK, Unseen, Anew
  <1>15. ASSUME ~more PROVE P!PagesAreComplete'
    <2>1. T = Open
      BY <1>7, <1>8, <1>15, Fewer
    <2>2. Cardinality(P!Missed') <= slips.lost
      <3>1. P!Missed' \subseteq same'
        BY DEF P!Missed
      <3>2. \A i \in P!Missed' : seen[i] = 0 /\ i \notin Open
        BY <1>2, <1>3, <1>8, <1>9, <2>1 DEF P!Missed
      <3>3. QED BY <1>12, <3>1, <3>2
    <2>3. Cardinality(P!Twice') <= slips.again
      <3>1. P!Twice' \subseteq same' /\ \A i \in P!Twice' : page'.seen[i] > 1
        BY DEF P!Twice
      <3>2. QED BY <1>13, <3>1
    <2>4. QED BY <1>1, <1>2, <2>2, <2>3, SameCardinality DEF P!PagesAreComplete
  <1>16. ASSUME more PROVE P!PagesAreComplete'
    BY <1>9, <1>16 DEF P!PagesAreComplete
  <1>17. ASSUME ~more PROVE OffsetsOK'
    BY <1>9, <1>17 DEF OffsetsOK
  <1>18. QED BY <1>14, <1>15, <1>16, <1>17
\* A page of any list.
LEMMA PagesRead ==
  ASSUME PagesInv, P!NextPage
  PROVE  PagesInv'
  <1>0. list.by \in {"row", "time", "offset"} /\ UNCHANGED <<list, state, place, secret>> /\ PagesType
    BY DEF P!NextPage, PagesInv, PagesType
  <1>1. /\ page'.at \in {"next", "end"} /\ page'.seen \in [Item -> Nat]
        /\ slips' \in [changes : Nat, lost : Nat, again : Nat, cut : BOOLEAN, jumped : BOOLEAN]
    <2>1. CASE list.by = "row"
      <3>1. PICK F, T, more, c :
              /\ P!Show(T, more, c)
              /\ slips' = [slips EXCEPT
                   !.lost = @ + (IF page.at = "next" /\ state[page.cursor] = "out" THEN 1 ELSE 0),
                   !.cut  = @ \/ (page.at = "next" /\ state[page.cursor] = "deleted")
                              \/ (P!Cardinality(F) > Limit /\ F \cap secret # {})]
        BY <2>1 DEF P!NextPage, P!BuildCursorPage
      <3>2. PICK d \in Nat : d = IF page.at = "next" /\ state[page.cursor] = "out" THEN 1 ELSE 0
        OBVIOUS
      <3>3. PICK cut \in BOOLEAN : cut = (slips.cut \/ (page.at = "next" /\ state[page.cursor] = "deleted")
                                                  \/ (P!Cardinality(F) > Limit /\ F \cap secret # {}))
        OBVIOUS
      <3>4. PICK n \in Nat : n = slips.lost + d
        BY <1>0, <3>2 DEF PagesType
      <3>5. slips' = [slips EXCEPT !.lost = n, !.cut = cut]
        BY <3>1, <3>2, <3>3, <3>4
      <3>8. slips' \in [changes : Nat, lost : Nat, again : Nat, cut : BOOLEAN, jumped : BOOLEAN]
        BY <1>0, <3>3, <3>4, <3>5 DEF PagesType
      <3>6. page'.at \in {"next", "end"} /\ page'.seen \in [Item -> Nat]
        BY <1>0, <3>1 DEF P!Show, PagesType
      <3>7. QED BY <3>6, <3>8
    <2>2. CASE list.by = "time"
      BY <1>0, <2>2 DEF P!NextPage, P!TakeByTime, P!Show, PagesType
    <2>3. CASE list.by = "offset"
      BY <1>0, <2>3 DEF P!NextPage, P!Slice, P!Show, PagesType
    <2>4. QED BY <1>0, <2>1, <2>2, <2>3
  <1>2. same' \subseteq P!Listed /\ P!Listed' = P!Listed
    BY <1>0 DEF P!NextPage, P!Listed, PagesType
  <1>3. PagesType' /\ PlacesApart' /\ Unread'
    BY <1>0, <1>1, <1>2 DEF PagesInv, PagesType, PlacesApart, There, Unread
  <1>4. CASE list.by = "row"
    BY <1>0, <1>3, <1>4, RowsPage DEF PagesInv, TimesOK, OffsetsOK
  <1>5. CASE list.by = "time"
    BY <1>0, <1>3, <1>5, TimesPage DEF PagesInv, CursorOK, OffsetsOK
  <1>6. CASE list.by = "offset"
    BY <1>0, <1>3, <1>6, OffsetsPage DEF PagesInv, CursorOK, TimesOK
  <1>7. QED BY <1>0, <1>4, <1>5, <1>6

-----------------------------------------------------------------------------
\* The rows of S above row y.
Above(S, y, pl) == {j \in S : pl[j] > pl[y]}

LEMMA HigherHasFewer ==
  ASSUME NEW S, S \subseteq Item, NEW pl \in [Item -> Nat], NEW x \in Item, NEW y \in S, pl[y] > pl[x]
  PROVE  Cardinality(Above(S, y, pl)) + 1 <= Cardinality(Above(S, x, pl))
  <1> DEFINE U == Above(S, y, pl)
             V == Above(S, x, pl)
  <1>1. y \in Item /\ pl[x] \in Nat /\ pl[y] \in Nat /\ \A j \in S : pl[j] \in Nat
    OBVIOUS
  <1>2. U \cup {y} \subseteq V /\ y \notin U /\ V \subseteq Item /\ U \subseteq Item
    BY <1>1 DEF Above
  <1> HIDE DEF U, V
  <1>3. Cardinality(U \cup {y}) = Cardinality(U) + 1
    BY <1>2, ItemsAreFinite, FS_AddElement
  <1>4. Cardinality(U \cup {y}) <= Cardinality(V)
    BY <1>2, Fewer
  <1>5. QED BY <1>3, <1>4 DEF U, V

\* Row i takes one of the first k places, if there are less than k above it: the others then have one
\* less to share.
LEMMA PartWithRow ==
  ASSUME NEW N, N \subseteq Item, NEW i \in Item, i \notin N, NEW pl \in [Item -> Nat], NEW k \in Nat,
         \A x, y \in N \cup {i} : pl[x] = pl[y] => x = y, NEW y \in N
  PROVE  Cardinality(Above(N \cup {i}, y, pl)) < k <=>
           Cardinality(Above(N, y, pl)) < IF Cardinality(Above(N, i, pl)) < k THEN k - 1 ELSE k
  <1> DEFINE a == Cardinality(Above(N, y, pl))
             b == Cardinality(Above(N, i, pl))
             c == Cardinality(Above(N \cup {i}, y, pl))
  <1>1. /\ Above(N, y, pl) \subseteq Item /\ Above(N, i, pl) \subseteq Item /\ y \in Item /\ y # i
        /\ pl[i] \in Nat /\ pl[y] \in Nat /\ pl[i] # pl[y]
    BY DEF Above
  <1>2. a \in Nat /\ b \in Nat
    BY <1>1, ItemsAreFinite
  <1>3. CASE pl[i] > pl[y]
    <2>1. Above(N \cup {i}, y, pl) = Above(N, y, pl) \cup {i} /\ i \notin Above(N, y, pl)
      BY <1>3 DEF Above
    <2>2. c = a + 1
      BY <1>1, <2>1, ItemsAreFinite, FS_AddElement
    <2>3. b <= a
      <3>1. Above(N, i, pl) \subseteq Above(N, y, pl)
        BY <1>1, <1>3 DEF Above
      <3>2. QED BY <1>1, <3>1, Fewer
    <2> HIDE DEF a, b, c
    <2>4. c < k <=> a < IF b < k THEN k - 1 ELSE k
      BY <1>2, <2>2, <2>3
    <2>5. QED BY <2>4 DEF a, b, c
  <1>4. CASE pl[y] > pl[i]
    <2>1. Above(N \cup {i}, y, pl) = Above(N, y, pl)
      BY <1>1, <1>4 DEF Above
    <2>2. c = a
      BY <2>1
    <2>3. a + 1 <= b
      BY <1>4, HigherHasFewer
    <2> HIDE DEF a, b, c
    <2>4. c < k <=> a < IF b < k THEN k - 1 ELSE k
      BY <1>2, <2>2, <2>3
    <2>5. QED BY <2>4 DEF a, b, c
  <1>5. QED BY <1>1, <1>3, <1>4

\* Row i goes to state s and place p while the client reads.
RowChange(i, s, p) ==
  /\ P!Reading /\ P!Changed(i, s, p)
  /\ s \in {"in", "out", "deleted"} /\ p \in Nat /\ state[i] # "deleted" /\ (state[i] = "unmade" => s = "in")
  /\ s \in {"in", "out"} => \A j \in Item \ {i} : There(j) => place[j] # p
  /\ list.by = "time" /\ state[i] # "unmade" => p = place[i]

LEMMA ChangeFacts ==
  ASSUME PagesInv, NEW i \in Item, NEW s, NEW p, RowChange(i, s, p)
  PROVE  /\ UNCHANGED <<list, secret, page>> /\ same' = same \ {i} /\ page.at = "next"
         /\ state'[i] = s /\ place'[i] = p
         /\ \A j \in Item \ {i} : state'[j] = state[j] /\ place'[j] = place[j]
         /\ PagesType /\ PagesType' /\ PlacesApart' /\ Unread'
         /\ slips'.jumped = (slips.jumped \/ (list.by = "row" /\ i = page.cursor /\ p # place[i]))
         /\ slips'.cut = slips.cut
         /\ list.by # "offset" => slips'.lost = slips.lost
  <1>1. PagesType /\ PlacesApart
    BY DEF PagesInv
  <1>2. /\ UNCHANGED <<list, secret, page>> /\ same' = same \ {i} /\ page.at = "next"
        /\ state' = [state EXCEPT ![i] = s] /\ place' = [place EXCEPT ![i] = p]
    BY DEF RowChange, P!Changed, P!Reading
  <1>3. /\ state'[i] = s /\ place'[i] = p
        /\ \A j \in Item \ {i} : state'[j] = state[j] /\ place'[j] = place[j]
        /\ state' \in [Item -> {"unmade", "in", "out", "deleted"}] /\ place' \in [Item -> Nat]
    BY <1>1, <1>2 DEF PagesType, RowChange
  <1>4. /\ slips'.jumped = (slips.jumped \/ (list.by = "row" /\ i = page.cursor /\ p # place[i]))
        /\ slips'.cut = slips.cut
        /\ list.by # "offset" => slips'.lost = slips.lost
        /\ slips' \in [changes : Nat, lost : Nat, again : Nat, cut : BOOLEAN, jumped : BOOLEAN]
    <2>1. PICK before \in BOOLEAN : before = (list.by = "offset" /\ state[i] = "in" /\ P!InPart(i, place[i]))
      OBVIOUS
    <2>2. PICK after \in BOOLEAN : after = (list.by = "offset" /\ s = "in" /\ P!InPart(i, p))
      OBVIOUS
    <2>3. slips' = [slips EXCEPT !.changes = @ + 1,
                                 !.lost = @ + (IF before /\ ~after THEN 1 ELSE 0),
                                 !.again = @ + (IF after /\ ~before THEN 1 ELSE 0),
                                 !.jumped = @ \/ (list.by = "row" /\ i = page.cursor /\ p # place[i])]
      BY <2>1, <2>2 DEF RowChange, P!Changed
    <2>4. PICK j \in BOOLEAN : j = (slips.jumped \/ (list.by = "row" /\ i = page.cursor /\ p # place[i]))
      OBVIOUS
    <2>5. slips' = [slips EXCEPT !.changes = @ + 1, !.lost = @ + (IF before /\ ~after THEN 1 ELSE 0),
                                 !.again = @ + (IF after /\ ~before THEN 1 ELSE 0), !.jumped = j]
      BY <2>3, <2>4
    <2>6. slips' \in [changes : Nat, lost : Nat, again : Nat, cut : BOOLEAN, jumped : BOOLEAN]
      <3>1. PICK n \in Nat : n = slips.changes + 1
        BY <1>1 DEF PagesType
      <3>2. PICK l \in Nat : l = slips.lost + (IF before /\ ~after THEN 1 ELSE 0)
        BY <1>1 DEF PagesType
      <3>3. PICK m \in Nat : m = slips.again + (IF after /\ ~before THEN 1 ELSE 0)
        BY <1>1 DEF PagesType
      <3>4. slips' = [slips EXCEPT !.changes = n, !.lost = l, !.again = m, !.jumped = j]
        BY <2>5, <3>1, <3>2, <3>3
      <3>5. QED BY <1>1, <2>4, <3>4 DEF PagesType
    <2>7. slips'.jumped = j /\ slips'.cut = slips.cut
      BY <1>1, <2>5 DEF PagesType
    <2>8. list.by # "offset" => slips'.lost = slips.lost
      BY <1>1, <2>1, <2>2, <2>5 DEF PagesType
    <2>9. QED BY <2>4, <2>6, <2>7, <2>8
  <1>5. same' \subseteq P!Listed'
    BY <1>1, <1>2, <1>3 DEF PagesType, P!Listed
  <1>6. PagesType'
    BY <1>1, <1>2, <1>3, <1>4, <1>5 DEF PagesType
  <1>7. PlacesApart'
    <2> SUFFICES ASSUME list.by # "time", NEW x \in Item, NEW y \in Item,
                        There(x)', There(y)', place'[x] = place'[y]
                 PROVE  x = y
      BY <1>2 DEF PlacesApart
    <2>1. CASE x = i \/ y = i
      BY <1>3, <2>1 DEF There, RowChange
    <2>2. CASE x # i /\ y # i
      BY <1>1, <1>3, <2>2 DEF There, PlacesApart
    <2>3. QED BY <2>1, <2>2
  <1>8. Unread'
    BY <1>2 DEF Unread
  <1>9. QED BY <1>1, <1>2, <1>3, <1>4, <1>6, <1>7, <1>8

LEMMA RowsChange ==
  ASSUME PagesInv, NEW i \in Item, NEW s, NEW p, RowChange(i, s, p), list.by = "row"
  PROVE  CursorOK'
  <1> DEFINE c == page.cursor
  <1>1. /\ UNCHANGED <<list, secret, page>> /\ same' = same \ {i} /\ page.at = "next"
        /\ state'[i] = s /\ place'[i] = p
        /\ \A j \in Item \ {i} : state'[j] = state[j] /\ place'[j] = place[j]
        /\ slips'.jumped = (slips.jumped \/ (i = c /\ p # place[i]))
        /\ slips'.cut = slips.cut /\ slips'.lost = slips.lost
    BY ChangeFacts
  <1>2. /\ c \in Item /\ state[c] # "unmade"
        /\ ~slips.jumped =>
             /\ \A j \in same : page.seen[j] <= 1 /\ (page.seen[j] = 1 => place[j] >= place[c])
             /\ c \in same => page.seen[c] = 1
             /\ ~slips.cut => Cardinality(Passed) <= slips.lost
    BY <1>1 DEF PagesInv, CursorOK
  <1>3. same \subseteq Item /\ slips.lost \in Nat
    BY DEF PagesInv, PagesType, P!Listed
  <1>4. state'[c] # "unmade"
    BY <1>1, <1>2 DEF RowChange
  <1>5. ASSUME ~slips'.jumped
        PROVE  /\ \A j \in same' : page.seen[j] <= 1 /\ (page.seen[j] = 1 => place'[j] >= place'[c])
               /\ c \in same' => page.seen[c] = 1
               /\ ~slips'.cut => Cardinality(Passed') <= slips'.lost
    <2>1. place'[c] = place[c] /\ ~slips.jumped
      BY <1>1, <1>2, <1>5
    <2>2. \A j \in same' : j \in same /\ place'[j] = place[j]
      BY <1>1, <1>3
    <2>3. Passed' \subseteq Passed /\ Passed \subseteq Item
      BY <1>1, <1>3, <2>1, <2>2 DEF Passed
    <2>4. Passed' \subseteq Item
      BY <2>3
    <2>5. Cardinality(Passed') <= Cardinality(Passed)
      BY <2>3, Fewer
    <2>6. ~slips'.cut => Cardinality(Passed') <= slips'.lost
      BY <1>1, <1>2, <1>3, <2>1, <2>3, <2>4, <2>5, ItemsAreFinite
    <2>7. QED BY <1>2, <2>1, <2>2, <2>6
  <1>6. QED BY <1>1, <1>2, <1>4, <1>5 DEF CursorOK

LEMMA TimesChange ==
  ASSUME PagesInv, NEW i \in Item, NEW s, NEW p, RowChange(i, s, p), list.by = "time"
  PROVE  TimesOK'
  <1>1. /\ UNCHANGED <<list, secret, page>> /\ same' = same \ {i} /\ page.at = "next"
        /\ state'[i] = s /\ place'[i] = p
        /\ \A j \in Item \ {i} : state'[j] = state[j] /\ place'[j] = place[j]
    BY ChangeFacts
  <1>2. /\ page.cursor \in Nat
        /\ \A j \in Item : page.seen[j] <= 1
             /\ (page.seen[j] = 1 => place[j] >= page.cursor /\ state[j] # "unmade")
        /\ \A j \in same : page.seen[j] = 0 /\ place[j] >= page.cursor =>
             \E k \in Item : page.seen[k] = 1 /\ place[k] = place[j]
    BY <1>1 DEF PagesInv, TimesOK
  <1>3. same \subseteq Item
    BY DEF PagesInv, PagesType, P!Listed
  <1>4. \A j \in Item : page.seen[j] = 1 => place'[j] = place[j] /\ state'[j] # "unmade"
    BY <1>1, <1>2 DEF RowChange
  <1>5. ASSUME NEW j \in same', page.seen[j] = 0, place'[j] >= page.cursor
        PROVE  \E k \in Item : page.seen[k] = 1 /\ place'[k] = place'[j]
    <2>1. j \in same /\ place'[j] = place[j]
      BY <1>1, <1>3, <1>5
    <2>2. PICK k \in Item : page.seen[k] = 1 /\ place[k] = place[j]
      BY <1>2, <1>5, <2>1
    <2>3. QED BY <1>4, <2>1, <2>2
  <1>6. QED BY <1>1, <1>2, <1>4, <1>5 DEF TimesOK

LEMMA OffsetsChange ==
  ASSUME PagesInv, NEW i \in Item, NEW s, NEW p, RowChange(i, s, p), list.by = "offset"
  PROVE  OffsetsOK'
  <1> DEFINE k == page.cursor
             N == P!Listed \ {i}
             a(y) == Cardinality(Above(N, y, place))
             before == state[i] = "in" /\ P!InPart(i, place[i])
             after == s = "in" /\ P!InPart(i, p)
             Old == IF before THEN k - 1 ELSE k
             New == IF after THEN k - 1 ELSE k
  <1>1. /\ UNCHANGED <<list, secret, page>> /\ same' = same \ {i} /\ page.at = "next"
        /\ state'[i] = s /\ place'[i] = p
        /\ \A j \in Item \ {i} : state'[j] = state[j] /\ place'[j] = place[j]
        /\ PagesType /\ PagesType' /\ PlacesApart /\ PlacesApart'
    BY ChangeFacts DEF PagesInv
  <1>2. k \in Nat /\ Cardinality(Unseen) <= slips.lost /\ Cardinality(Anew) <= slips.again
    BY <1>1 DEF PagesInv, OffsetsOK, Unseen, Anew
  <1>3. /\ N \subseteq Item /\ i \notin N /\ same \subseteq P!Listed /\ P!Listed \subseteq Item
        /\ P!Listed = IF state[i] = "in" THEN N \cup {i} ELSE N
        /\ P!Listed' = IF s = "in" THEN N \cup {i} ELSE N
        /\ place \in [Item -> Nat] /\ place' \in [Item -> Nat]
    BY <1>1 DEF P!Listed, PagesType
  <1>4. /\ \A x, y \in P!Listed : place[x] = place[y] => x = y
        /\ \A x, y \in P!Listed' : place'[x] = place'[y] => x = y
    BY <1>1 DEF PlacesApart, P!Listed, There
  <1>5. /\ slips'.lost = slips.lost + (IF before /\ ~after THEN 1 ELSE 0)
        /\ slips'.again = slips.again + (IF after /\ ~before THEN 1 ELSE 0)
        /\ slips.lost \in Nat /\ slips.again \in Nat
    <2>1. PICK b \in BOOLEAN : b = before
      OBVIOUS
    <2>2. PICK c \in BOOLEAN : c = after
      OBVIOUS
    <2>3. slips' = [slips EXCEPT !.changes = @ + 1,
                                 !.lost = @ + (IF b /\ ~c THEN 1 ELSE 0),
                                 !.again = @ + (IF c /\ ~b THEN 1 ELSE 0),
                                 !.jumped = @ \/ (list.by = "row" /\ i = page.cursor /\ p # place[i])]
      <3>1. b = (list.by = "offset" /\ state[i] = "in" /\ P!InPart(i, place[i]))
        BY <2>1
      <3>2. c = (list.by = "offset" /\ s = "in" /\ P!InPart(i, p))
        BY <2>2
      <3> HIDE DEF before, after
      <3>3. QED BY <3>1, <3>2 DEF RowChange, P!Changed
    <2> HIDE DEF before, after
    <2>4. slips'.lost = slips.lost + (IF b /\ ~c THEN 1 ELSE 0)
          /\ slips'.again = slips.again + (IF c /\ ~b THEN 1 ELSE 0)
          /\ slips.lost \in Nat /\ slips.again \in Nat
      BY <1>1, <2>3 DEF PagesType
    <2>5. QED BY <2>1, <2>2, <2>4
  <1>6. \A y \in N : InPart(y) <=> a(y) < Old
    <2> TAKE y \in N
    <2>1. InPart(y) <=> Cardinality(Above(P!Listed, y, place)) < k
      <3>1. {j \in P!Listed \ {y} : place[j] > place[y]} = Above(P!Listed, y, place)
        BY <1>3 DEF Above
      <3>2. QED BY <3>1, SameCardinality DEF InPart, P!InPart
    <2>2. CASE state[i] = "in"
      <3>1. before <=> Cardinality(Above(N, i, place)) < k
        BY <2>2, SameCardinality DEF P!InPart, Above
      <3>2. P!Listed = N \cup {i} /\ \A x, z \in N \cup {i} : place[x] = place[z] => x = z
        BY <1>3, <1>4, <2>2
      <3> HIDE DEF N, before
      <3>3. Cardinality(Above(N \cup {i}, y, place)) < k <=>
              Cardinality(Above(N, y, place)) < IF Cardinality(Above(N, i, place)) < k THEN k - 1 ELSE k
        BY <1>2, <1>3, <3>2, PartWithRow
      <3>4. QED BY <2>1, <3>1, <3>2, <3>3
    <2>3. CASE state[i] # "in"
      <3>1. P!Listed = N /\ ~before
        BY <1>3, <2>3
      <3>2. QED BY <2>1, <3>1
    <2>4. QED BY <2>2, <2>3
  <1>7. \A y \in N : InPart(y)' <=> a(y) < New
    <2> TAKE y \in N
    <2>0. Above(N, y, place') = Above(N, y, place) /\ y \in Item
      BY <1>1, <1>3 DEF Above
    <2>1. InPart(y)' <=> Cardinality(Above(P!Listed', y, place')) < k
      <3>1. {j \in P!Listed' \ {y} : place'[j] > place'[y]} = Above(P!Listed', y, place')
        <4>1. \A j \in P!Listed' : place'[j] > place'[y] => j # y
          BY <1>3, <2>0
        <4>2. QED BY <4>1 DEF Above
      <3>2. page'.cursor = k
        BY <1>1
      <3>3. QED BY <3>1, <3>2, SameCardinality DEF InPart, P!InPart
    <2>2. CASE s = "in"
      <3>1. Above(N, i, place') = {j \in P!Listed \ {i} : place[j] > p}
        BY <1>1, <1>3 DEF Above
      <3>2. after <=> Cardinality(Above(N, i, place')) < k
        BY <2>2, <3>1, SameCardinality DEF P!InPart
      <3>3. P!Listed' = N \cup {i} /\ \A x, z \in N \cup {i} : place'[x] = place'[z] => x = z
        BY <1>3, <1>4, <2>2
      <3> HIDE DEF N, after
      <3>4. Cardinality(Above(N \cup {i}, y, place')) < k <=>
              Cardinality(Above(N, y, place')) < IF Cardinality(Above(N, i, place')) < k THEN k - 1 ELSE k
        <4>1. PICK pl : pl = place'
          OBVIOUS
        <4>2. QED BY <1>2, <1>3, <3>3, <4>1, PartWithRow
      <3>5. QED BY <2>0, <2>1, <3>2, <3>3, <3>4
    <2>3. CASE s # "in"
      <3>1. P!Listed' = N /\ ~after
        BY <1>3, <2>3
      <3>2. QED BY <2>0, <2>1, <3>1
    <2>4. QED BY <2>2, <2>3
  <1> HIDE DEF before, after
  <1>8. \A x, y \in N : a(x) \in Nat /\ (a(x) = a(y) => x = y)
    <2> TAKE x, y \in N
    <2>1. a(x) \in Nat /\ a(y) \in Nat
      <3>1. Above(N, x, place) \subseteq Item /\ Above(N, y, place) \subseteq Item
        BY <1>3 DEF Above
      <3>2. QED BY <3>1, ItemsAreFinite
    <2>2. x \in Item /\ y \in Item /\ place[x] \in Nat /\ place[y] \in Nat
      BY <1>3
    <2> HIDE DEF N
    <2>3. place[x] > place[y] => a(x) + 1 <= a(y)
      BY <1>3, <2>2, HigherHasFewer
    <2>4. place[y] > place[x] => a(y) + 1 <= a(x)
      BY <1>3, <2>2, HigherHasFewer
    <2>5. place[x] = place[y] => x = y
      BY <1>3, <1>4 DEF N
    <2> HIDE DEF a
    <2>6. QED BY <2>1, <2>2, <2>3, <2>4, <2>5
  <1>9. same' \subseteq N /\ same' \subseteq same /\ page' = page
    BY <1>1, <1>3
  <1>10. Unseen \subseteq Item /\ Unseen' \subseteq Item /\ Anew \subseteq Item /\ Anew' \subseteq Item
    BY <1>3, <1>9 DEF Unseen, Anew
  <1> HIDE DEF N
  <1>11. Cardinality(Unseen') <= slips'.lost
    <2>1. ASSUME NEW y \in Unseen' \ Unseen PROVE y \in N /\ a(y) < New /\ ~(a(y) < Old)
      BY <1>6, <1>7, <1>9, <2>1 DEF Unseen
    <2>2. CASE before /\ ~after
      <3>1. \A y \in Unseen' \ Unseen : y \in N /\ a(y) = k - 1
        BY <1>2, <1>8, <2>1, <2>2
      <3> HIDE DEF a, Old, New
      <3>2. \A x, y \in Unseen' \ Unseen : x = y
        BY <1>8, <3>1
      <3>3. Cardinality(Unseen') <= Cardinality(Unseen) + 1
        BY <1>10, <3>2, OneMoreRow
      <3>4. QED BY <1>2, <1>5, <1>10, <2>2, <3>3, ItemsAreFinite
    <2>3. CASE ~(before /\ ~after)
      <3>1. Unseen' \subseteq Unseen
        BY <1>2, <1>8, <2>1, <2>3
      <3>2. Cardinality(Unseen') <= Cardinality(Unseen)
        BY <1>10, <3>1, Fewer
      <3>3. QED BY <1>2, <1>5, <1>10, <2>3, <3>2, ItemsAreFinite
    <2>4. QED BY <2>2, <2>3
  <1>12. Cardinality(Anew') <= slips'.again
    <2>1. ASSUME NEW y \in Anew' \ Anew PROVE y \in N /\ ~(a(y) < New) /\ a(y) < Old
      BY <1>6, <1>7, <1>9, <2>1 DEF Anew
    <2>2. CASE after /\ ~before
      <3>1. \A y \in Anew' \ Anew : y \in N /\ a(y) = k - 1
        BY <1>2, <1>8, <2>1, <2>2
      <3> HIDE DEF a, Old, New
      <3>2. \A x, y \in Anew' \ Anew : x = y
        BY <1>8, <3>1
      <3>3. Cardinality(Anew') <= Cardinality(Anew) + 1
        BY <1>10, <3>2, OneMoreRow
      <3>4. QED BY <1>2, <1>5, <1>10, <2>2, <3>3, ItemsAreFinite
    <2>3. CASE ~(after /\ ~before)
      <3>1. Anew' \subseteq Anew
        BY <1>2, <1>8, <2>1, <2>3
      <3>2. Cardinality(Anew') <= Cardinality(Anew)
        BY <1>10, <3>1, Fewer
      <3>3. QED BY <1>2, <1>5, <1>10, <2>3, <3>2, ItemsAreFinite
    <2>4. QED BY <2>2, <2>3
  <1>13. QED BY <1>1, <1>2, <1>11, <1>12 DEF OffsetsOK, Unseen, Anew

LEMMA RowsChanged ==
  ASSUME PagesInv, NEW i \in Item, NEW s, NEW p, RowChange(i, s, p)
  PROVE  PagesInv'
  <1>1. list' = list /\ PagesType' /\ PlacesApart' /\ Unread' /\ page' = page /\ page.at = "next"
    BY ChangeFacts
  <1>2. CursorOK'
    BY <1>1, RowsChange DEF CursorOK
  <1>3. TimesOK'
    BY <1>1, TimesChange DEF TimesOK
  <1>4. OffsetsOK'
    BY <1>1, OffsetsChange DEF OffsetsOK
  <1>5. P!PagesAreComplete'
    BY <1>1 DEF P!PagesAreComplete
  <1>6. QED BY <1>1, <1>2, <1>3, <1>4, <1>5 DEF PagesInv

LEMMA FreePlace ==
  ASSUME NEW p \in P!Free
  PROVE  p \in Nat /\ \A j \in Item : There(j) => place[j] # p
  <1>1. p \in 1..MaxPlace
    BY DEF P!Free
  <1>2. p \in Nat
    BY <1>1, SizesAreNumbers
  <1>3. QED BY <1>2 DEF P!Free, There

LEMMA PagesNext ==
  ASSUME PagesInv, P!Next
  PROVE  PagesInv'
  <1>1. CASE P!NextPage
    BY <1>1, PagesRead
  <1>2. ASSUME NEW i \in Item,
               P!Add(i) \/ P!Append(i) \/ P!Insert(i) \/ P!Hide(i) \/ P!Reappear(i) \/ P!Delete(i) \/ P!Move(i)
        PROVE  PagesInv'
    <2>0. PagesType /\ PlacesApart /\ place[i] \in Nat /\ (list.by = "time" => list.changes = {"add", "delete"})
      BY DEF PagesInv, PagesType
    <2>1. CASE P!Add(i) \/ P!Append(i) \/ P!Insert(i) \/ P!Move(i)
      <3>1. PICK p \in P!Free : P!Changed(i, "in", p) /\ P!Reading /\ state[i] \in {"unmade", "in"}
                                /\ (list.by = "time" => state[i] = "unmade")
        BY <2>0, <2>1 DEF P!Add, P!Append, P!Insert, P!Move
      <3>2. RowChange(i, "in", p)
        BY <3>1, FreePlace DEF RowChange
      <3>3. QED BY <3>2, RowsChanged
    <2>2. CASE P!Hide(i) \/ P!Reappear(i) \/ P!Delete(i)
      <3>1. /\ P!Reading /\ There(i)
            /\ P!Changed(i, "in", place[i]) \/ P!Changed(i, "out", place[i]) \/ P!Changed(i, "deleted", place[i])
            /\ list.by = "time" => P!Changed(i, "deleted", place[i])
        BY <2>0, <2>2 DEF P!Hide, P!Reappear, P!Delete, There
      <3>2. PICK s \in {"in", "out", "deleted"} : P!Changed(i, s, place[i]) /\ (list.by = "time" => s = "deleted")
        BY <3>1
      <3>3. RowChange(i, s, place[i])
        BY <2>0, <3>1, <3>2 DEF RowChange, PlacesApart, There
      <3>4. QED BY <3>3, RowsChanged
    <2>3. QED BY <1>2, <2>1, <2>2
  <1>3. QED BY <1>1, <1>2 DEF P!Next

LEMMA PagesStutter ==
  ASSUME PagesInv, UNCHANGED pvars
  PROVE  PagesInv'
  <1>1. UNCHANGED <<list, state, place, secret, page, same, slips>> /\ P!Listed' = P!Listed
    BY DEF pvars, P!Listed
  <1>2. PagesType' /\ PlacesApart' /\ Unread' /\ Passed' = Passed
    BY <1>1 DEF PagesInv, PagesType, PlacesApart, There, Unread, Passed
  <1>3. CursorOK'
    BY <1>1, <1>2 DEF PagesInv, CursorOK
  <1>4. TimesOK'
    BY <1>1 DEF PagesInv, TimesOK
  <1>5. \A i : InPart(i)' <=> InPart(i)
    BY <1>1 DEF InPart, P!InPart
  <1>6. OffsetsOK'
    BY <1>1, <1>5 DEF PagesInv, OffsetsOK
  <1>7. P!Missed' = P!Missed /\ P!Twice' = P!Twice
    BY <1>1 DEF P!Missed, P!Twice
  <1>8. P!PagesAreComplete'
    BY <1>1, <1>7 DEF PagesInv, P!PagesAreComplete
  <1>9. QED BY <1>2, <1>3, <1>4, <1>6, <1>8 DEF PagesInv

LEMMA PagesBegin ==
  ASSUME P!Init
  PROVE  PagesInv
  <1>1. list.by \in {"row", "time", "offset"} /\ (list.by = "time" => list.changes = {"add", "delete"})
    BY DEF P!Init, P!AllLists, P!Lists, P!Drafts, P!Tags, P!Feed, P!Explore, P!My, P!Collabs, P!ByMusic, P!Remixes,
           P!Tagged, P!Favorites, P!Reposts, P!Likes, P!Blocked, P!Places, P!Speech, P!Requests, P!Followers,
           P!Reports, P!Accounts, P!Messages, P!Tracks, P!Profile, P!Comments, P!People, P!AddYours, P!Activity,
           P!Ranked, P!Grid
  <1>2. /\ page.at = "start" /\ page.cursor = 0 /\ page.seen = [i \in Item |-> 0] /\ same = {}
        /\ slips = [changes |-> 0, lost |-> 0, again |-> 0, cut |-> FALSE, jumped |-> FALSE]
    BY DEF P!Init
  <1>3. state \in [Item -> {"unmade", "in", "out", "deleted"}] /\ place \in [Item -> Nat]
    BY SizesAreNumbers DEF P!Init
  <1>4. PagesType
    BY <1>1, <1>2, <1>3 DEF PagesType
  <1>5. PlacesApart
    BY DEF P!Init, PlacesApart, There, P!Listed
  <1>6. QED BY <1>2, <1>4, <1>5 DEF PagesInv, Unread, CursorOK, TimesOK, OffsetsOK, P!PagesAreComplete

-----------------------------------------------------------------------------
\* Ranking.

Candidates == DOMAIN candidate

Precedes(i, j) == R!Before(near, candidate, i, j)

By(i) == candidate[i].author

\* The posts and the closeness that the order is made of.
RankType ==
  /\ order \in {"feed", "explore"}
  /\ \E n \in Nat : candidate \in [1..n -> R!Post]
  /\ near = None \/ near \in [User \cup {Other} -> 0..2]

\* No two that follow each other are of one author, unless all that follow are.
Spread ==
  \A m \in 1..Len(out) - 1 : By(out[m]) = By(out[m + 1]) =>
    /\ \A k \in m..Len(out) : By(out[k]) = By(out[m])
    /\ \A k \in 1..Len(rest) : By(rest[k]) = By(out[m])

\* The m-th of the answer was put before i to part i from a post of its author.
Parts(m, i) == m > 1 /\ By(out[m - 1]) = By(i) /\ By(out[m]) # By(i)

ExploreOK ==
  /\ out \in Seq(Candidates) /\ rest \in Seq(Candidates) /\ Len(out) + Len(rest) = Len(candidate)
  /\ \A i \in Candidates : (\E m \in 1..Len(out) : out[m] = i) \/ (\E k \in 1..Len(rest) : rest[k] = i)
  /\ \A k, l \in 1..Len(rest) : k < l => Precedes(rest[k], rest[l])
  /\ Spread
  /\ \A m \in 1..Len(out), k \in 1..Len(rest) : Precedes(rest[k], out[m]) => Parts(m, rest[k])
  /\ \A m, k \in 1..Len(out) : m < k /\ Precedes(out[k], out[m]) => Parts(m, out[k])

RankingInv ==
  /\ RankType
  /\ near = None => rest = <<>> /\ out = <<>>
  /\ near # None /\ order = "feed" => rest = <<>> /\ out = R!Sorted(near, candidate)
  /\ near # None /\ order = "explore" => ExploreOK

-----------------------------------------------------------------------------
LEMMA CandidatesAre ==
  ASSUME RankType
  PROVE  /\ Len(candidate) \in Nat /\ Candidates = 1..Len(candidate)
         /\ candidate \in [1..Len(candidate) -> R!Post]
         /\ IsFiniteSet(Candidates) /\ Cardinality(Candidates) = Len(candidate)
  <1>1. PICK n \in Nat : candidate \in [1..n -> R!Post]
    BY DEF RankType
  <1>2. candidate \in Seq(R!Post) /\ Len(candidate) = n
    BY <1>1
  <1>3. IsFiniteSet(1..n) /\ Cardinality(1..n) = n
    BY <1>1, FS_Interval
  <1>4. QED BY <1>1, <1>2, <1>3 DEF Candidates

\* The scores of posts.
LEMMA ScoresAre ==
  ASSUME NEW c \in [User \cup {Other} -> 0..2], NEW n \in Nat, NEW d \in [1..n -> R!Post], NEW i \in 1..n
  PROVE  R!Score(c, d, i) \in Int
  <1>1. d[i].author \in User \cup {Other} /\ d[i].merit \in 0..2
    BY DEF R!Post, R!Half
  <1>2. c[d[i].author] \in 0..2
    BY <1>1
  <1>3. QED BY <1>1, <1>2 DEF R!Score

LEMMA BeforeOrders ==
  ASSUME NEW c \in [User \cup {Other} -> 0..2], NEW n \in Nat, NEW d \in [1..n -> R!Post],
         NEW i \in 1..n, NEW j \in 1..n, NEW k \in 1..n
  PROVE  /\ ~R!Before(c, d, i, i)
         /\ R!Before(c, d, i, j) => ~R!Before(c, d, j, i)
         /\ R!Before(c, d, i, j) /\ R!Before(c, d, j, k) => R!Before(c, d, i, k)
         /\ i # j => R!Before(c, d, i, j) \/ R!Before(c, d, j, i)
  <1>1. R!Score(c, d, i) \in Int /\ R!Score(c, d, j) \in Int /\ R!Score(c, d, k) \in Int
    BY ScoresAre
  <1>2. QED BY <1>1 DEF R!Before

\* The posts down to i.
DownTo(c, d, n, i) == {j \in 1..n : j = i \/ R!Before(c, d, j, i)}

\* The places are one to one with the numbers.
LEMMA PlacesCount ==
  ASSUME NEW c \in [User \cup {Other} -> 0..2], NEW n \in Nat, NEW d \in [1..n -> R!Post]
  PROVE  /\ \A i \in 1..n : R!Place(c, d, i) \in 1..n
         /\ \A i, j \in 1..n : R!Before(c, d, i, j) => R!Place(c, d, i) < R!Place(c, d, j)
         /\ \A m \in 1..n : \E i \in 1..n : R!Place(c, d, i) = m
  <1>0. DOMAIN d = 1..n /\ IsFiniteSet(1..n) /\ Cardinality(1..n) = n
    BY FS_Interval
  <1>1. \A i \in 1..n : R!Place(c, d, i) = Cardinality(DownTo(c, d, n, i))
    BY <1>0, SameCardinality DEF R!Place, DownTo
  <1>2. ASSUME NEW i \in 1..n
        PROVE  IsFiniteSet(DownTo(c, d, n, i)) /\ Cardinality(DownTo(c, d, n, i)) \in 1..n
    <2> DEFINE v == DownTo(c, d, n, i)
    <2>1. v \in SUBSET (1..n) /\ i \in v
      BY DEF DownTo
    <2> HIDE DEF v
    <2>2. IsFiniteSet(v) /\ Cardinality(v) <= n
      BY <2>1, NumbersAreFinite
    <2>3. Cardinality(v) \in Nat /\ Cardinality(v) # 0
      BY <2>1, <2>2, FS_CardinalityType, FS_EmptySet
    <2>4. QED BY <2>2, <2>3 DEF v
  <1>3. ASSUME NEW i \in 1..n, NEW j \in 1..n, R!Before(c, d, i, j)
        PROVE  Cardinality(DownTo(c, d, n, i)) < Cardinality(DownTo(c, d, n, j))
    <2> DEFINE v == DownTo(c, d, n, i)
               w == DownTo(c, d, n, j)
    <2>1. \A k \in v : k \in w
      BY <1>3, BeforeOrders DEF DownTo
    <2>2. j \in w /\ j \notin v
      BY <1>3, BeforeOrders DEF DownTo
    <2>3. IsFiniteSet(w) /\ Cardinality(v) \in Nat /\ Cardinality(w) \in Nat
      BY <1>2
    <2> HIDE DEF v, w
    <2>4. Cardinality(v) <= Cardinality(w) /\ Cardinality(w) # Cardinality(v)
      BY <2>1, <2>2, <2>3, FS_Subset
    <2>5. Cardinality(v) < Cardinality(w)
      BY <2>3, <2>4
    <2>6. QED BY <2>5 DEF v, w
  <1>4. \A i \in 1..n : R!Place(c, d, i) \in 1..n
    BY <1>1, <1>2
  <1>5. \A i, j \in 1..n : R!Before(c, d, i, j) => R!Place(c, d, i) < R!Place(c, d, j)
    BY <1>1, <1>3
  <1>6. \A m \in 1..n : \E i \in 1..n : R!Place(c, d, i) = m
    <2> DEFINE f == [i \in 1..n |-> R!Place(c, d, i)]
    <2>1. f \in [1..n -> 1..n]
      BY <1>4
    <2>2. ASSUME NEW i \in 1..n, NEW j \in 1..n, f[i] = f[j] PROVE i = j
      <3>1. R!Place(c, d, i) = R!Place(c, d, j) /\ R!Place(c, d, i) \in 1..n
        BY <1>4, <2>2
      <3>2. ~R!Before(c, d, i, j) /\ ~R!Before(c, d, j, i)
        BY <1>4, <1>5, <3>1
      <3>3. QED BY <3>2, BeforeOrders
    <2>3. \A m \in 1..n : f[m] = R!Place(c, d, m)
      OBVIOUS
    <2> HIDE DEF f
    <2>4. PICK D : D = 1..n
      OBVIOUS
    <2>5. \A m \in D : \E i \in D : f[i] = m
      <3>1. f \in [D -> D] /\ IsFiniteSet(D)
        BY <1>0, <2>1, <2>4
      <3>2. \A i, j \in D : f[i] = f[j] => i = j
        BY <2>2, <2>4
      <3>3. QED BY <3>1, <3>2, OneToOneIsOnto
    <2>6. QED BY <2>3, <2>4, <2>5
  <1>7. QED BY <1>4, <1>5, <1>6

\* Sorted: every post once, in order.
LEMMA SortedOrders ==
  ASSUME NEW c \in [User \cup {Other} -> 0..2], NEW n \in Nat, NEW d \in [1..n -> R!Post]
  PROVE  LET s == R!Sorted(c, d)
         IN  /\ s \in [1..n -> 1..n] /\ s \in Seq(1..n) /\ Len(s) = n
             /\ \A i \in 1..n : \E m \in 1..n : s[m] = i
             /\ \A m, k \in 1..n : m < k => R!Before(c, d, s[m], s[k])
  <1> DEFINE s == R!Sorted(c, d)
  <1>1. DOMAIN d = 1..n
    OBVIOUS
  <1>2. \A m \in 1..n : s[m] \in 1..n /\ R!Place(c, d, s[m]) = m
    <2> TAKE m \in 1..n
    <2>1. \E i \in 1..n : R!Place(c, d, i) = m
      BY PlacesCount
    <2>2. s[m] = CHOOSE i \in 1..n : R!Place(c, d, i) = m
      BY <1>1 DEF R!Sorted
    <2>3. QED BY <2>1, <2>2
  <1>3. s \in [1..n -> 1..n]
    BY <1>1, <1>2 DEF R!Sorted
  <1>4. s \in Seq(1..n) /\ Len(s) = n
    BY <1>3
  <1> HIDE DEF s
  <1>5. ASSUME NEW m \in 1..n, NEW k \in 1..n, m < k PROVE R!Before(c, d, s[m], s[k])
    <2>1. PICK i \in 1..n, j \in 1..n : s[m] = i /\ s[k] = j
      BY <1>2
    <2>2. R!Place(c, d, i) = m /\ R!Place(c, d, j) = k
      BY <1>2, <2>1
    <2>3. i # j /\ ~(k < m)
      BY <1>5, <2>2
    <2>4. ~R!Before(c, d, j, i)
      BY <2>2, <2>3, PlacesCount
    <2>5. R!Before(c, d, i, j)
      BY <2>3, <2>4, BeforeOrders
    <2>6. QED BY <2>1, <2>5
  <1>6. ASSUME NEW i \in 1..n PROVE \E m \in 1..n : s[m] = i
    <2>1. PICK m \in 1..n : m = R!Place(c, d, i)
      BY PlacesCount
    <2>2. PICK j \in 1..n : s[m] = j /\ R!Place(c, d, j) = m
      BY <1>2
    <2>5. \A k, l \in 1..n : R!Before(c, d, k, l) => R!Place(c, d, k) < R!Place(c, d, l)
      BY PlacesCount
    <2>3. ~R!Before(c, d, j, i) /\ ~R!Before(c, d, i, j)
      <3>1. ~(R!Place(c, d, i) < R!Place(c, d, j)) /\ ~(R!Place(c, d, j) < R!Place(c, d, i))
        BY <2>1, <2>2
      <3>2. QED BY <2>5, <3>1
    <2>4. i = j
      BY <2>3, BeforeOrders
    <2>6. QED BY <2>2, <2>4
  <1>7. QED BY <1>3, <1>4, <1>5, <1>6 DEF s

\* Viewing a post takes it no step up.
LEMMA SeenSinks ==
  ASSUME NEW c \in [User \cup {Other} -> 0..2], NEW n \in Nat, NEW d \in [1..n -> R!Post], NEW i \in 1..n
  PROVE  R!Place(c, [d EXCEPT ![i].seen = TRUE], i) >= R!Place(c, d, i)
  <1> DEFINE e == [d EXCEPT ![i].seen = TRUE]
             V == {j \in 1..n : j = i \/ R!Before(c, d, j, i)}
             W == {j \in 1..n : j = i \/ R!Before(c, e, j, i)}
  <1>1. /\ DOMAIN d = 1..n /\ DOMAIN e = 1..n /\ IsFiniteSet(1..n)
        /\ e[i].author = d[i].author /\ e[i].merit = d[i].merit /\ e[i].seen /\ d[i].seen \in BOOLEAN
        /\ \A j \in 1..n : j # i => e[j] = d[j]
    BY FS_Interval DEF R!Post
  <1>2. e \in [1..n -> R!Post]
    BY DEF R!Post
  <1> HIDE DEF e
  <1>3. \A j \in 1..n : R!Score(c, d, j) \in Int /\ R!Score(c, e, j) \in Int
    BY <1>2, ScoresAre
  <1>4. \A j \in 1..n : j # i => R!Score(c, e, j) = R!Score(c, d, j)
    BY <1>1 DEF R!Score
  <1>5. R!Score(c, e, i) <= R!Score(c, d, i)
    <2>1. d[i].author \in User \cup {Other} /\ d[i].merit \in 0..2
      BY DEF R!Post, R!Half
    <2>2. c[d[i].author] \in 0..2
      BY <2>1
    <2>3. QED BY <1>1, <2>1, <2>2 DEF R!Score
  <1>6. V \subseteq W
    BY <1>3, <1>4, <1>5 DEF R!Before
  <1>7. W \subseteq 1..n
    OBVIOUS
  <1>8. R!Place(c, d, i) = Cardinality(V) /\ R!Place(c, e, i) = Cardinality(W)
    BY <1>1, SameCardinality DEF R!Place
  <1> HIDE DEF V, W
  <1>9. Cardinality(V) <= Cardinality(W) /\ Cardinality(V) \in Nat /\ Cardinality(W) \in Nat
    BY <1>1, <1>6, <1>7, FS_Subset, FS_CardinalityType
  <1>10. QED BY <1>8, <1>9 DEF e

-----------------------------------------------------------------------------
\* The property, of a finished answer.
LEMMA RankingIsRight ==
  ASSUME RankingInv
  PROVE  R!RankingAgrees
  <1> SUFFICES ASSUME near # None, rest = <<>>
               PROVE  /\ R!Range(out) = DOMAIN candidate /\ Len(out) = Len(candidate)
                      /\ order = "feed" =>
                           /\ \A m, n \in DOMAIN out :
                                m < n /\ candidate[out[m]].seen /\ ~candidate[out[n]].seen =>
                                  near[R!AuthorAt(m)] > near[R!AuthorAt(n)]
                           /\ \A i \in DOMAIN candidate :
                                R!Place(near, [candidate EXCEPT ![i].seen = TRUE], i) >= R!Place(near, candidate, i)
                      /\ order = "explore" =>
                           /\ \A n \in 1..Len(out) - 1 : R!AuthorAt(n) = R!AuthorAt(n + 1) =>
                                \A k \in n..Len(out) : R!AuthorAt(k) = R!AuthorAt(n)
                           /\ \A m, n \in DOMAIN out : m < n /\ R!Before(near, candidate, out[n], out[m]) =>
                                m > 1 /\ R!AuthorAt(m - 1) = R!AuthorAt(n) /\ R!AuthorAt(m) # R!AuthorAt(n)
    BY DEF R!RankingAgrees
  <1> DEFINE n == Len(candidate)
  <1>1. RankType /\ near \in [User \cup {Other} -> 0..2]
    BY DEF RankingInv, RankType
  <1>2. n \in Nat /\ candidate \in [1..n -> R!Post] /\ DOMAIN candidate = 1..n
    BY <1>1, CandidatesAre DEF Candidates
  <1> HIDE DEF n
  <1>3. CASE order = "feed"
    <2>1. out = R!Sorted(near, candidate)
      BY <1>3 DEF RankingInv
    <2>2. /\ out \in [1..n -> 1..n] /\ out \in Seq(1..n) /\ Len(out) = n
          /\ \A i \in 1..n : \E m \in 1..n : out[m] = i
          /\ \A m, k \in 1..n : m < k => R!Before(near, candidate, out[m], out[k])
      BY <1>1, <1>2, <2>1, SortedOrders
    <2>3. R!Range(out) = DOMAIN candidate
      BY <1>2, <2>2 DEF R!Range
    <2>4. ASSUME NEW m \in 1..n, NEW k \in 1..n, m < k, candidate[out[m]].seen, ~candidate[out[k]].seen
          PROVE  near[R!AuthorAt(m)] > near[R!AuthorAt(k)]
      <3>1. PICK i, j : i = out[m] /\ j = out[k]
        OBVIOUS
      <3>2. i \in 1..n /\ j \in 1..n /\ R!Before(near, candidate, i, j) /\ candidate[i].seen /\ ~candidate[j].seen
        BY <2>2, <2>4, <3>1
      <3>3. /\ candidate[i].author \in User \cup {Other} /\ candidate[j].author \in User \cup {Other}
            /\ candidate[i].merit \in 0..2 /\ candidate[j].merit \in 0..2
        BY <1>2, <3>2 DEF R!Post, R!Half
      <3>4. near[candidate[i].author] \in 0..2 /\ near[candidate[j].author] \in 0..2
        BY <1>1, <3>3
      <3>5. near[candidate[i].author] > near[candidate[j].author]
        BY SMTT(20), <3>2, <3>3, <3>4 DEF R!Before, R!Score
      <3>6. QED BY <3>1, <3>5 DEF R!AuthorAt
    <2>5. \A i \in 1..n : R!Place(near, [candidate EXCEPT ![i].seen = TRUE], i) >= R!Place(near, candidate, i)
      BY <1>1, <1>2, SeenSinks
    <2>6. DOMAIN out = 1..n
      BY <2>2
    <2>7. QED BY <1>2, <1>3, <2>2, <2>3, <2>4, <2>5, <2>6 DEF n
  <1>4. CASE order = "explore"
    <2>1. ExploreOK
      BY <1>4 DEF RankingInv
    <2>2. Candidates = 1..n /\ Len(rest) = 0 /\ out \in Seq(1..n) /\ Len(out) = n
      BY <1>1, <1>2, <2>1, CandidatesAre DEF ExploreOK, n
    <2>3. DOMAIN out = 1..n /\ \A m \in 1..n : out[m] \in 1..n
      BY <1>2, <2>2
    <2>4. \A i \in 1..n : \E m \in 1..n : out[m] = i
      BY <2>1, <2>2 DEF ExploreOK
    <2>5. R!Range(out) = DOMAIN candidate
      BY <1>2, <2>3, <2>4 DEF R!Range
    <2>6. \A m \in 1..Len(out) - 1 : R!AuthorAt(m) = R!AuthorAt(m + 1) =>
            \A k \in m..Len(out) : R!AuthorAt(k) = R!AuthorAt(m)
      BY <2>1 DEF ExploreOK, Spread, R!AuthorAt, By
    <2>7. \A m, k \in DOMAIN out : m < k /\ R!Before(near, candidate, out[k], out[m]) =>
            m > 1 /\ R!AuthorAt(m - 1) = R!AuthorAt(k) /\ R!AuthorAt(m) # R!AuthorAt(k)
      <3> TAKE m, k \in DOMAIN out
      <3>1. m \in 1..Len(out) /\ k \in 1..Len(out)
        BY <2>2, <2>3
      <3>2. m < k /\ Precedes(out[k], out[m]) => Parts(m, out[k])
        BY <2>1, <3>1 DEF ExploreOK
      <3>3. QED BY <3>2 DEF Precedes, Parts, R!AuthorAt, By
    <2>8. QED BY <1>4, <2>2, <2>5, <2>6, <2>7 DEF n
  <1>5. QED BY <1>1, <1>3, <1>4 DEF RankType

LEMMA RankingBegin ==
  ASSUME R!Init
  PROVE  RankingInv
  <1>1. PICK n \in Nat : candidate \in [1..n -> R!Post]
    BY SizesAreNumbers DEF R!Init, R!Candidates
  <1>2. QED BY <1>1 DEF R!Init, RankingInv, RankType

LEMMA RankStep ==
  ASSUME RankingInv, R!Rank
  PROVE  RankingInv'
  <1> DEFINE n == Len(candidate)
             s == R!Sorted(near', candidate)
  <1>1. RankType /\ near = None /\ rest = <<>> /\ UNCHANGED <<order, candidate>> /\ near' \in [User \cup {Other} -> 0..2]
    BY DEF RankingInv, R!Rank, R!Closeness, R!Half
  <1>2. n \in Nat /\ candidate \in [1..n -> R!Post] /\ Candidates = 1..n /\ Candidates' = Candidates
    BY <1>1, CandidatesAre DEF Candidates
  <1>3. RankType' /\ near' # None
    BY <1>1, NoneIsNothing DEF RankType
  <1>4. CASE order = "feed"
    BY <1>1, <1>3, <1>4 DEF R!Rank, RankingInv
  <1>5. CASE order = "explore"
    <2>1. rest' = s /\ out' = <<>>
      BY <1>5 DEF R!Rank, RankingInv
    <2>2. PICK c \in [User \cup {Other} -> 0..2] : c = near'
      BY <1>1
    <2>3. /\ s \in [1..n -> 1..n] /\ s \in Seq(1..n) /\ Len(s) = n
          /\ \A i \in 1..n : \E m \in 1..n : s[m] = i
          /\ \A m, k \in 1..n : m < k => R!Before(c, candidate, s[m], s[k])
      <3>1. s = R!Sorted(c, candidate)
        BY <2>2
      <3> HIDE DEF s, n
      <3>2. QED BY ZenonT(40), <1>2, <3>1, SortedOrders
    <2> HIDE DEF s, n
    <2>4. out' \in Seq(1..n) /\ Len(out') = 0 /\ Len(rest') = n
      BY <2>1, <2>3
    <2>5. \A k, l \in 1..Len(rest') : k < l => Precedes(rest[k], rest[l])'
      BY <1>1, <2>1, <2>2, <2>3, <2>4 DEF Precedes
    <2>6. Spread'
      BY <2>4 DEF Spread
    <2>7. ExploreOK'
      BY <1>1, <1>2, <2>1, <2>3, <2>4, <2>5, <2>6 DEF ExploreOK, n
    <2>8. QED BY <1>1, <1>3, <1>5, <2>7 DEF RankingInv
  <1>6. QED BY <1>1, <1>4, <1>5 DEF RankType

\* RemoveAt and Append.
LEMMA WithoutOne ==
  ASSUME NEW S, NEW s \in Seq(S), NEW f \in 1..Len(s)
  PROVE  /\ R!RemoveAt(s, f) \in Seq(S) /\ Len(R!RemoveAt(s, f)) = Len(s) - 1
         /\ \A k \in 1..Len(s) - 1 : R!RemoveAt(s, f)[k] = IF k < f THEN s[k] ELSE s[k + 1]
  <1> DEFINE t == SubSeq(s, 1, f - 1)
             u == SubSeq(s, f + 1, Len(s))
  <1>1. t \in Seq(S) /\ Len(t) = f - 1 /\ \A k \in 1..f - 1 : t[k] = s[k]
    OBVIOUS
  <1>2. u \in Seq(S) /\ Len(u) = Len(s) - f /\ \A k \in 1..Len(s) - f : u[k] = s[f + k]
    OBVIOUS
  <1>3. R!RemoveAt(s, f) = t \o u
    BY DEF R!RemoveAt
  <1> HIDE DEF t, u
  <1>4. t \o u \in Seq(S) /\ Len(t \o u) = Len(s) - 1
    BY <1>1, <1>2
  <1>5. ASSUME NEW k \in 1..Len(s) - 1 PROVE (t \o u)[k] = IF k < f THEN s[k] ELSE s[k + 1]
    <2>1. CASE k < f
      BY <1>1, <1>2, <2>1
    <2>2. CASE ~(k < f)
      <3>1. (t \o u)[k] = u[k - f + 1] /\ k - f + 1 \in 1..Len(s) - f
        BY <1>1, <1>2, <2>2
      <3>2. QED BY <1>2, <2>2, <3>1
    <2>3. QED BY <2>1, <2>2
  <1>6. QED BY <1>3, <1>4, <1>5

\* What FirstOfAnother picks: all before it are of the author of the last, and it is not, unless all are.
LEMMA PicksOne ==
  ASSUME rest # <<>>, NEW S, rest \in Seq(S)
  PROVE  LET f == R!FirstOfAnother
             same_(k) == out # <<>> /\ By(rest[k]) = By(out[Len(out)])
         IN  /\ f \in 1..Len(rest)
             /\ \A k \in 1..Len(rest) : k < f => same_(k)
             /\ same_(f) => f = 1 /\ \A k \in 1..Len(rest) : same_(k)
  <1> DEFINE others == {k \in DOMAIN rest : out = <<>> \/ By(rest[k]) # By(out[Len(out)])}
             f == R!FirstOfAnother
  <1>1. DOMAIN rest = 1..Len(rest) /\ Len(rest) \in Nat /\ 1 \in 1..Len(rest)
    OBVIOUS
  <1>2. f = IF others = {} THEN 1 ELSE R!Min(others)
    BY DEF R!FirstOfAnother, By, R!Last
  <1>3. CASE others = {}
    BY <1>1, <1>2, <1>3
  <1>4. CASE others # {}
    <2>1. others \subseteq 1..Len(rest)
      BY <1>1
    <2>2. f \in others /\ \A k \in others : f <= k
      <3>1. f = R!Min(others)
        BY <1>2, <1>4
      <3> HIDE DEF others, f
      <3>2. QED BY <1>1, <1>4, <2>1, <3>1, LeastExists
    <2>3. QED BY <1>1, <2>2
  <1>5. QED BY <1>3, <1>4

LEMMA PickStep ==
  ASSUME RankingInv, R!Pick
  PROVE  RankingInv'
  <1> DEFINE f == R!FirstOfAnother
             x == rest[f]
             n == Len(candidate)
             o == Len(out)
             r == Len(rest)
  <1>0. /\ RankType /\ rest # <<>> /\ UNCHANGED <<order, candidate, near>> /\ near # None /\ order = "explore"
        /\ ExploreOK /\ near \in [User \cup {Other} -> 0..2]
    BY DEF RankingInv, R!Pick, RankType
  <1>1. /\ n \in Nat /\ candidate \in [1..n -> R!Post] /\ Candidates = 1..n /\ Candidates' = Candidates
        /\ out \in Seq(1..n) /\ rest \in Seq(1..n) /\ o \in Nat /\ r \in Nat
    BY <1>0, CandidatesAre DEF ExploreOK, Candidates
  <1> HIDE DEF f, n
  <1>2. /\ f \in 1..r
        /\ \A k \in 1..r : k < f => out # <<>> /\ By(rest[k]) = By(out[o])
        /\ out # <<>> /\ By(x) = By(out[o]) => f = 1 /\ \A k \in 1..r : By(rest[k]) = By(out[o])
    BY <1>0, <1>1, PicksOne DEF f
  <1>3. x \in 1..n
    BY <1>1, <1>2
  <1>4. out' \in Seq(1..n) /\ Len(out') = o + 1 /\ out'[o + 1] = x /\ \A m \in 1..o : out'[m] = out[m]
    <2>1. out' = Append(out, x)
      BY DEF R!Pick, f
    <2> HIDE DEF x
    <2>2. QED BY <1>1, <1>3, <2>1
  <1>5. /\ rest' \in Seq(1..n) /\ Len(rest') = r - 1
        /\ \A k \in 1..r - 1 : rest'[k] = IF k < f THEN rest[k] ELSE rest[k + 1]
    <2>1. rest' = R!RemoveAt(rest, f)
      BY DEF R!Pick, f
    <2>2. QED BY <1>1, <1>2, <2>1, WithoutOne
  <1> HIDE DEF x, o, r
  \* Where a row of rest' was in rest.
  <1> DEFINE at(k) == IF k < f THEN k ELSE k + 1
  <1>6. \A k \in 1..r - 1 : at(k) \in 1..r /\ at(k) # f /\ rest'[k] = rest[at(k)]
    BY SMTT(20), <1>1, <1>2, <1>5
  <1>7. \A k, l \in 1..r - 1 : k < l => at(k) < at(l)
    BY <1>2
  <1>8. \A i \in 1..n : (\E m \in 1..o + 1 : out'[m] = i) \/ (\E k \in 1..r - 1 : rest'[k] = i)
    <2> TAKE i \in 1..n
    <2>1. (\E m \in 1..o : out[m] = i) \/ (\E k \in 1..r : rest[k] = i)
      BY <1>0, <1>1 DEF ExploreOK, o, r
    <2>2. CASE \E m \in 1..o : out[m] = i
      BY <1>1, <1>4, <2>2
    <2>3. ASSUME NEW k \in 1..r, rest[k] = i PROVE (\E m \in 1..o + 1 : out'[m] = i) \/ (\E l \in 1..r - 1 : rest'[l] = i)
      <3>1. CASE k = f
        <4>1. o + 1 \in 1..o + 1 /\ out'[o + 1] = i
          BY <1>1, <1>4, <2>3, <3>1 DEF x
        <4>2. QED BY <4>1
      <3>2. CASE k < f
        <4>1. k \in 1..r - 1 /\ rest'[k] = i
          BY SMTT(20), <1>1, <1>2, <1>5, <2>3, <3>2
        <4>2. QED BY <4>1
      <3>3. CASE k > f
        <4>1. k - 1 \in 1..r - 1 /\ rest'[k - 1] = i
          <5>1. PICK l \in 1..r - 1 : l = k - 1 /\ ~(l < f) /\ l + 1 = k
            BY <1>1, <1>2, <3>3
          <5>2. rest'[l] = rest[k]
            BY <1>5, <5>1
          <5>3. QED BY <2>3, <5>1, <5>2
        <4>2. QED BY <4>1
      <3>4. QED BY <1>2, <3>1, <3>2, <3>3
    <2>4. QED BY <2>1, <2>2, <2>3
  <1>9. \A i, j : Precedes(i, j)' <=> Precedes(i, j)
    BY <1>0 DEF Precedes
  <1>10. \A i : By(i)' = By(i)
    BY <1>0 DEF By
  <1> HIDE DEF at
  <1>11. \A k, l \in 1..Len(rest') : k < l => Precedes(rest[k], rest[l])'
    <2> SUFFICES ASSUME NEW k \in 1..r - 1, NEW l \in 1..r - 1, k < l PROVE Precedes(rest'[k], rest'[l])
      BY <1>5, <1>9
    <2>1. Precedes(rest[at(k)], rest[at(l)])
      BY <1>0, <1>6, <1>7 DEF ExploreOK, r
    <2>2. QED BY <1>6, <2>1
  <1>12. Spread'
    <2> SUFFICES ASSUME NEW m \in 1..o, By(out'[m]) = By(out'[m + 1])
                 PROVE  /\ \A k \in m..o + 1 : By(out'[k]) = By(out'[m])
                        /\ \A k \in 1..r - 1 : By(rest'[k]) = By(out'[m])
      BY <1>1, <1>4, <1>5, <1>10 DEF Spread
    <2>1. CASE m = o
      <3>1. out # <<>> /\ o \in 1..o
        BY <1>1, <2>1 DEF o
      <3>2. By(x) = By(out[o])
        BY <1>4, <2>1, <3>1
      <3>3. \A k \in 1..r : By(rest[k]) = By(out[o])
        BY <1>2, <3>1, <3>2
      <3>4. \A k \in 1..r - 1 : By(rest'[k]) = By(out[o])
        BY <1>6, <3>3
      <3>5. \A k \in o..o + 1 : k = o \/ k = o + 1
        BY <1>1
      <3>6. out'[o] = out[o]
        BY <1>4, <3>1
      <3>7. QED BY <1>4, <2>1, <3>2, <3>4, <3>5, <3>6
    <2>2. CASE m < o
      <3>1. m \in 1..o - 1 /\ m + 1 \in 1..o /\ By(out[m]) = By(out[m + 1])
        <4>1. m \in 1..o - 1 /\ m + 1 \in 1..o
          BY <1>1, <2>2
        <4>2. out'[m] = out[m] /\ out'[m + 1] = out[m + 1]
          BY <1>4, <4>1
        <4>3. QED BY <4>1, <4>2
      <3>2. /\ \A k \in m..o : By(out[k]) = By(out[m])
            /\ \A k \in 1..r : By(rest[k]) = By(out[m])
        BY <1>0, <3>1 DEF ExploreOK, Spread, o, r
      <3>3. By(x) = By(out[m])
        BY <1>2, <3>2 DEF x
      <3>4. out'[m] = out[m]
        BY <1>4
      <3>5. ASSUME NEW k \in m..o + 1 PROVE By(out'[k]) = By(out'[m])
        <4>1. CASE k = o + 1
          BY <1>4, <3>3, <3>4, <4>1
        <4>2. CASE k # o + 1
          <5>1. k \in m..o /\ k \in 1..o
            BY <1>1, <4>2
          <5>2. out'[k] = out[k]
            BY <1>4, <5>1
          <5>3. QED BY <3>2, <3>4, <5>1, <5>2
        <4>3. QED BY <4>1, <4>2
      <3>6. ASSUME NEW k \in 1..r - 1 PROVE By(rest'[k]) = By(out'[m])
        BY <1>6, <3>2, <3>4
      <3>7. QED BY <3>5, <3>6
    <2>3. QED BY <1>1, <2>1, <2>2
  <1>13. ASSUME NEW m \in 1..o, NEW k \in 1..r, Precedes(rest[k], out[m])
         PROVE  m > 1 /\ By(out'[m - 1]) = By(rest[k]) /\ By(out'[m]) # By(rest[k])
    <2>1. Parts(m, rest[k])
      BY <1>0, <1>13 DEF ExploreOK, o, r
    <2>2. QED BY <1>1, <1>4, <2>1 DEF Parts
  <1>14. ASSUME NEW m \in 1..o + 1, NEW k \in 1..r - 1, Precedes(rest'[k], out'[m])
         PROVE  m > 1 /\ By(out'[m - 1]) = By(rest'[k]) /\ By(out'[m]) # By(rest'[k])
    <2>1. CASE m \in 1..o
      <3>1. at(k) \in 1..r /\ Precedes(rest[at(k)], out[m])
        BY <1>4, <1>6, <1>14, <2>1
      <3>2. QED BY <1>6, <1>13, <2>1, <3>1
    <2>2. CASE m = o + 1
      <3>1. at(k) \in 1..r /\ at(k) # f /\ Precedes(rest[at(k)], x)
        BY <1>4, <1>6, <1>14, <2>2
      <3>2. rest[at(k)] \in 1..n
        BY <1>1, <3>1 DEF r
      <3>3. ~Precedes(x, rest[at(k)])
        <4>1. PICK y \in 1..n : y = rest[at(k)]
          BY <3>2
        <4>2. ~R!Before(near, candidate, x, y)
          <5>1. R!Before(near, candidate, y, x)
            BY <3>1, <4>1 DEF Precedes
          <5>2. QED BY <1>0, <1>1, <1>3, <5>1, BeforeOrders
        <4>3. QED BY <4>1, <4>2 DEF Precedes
      <3>4. ~(f < at(k))
        BY <1>0, <1>2, <3>1, <3>3 DEF ExploreOK, x, r
      <3>5. at(k) < f
        BY <1>2, <3>1, <3>4
      <3>6. out # <<>> /\ By(rest[at(k)]) = By(out[o])
        BY <1>2, <3>1, <3>5
      <3>7. By(x) # By(out[o])
        BY <1>2, <3>1, <3>5, <3>6
      <3>8. o \in 1..o
        BY <1>1, <3>6 DEF o
      <3>9. QED BY <1>1, <1>4, <1>6, <2>2, <3>6, <3>7, <3>8
    <2>3. QED BY <1>1, <2>1, <2>2
  <1>15. ASSUME NEW m \in 1..o + 1, NEW k \in 1..o + 1, m < k, Precedes(out'[k], out'[m])
         PROVE  m > 1 /\ By(out'[m - 1]) = By(out'[k]) /\ By(out'[m]) # By(out'[k])
    <2>1. m \in 1..o
      BY <1>1, <1>15
    <2>2. CASE k \in 1..o
      <3>1. Parts(m, out[k])
        BY <1>0, <1>4, <1>15, <2>1, <2>2 DEF ExploreOK, o
      <3>2. QED BY <1>1, <1>4, <2>1, <2>2, <3>1 DEF Parts
    <2>3. CASE k = o + 1
      <3>1. Precedes(rest[f], out[m]) /\ out'[k] = rest[f]
        BY <1>4, <1>15, <2>1, <2>3 DEF x
      <3>2. QED BY <1>2, <1>13, <2>1, <3>1
    <2>4. QED BY <1>1, <2>2, <2>3
  <1>16. ExploreOK'
    <2>1. out' \in Seq(Candidates') /\ rest' \in Seq(Candidates') /\ Len(out') + Len(rest') = Len(candidate')
      <3>1. o + r = Len(candidate) /\ Len(candidate') = Len(candidate)
        BY <1>0 DEF ExploreOK, o, r
      <3>2. Len(out') + Len(rest') = o + r
        BY <1>1, <1>4, <1>5
      <3>3. out' \in Seq(1..n) /\ rest' \in Seq(1..n) /\ Candidates' = 1..n
        BY <1>1, <1>4, <1>5
      <3>4. QED BY <3>1, <3>2, <3>3
    <2>2. \A i \in Candidates' : (\E m \in 1..Len(out') : out'[m] = i) \/ (\E k \in 1..Len(rest') : rest'[k] = i)
      BY <1>1, <1>4, <1>5, <1>8
    <2>3. \A m \in 1..Len(out'), k \in 1..Len(rest') : Precedes(rest[k], out[m])' => Parts(m, rest[k])'
      BY <1>4, <1>5, <1>9, <1>10, <1>14 DEF Parts
    <2>4. \A m, k \in 1..Len(out') : m < k /\ Precedes(out[k], out[m])' => Parts(m, out[k])'
      BY <1>4, <1>9, <1>10, <1>15 DEF Parts
    <2>5. QED BY <1>11, <1>12, <2>1, <2>2, <2>3, <2>4 DEF ExploreOK
  <1>17. QED BY <1>0, <1>16 DEF RankingInv, RankType

LEMMA RankingNext ==
  ASSUME RankingInv, [R!Next]_rvars
  PROVE  RankingInv'
  <1>1. CASE R!Rank
    BY <1>1, RankStep
  <1>2. CASE R!Pick
    BY <1>2, PickStep
  <1>3. CASE UNCHANGED rvars
    BY <1>3 DEF rvars, RankingInv, RankType, ExploreOK, Spread, Parts, By, Precedes, Candidates
  <1>4. QED BY <1>1, <1>2, <1>3 DEF R!Next

-----------------------------------------------------------------------------
\* Publishing takes its steps in Content as it does alone.
THEOREM PublishesAsSpecified == ContentSpec => Spec
  <1>1. ContentInit => Init
    BY DEF ContentInit
  <1>2. [ContentNext]_allvars => [Next]_vars
    <2>1. ContentNext => Next \/ UNCHANGED vars
      BY DEF ContentNext, Publishes, Reads, Taps, Uploads, Replies, Ranks, Plays
    <2>2. UNCHANGED allvars => UNCHANGED vars
      BY DEF allvars, vars, content
    <2>3. QED BY <2>1, <2>2
  <1>3. QED BY <1>1, <1>2, PTL DEF ContentSpec, Spec

\* Likes, reposts, favourites, views and saves: every answer that a mark was turned has turned it, a
\* user has one row, a count that answers a like has it in it, and a tap fails only for the
\* reasons that MarksAgree names, however the taps overlap.
THEOREM MarksAgreeForAll == ContentSpec => []MarksAgree
  <1>1. MarksInv => MarksAgree
    BY MarksAreRight DEF MarksAgree
  <1>2. MarksInv /\ [ContentNext]_allvars => MarksInv'
    BY ContentStep, MarksNext
  <1>3. QED BY MarksInit, <1>1, <1>2, PTL DEF ContentSpec

\* setAvatar, deleteAvatar, uploadMany, remove: the profile names no object that is gone, answered
\* uploads have theirs, and what is left over is explained; ensureImported, parseRange: what is
\* answered is not undone, and a player gets the bytes it has asked for.
THEOREM FilesAgreeForAll == ContentSpec => []FilesAgree
  <1>1. FilesInv /\ TracksInv => FilesAgree
    BY PicturesAreRight, TracksAreRight DEF FilesAgree
  <1>2. FilesInv /\ TracksInv /\ [ContentNext]_allvars => (FilesInv /\ TracksInv)'
    BY ContentStep, FilesNext, TracksNext
  <1>3. QED BY FilesInit, TracksInit, <1>1, <1>2, PTL DEF ContentSpec

\* list, answer: the correct option of a quiz goes to nobody who has not answered it.
THEOREM QuizzesKeepTheirSecret == ContentSpec => []Q!SecretIsKept
  <1>1. StickersInv => Q!SecretIsKept
    BY DEF StickersInv, Q!SecretIsKept
  <1>2. StickersInv /\ [ContentNext]_allvars => StickersInv'
    BY ContentStep, StickersNext
  <1>3. QED BY StickersInit, <1>1, <1>2, PTL DEF ContentSpec

\* results: the rows of the options add up to all the rows, and the shares, each rounded on its own,
\* to 100 but for half a percent per option; nobody is told the correct option before he answers.
THEOREM StickersAgreeForAll == ContentSpec => []StickersAgree
  <1>1. StickersInv /\ PollsInv => StickersAgree
    BY ResultsAddUp DEF StickersAgree
  <1>2. StickersInv /\ PollsInv /\ [ContentNext]_allvars => (StickersInv /\ PollsInv)'
    BY ContentStep, StickersNext, PollsNext
  <1>3. QED BY StickersInit, PollsInit, <1>1, <1>2, PTL DEF ContentSpec

\* buildCursorPage, activity, feed, explore: a client that reads a list to its end has seen every row that
\* stayed in it once, but for the slips that PagesAreComplete counts; rankCandidates,
\* dedupeAuthors: every candidate comes once, in the order that RankingAgrees describes.
THEOREM ListsAgreeForAll == ContentSpec => []ListsAgree
  <1>1. PagesInv /\ RankingInv => ListsAgree
    BY RankingIsRight DEF PagesInv, ListsAgree
  <1>2. PagesInv /\ RankingInv /\ [ContentNext]_allvars => (PagesInv /\ RankingInv)'
    BY ContentStep, PagesNext, PagesStutter, RankingNext
  <1>3. ContentInit => PagesInv /\ RankingInv
    BY PagesBegin, RankingBegin DEF ContentInit
  <1>4. QED BY <1>1, <1>2, <1>3, PTL DEF ContentSpec
=============================================================================
