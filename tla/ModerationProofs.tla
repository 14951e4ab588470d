-------------------------- MODULE ModerationProofs --------------------------
(***************************************************************************)
(* Theorems about Moderation, for any number of images, uploads and        *)
(* administrators and any set of configurations.                           *)
(***************************************************************************)
EXTENDS Moderation, TLAPS

-----------------------------------------------------------------------------
(* Types, and what a step of a task, an upload or a request implies.       *)

\* A row that was never written is normal.
ImagesTyped ==
  /\ images \in [Images -> ImageRecords]
  /\ \A i \in Images : images[i].st = "unborn" => images[i].status = "normal"

\* A task is not tried once too often, checks under a configuration, and
\* writes no status that says nothing.
TaskShaped(q) ==
  /\ q.st \notin {"none", "failed"} => q.tries < MaxTries
  /\ q.st = "checking" => q.cfg \in Configs
  /\ q.st = "status" => q.dec.status # "normal"

TasksTyped ==
  /\ task \in [Images -> TaskRecords]
  /\ \A i \in Images : TaskShaped(task[i])

UploadsTyped ==
  /\ up \in [Uploads -> UploadRecords]
  /\ \A u \in Uploads : up[u].pc = "enqueue" => up[u].img \in Images

\* Only a whitelisting resets a status.
AdminsTyped ==
  /\ admin \in [Admins -> AdminRecords]
  /\ \A a \in Admins : /\ admin[a].pc = "update" => admin[a].img \in Images
                       /\ admin[a].reset => admin[a].on

RestTyped ==
  /\ config \in Configs
  /\ excused \subseteq Images
  /\ edits \in 0 .. MaxEdits
  /\ faults \in 0 .. MaxFaults

TypeInv == ImagesTyped /\ TasksTyped /\ UploadsTyped /\ AdminsTyped /\ RestTyped

LEMMA Counting ==
  /\ MaxTries \in Nat /\ 0 < MaxTries /\ 0 \in 0 .. MaxTries
  /\ \A t \in 0 .. MaxTries : t \in Nat /\ (t < MaxTries => t + 1 \in 0 .. MaxTries)
  /\ \A n \in 0 .. MaxEdits : n < MaxEdits => n + 1 \in 0 .. MaxEdits
  /\ \A n \in 0 .. MaxFaults : n < MaxFaults => n + 1 \in 0 .. MaxFaults
  /\ 0 \in 0 .. MaxEdits /\ 0 \in 0 .. MaxFaults
BY ModerationAssumption DEF ModerationAssumption

LEMMA ImageChange ==
  ASSUME ImagesTyped, NEW i \in Images, NEW q \in ImageRecords,
         q.st = "unborn" => q.status = "normal",
         images' = [images EXCEPT ![i] = q]
  PROVE  ImagesTyped' /\ images'[i] = q /\ \A j \in Images \ {i} : images'[j] = images[j]
BY DEF ImagesTyped

LEMMA TaskChange ==
  ASSUME TasksTyped, NEW i \in Images, NEW q \in TaskRecords, TaskShaped(q),
         task' = [task EXCEPT ![i] = q]
  PROVE  TasksTyped' /\ task'[i] = q /\ \A j \in Images \ {i} : task'[j] = task[j]
BY DEF TasksTyped

LEMMA TaskAt ==
  ASSUME TasksTyped, NEW i \in Images
  PROVE  task[i] \in TaskRecords /\ TaskShaped(task[i])
BY DEF TasksTyped

LEMMA NoTaskTyped ==
  /\ NoTask \in TaskRecords
  /\ Finished \in TaskRecords /\ TaskShaped(Finished) /\ Finished.st = "done"
  /\ \A n \in 0 .. MaxTries, s \in {"pending", "audit", "failed"} :
       [NoTask EXCEPT !.st = s, !.tries = n] \in TaskRecords
<1>1. NoTask \in TaskRecords
  BY Counting DEF NoTask, TaskRecords, NoDecision, Decisions, Scores, Statuses
<1>2. Finished \in TaskRecords /\ Finished.st = "done" /\ Finished.tries = 0
  BY <1>1 DEF Finished, NoTask, TaskRecords
<1> QED BY <1>1, <1>2, Counting DEF TaskShaped, TaskRecords

\* The task is over.
LEMMA TaskEnds ==
  ASSUME TasksTyped, NEW i \in Images, task' = [task EXCEPT ![i] = Finished]
  PROVE  TasksTyped' /\ task'[i].st = "done" /\ \A j \in Images \ {i} : task'[j] = task[j]
BY NoTaskTyped, TaskChange

\* The task waits for its turn again, or for its audit record.
LEMMA TaskWaits ==
  ASSUME TasksTyped, NEW i \in Images, NEW n \in 0 .. MaxTries,
         NEW s \in {"pending", "audit", "failed"}, s # "failed" => n < MaxTries,
         task' = [task EXCEPT ![i] = [NoTask EXCEPT !.st = s, !.tries = n]]
  PROVE  TasksTyped' /\ task'[i].st = s /\ \A j \in Images \ {i} : task'[j] = task[j]
<1> DEFINE q == [NoTask EXCEPT !.st = s, !.tries = n]
<1>1. q \in TaskRecords /\ q.st = s /\ q.tries = n
  BY NoTaskTyped DEF TaskRecords
<1> HIDE DEF q
<1>2. task' = [task EXCEPT ![i] = q]
  BY DEF q
<1>3. TaskShaped(q)
  BY <1>1 DEF TaskShaped
<1> QED BY <1>1, <1>2, <1>3, TaskChange

\* The verdict is of the right type, whatever the checkers say.
LEMMA DecideType ==
  ASSUME NEW cfg \in Configs, NEW results
  PROVE  Decide(results, cfg) \in Decisions
<1>1. cfg.action \in {"pending", "rejected"}
  BY ModerationAssumption DEF ModerationAssumption, ConfigRecords
<1>2. \A set : Worst(set) \in Scores
  BY DEF Worst, Scores, NoScore
<1> QED BY <1>1, <1>2 DEF Decide, Decisions, Statuses, ActionBlock, ActionReview

-----------------------------------------------------------------------------
(* Each action preserves the type invariant, and what it does to one image *)
(* and to its task, for the invariants that follow.                        *)

LEMMA SaveReadType ==
  ASSUME TypeInv, NEW u \in Uploads, SaveRead(u)
  PROVE  TypeInv'
<1>1. PICK o \in Owners \cup {Guest}, h \in Hashes, s \in {"public", "private"} :
        LET hit == FileExists(h, s)
            sibs == Siblings(h, s, hit)
        IN up' = [up EXCEPT ![u] = [NoUpload EXCEPT !.pc = "commit", !.owner = o, !.hash = h,
                    !.surf = s, !.hit = hit, !.status = InheritedStatus(sibs),
                    !.score = InheritedScore(sibs)]]
  BY ZenonT(60) DEF SaveRead
<1> DEFINE hit == FileExists(h, s)
           sibs == Siblings(h, s, hit)
           q == [NoUpload EXCEPT !.pc = "commit", !.owner = o, !.hash = h,
                   !.surf = s, !.hit = hit, !.status = InheritedStatus(sibs),
                   !.score = InheritedScore(sibs)]
<1>2. /\ InheritedStatus(sibs) \in Statuses /\ InheritedScore(sibs) \in Scores
      /\ hit \in BOOLEAN
  BY DEF InheritedStatus, InheritedScore, Worst, Statuses, Scores, NoScore, FileExists
<1> HIDE DEF hit, sibs
<1>3. q \in UploadRecords /\ q.pc = "commit"
  BY <1>2 DEF NoUpload, UploadRecords
<1>4. up' = [up EXCEPT ![u] = q]
  BY <1>1 DEF hit, sibs
<1> HIDE DEF q
<1>5. UploadsTyped'
  BY <1>3, <1>4 DEF TypeInv, UploadsTyped
<1> QED BY <1>5 DEF SaveRead, TypeInv, ImagesTyped, TasksTyped, AdminsTyped, RestTyped

LEMMA UploadEnds ==
  ASSUME UploadsTyped, NEW u \in Uploads, up' = [up EXCEPT ![u] = NoUpload]
  PROVE  UploadsTyped' /\ up'[u].pc = "idle" /\ \A v \in Uploads \ {u} : up'[v] = up[v]
<1>1. NoUpload \in UploadRecords /\ NoUpload.pc = "idle"
  BY DEF NoUpload, UploadRecords, Statuses, Scores, NoScore
<1> QED BY <1>1 DEF UploadsTyped

\* The commit of a new row, the second branch of SaveCommit.
CommitsAs(u, i) ==
  /\ images[i].st = "unborn"
  /\ images' = [images EXCEPT ![i] = [st |-> "live", owner |-> up[u].owner,
                  hash |-> up[u].hash, surf |-> up[u].surf, status |-> up[u].status,
                  score |-> up[u].score, white |-> FALSE]]
  /\ up' = [up EXCEPT ![u] = IF AsksForCheck(up[u].status, up[u].score)
                               THEN [NoUpload EXCEPT !.pc = "enqueue", !.img = i]
                               ELSE NoUpload]

\* The row is written, and its upload enqueues the task of a normal image.
LEMMA CommitsRow ==
  ASSUME TypeInv, NEW u \in Uploads, NEW i \in Images, CommitsAs(u, i), up[u].pc = "commit"
  PROVE  /\ images[i].st = "unborn" /\ images[i].status = "normal"
         /\ ImagesTyped' /\ UploadsTyped'
         /\ images'[i].st = "live" /\ ~images'[i].white
         /\ \A j \in Images \ {i} : images'[j] = images[j]
         /\ images'[i].status = "normal" => up'[u].pc = "enqueue" /\ up'[u].img = i
         /\ \A v \in Uploads \ {u} : up'[v] = up[v]
<1> DEFINE q == [st |-> "live", owner |-> up[u].owner, hash |-> up[u].hash,
                   surf |-> up[u].surf, status |-> up[u].status,
                   score |-> up[u].score, white |-> FALSE]
           e == [NoUpload EXCEPT !.pc = "enqueue", !.img = i]
<1>1. up[u] \in UploadRecords
  BY DEF TypeInv, UploadsTyped
<1>2. q \in ImageRecords /\ q.st = "live" /\ ~q.white /\ q.status = up[u].status
  BY <1>1 DEF UploadRecords, ImageRecords
<1>3. e \in UploadRecords /\ e.pc = "enqueue" /\ e.img = i
  BY DEF NoUpload, UploadRecords, Statuses, Scores, NoScore
<1>4. NoUpload \in UploadRecords /\ NoUpload.pc = "idle"
  BY DEF NoUpload, UploadRecords, Statuses, Scores, NoScore
<1>5. images' = [images EXCEPT ![i] = q]
  BY DEF CommitsAs
<1>6. up' = [up EXCEPT ![u] = IF AsksForCheck(up[u].status, up[u].score) THEN e ELSE NoUpload]
  BY DEF CommitsAs
<1> HIDE DEF q, e
<1>7. ImagesTyped' /\ images'[i] = q /\ \A j \in Images \ {i} : images'[j] = images[j]
  BY <1>2, <1>5, ImageChange DEF TypeInv
<1>8. UploadsTyped' /\ \A v \in Uploads \ {u} : up'[v] = up[v]
  BY <1>3, <1>4, <1>6 DEF TypeInv, UploadsTyped
<1>9. up[u].status = "normal" => up'[u] = e
  BY <1>6 DEF AsksForCheck, TypeInv, UploadsTyped
<1>10. images[i].st = "unborn" /\ images[i].status = "normal"
  BY DEF CommitsAs, TypeInv, ImagesTyped
<1> QED BY <1>2, <1>3, <1>7, <1>8, <1>9, <1>10

LEMMA SaveCommitType ==
  ASSUME TypeInv, NEW u \in Uploads, SaveCommit(u)
  PROVE  TypeInv'
<1>1. UNCHANGED <<config, task, admin, excused, faults, edits>> /\ up[u].pc = "commit"
  BY DEF SaveCommit
<1>2. ImagesTyped' /\ UploadsTyped'
  <2>1. CASE up' = [up EXCEPT ![u] = NoUpload] /\ UNCHANGED images
    BY <2>1, UploadEnds DEF TypeInv, ImagesTyped
  <2>2. CASE ~(up' = [up EXCEPT ![u] = NoUpload] /\ UNCHANGED images)
    <3>1. PICK i \in Images : CommitsAs(u, i)
      BY <2>2 DEF SaveCommit, CommitsAs
    <3> QED BY <1>1, <3>1, CommitsRow
  <2> QED BY <2>1, <2>2
<1> QED BY <1>1, <1>2 DEF TypeInv, TasksTyped, AdminsTyped, RestTyped

LEMMA SaveEnqueueType ==
  ASSUME TypeInv, NEW u \in Uploads, SaveEnqueue(u)
  PROVE  TypeInv'
<1> DEFINE i == up[u].img
<1>1. /\ i \in Images /\ UNCHANGED <<images, config, admin, edits>>
      /\ up' = [up EXCEPT ![u] = NoUpload]
  BY DEF SaveEnqueue, TypeInv, UploadsTyped
<1>2. UploadsTyped'
  BY <1>1, UploadEnds DEF TypeInv
<1>3. TasksTyped'
  <2>1. CASE task' = [task EXCEPT ![i] = [NoTask EXCEPT !.st = "pending"]]
    <3> DEFINE q == [NoTask EXCEPT !.st = "pending"]
    <3>1. q \in TaskRecords /\ q.st = "pending" /\ q.tries = NoTask.tries /\ NoTask.tries = 0
      BY NoTaskTyped DEF TaskRecords, NoTask
    <3>2. task' = [task EXCEPT ![i] = q]
      BY <2>1
    <3> HIDE DEF q
    <3>3. TaskShaped(q)
      BY <3>1, Counting DEF TaskShaped
    <3> QED BY <1>1, <3>1, <3>2, <3>3, TaskChange DEF TypeInv
  <2>2. CASE UNCHANGED task
    BY <2>2 DEF TypeInv, TasksTyped
  <2> QED BY <2>1, <2>2 DEF SaveEnqueue
<1>4. excused' \subseteq Images /\ faults' \in 0 .. MaxFaults
  BY <1>1, Counting DEF SaveEnqueue, TypeInv, RestTyped
<1> QED BY <1>1, <1>2, <1>3, <1>4 DEF TypeInv, ImagesTyped, AdminsTyped, RestTyped

LEMMA ModerateReadType ==
  ASSUME TypeInv, NEW i \in Images, ModerateRead(i)
  PROVE  TypeInv'
<1>1. UNCHANGED <<images, config, up, admin, faults, edits>> /\ task[i].st = "pending"
        /\ excused' \subseteq Images
  BY DEF ModerateRead, Excuse, TypeInv, RestTyped
<1>2. TasksTyped'
  <2>1. CASE task' = [task EXCEPT ![i] = Finished]
    BY <2>1, TaskEnds DEF TypeInv
  <2>2. CASE /\ task' = [task EXCEPT ![i].st = "checking", ![i].cfg = config,
                                     ![i].hash = images[i].hash]
    <3> DEFINE q == [task[i] EXCEPT !.st = "checking", !.cfg = config, !.hash = images[i].hash]
    <3>1. task[i] \in TaskRecords /\ task[i].tries < MaxTries
      BY <1>1, TaskAt DEF TypeInv, TaskShaped
    <3>2. images[i].hash \in Hashes \cup {None} /\ config \in Configs
      BY DEF TypeInv, ImagesTyped, ImageRecords, RestTyped
    <3>3. /\ q \in TaskRecords /\ q.st = "checking" /\ q.cfg = config
          /\ q.tries = task[i].tries
      BY <3>1, <3>2 DEF TaskRecords
    <3>4. task' = [task EXCEPT ![i] = q]
      BY <2>2, <3>1 DEF TypeInv, TasksTyped
    <3> HIDE DEF q
    <3>5. TaskShaped(q)
      BY <3>1, <3>2, <3>3 DEF TaskShaped
    <3> QED BY <3>3, <3>4, <3>5, TaskChange DEF TypeInv
  <2> QED BY <2>1, <2>2 DEF ModerateRead
<1> QED BY <1>1, <1>2 DEF TypeInv, ImagesTyped, UploadsTyped, AdminsTyped, RestTyped

\* How a check ends: the attempt is repeated or was the last one, or there is
\* a verdict, which is on record as clean or on its way to the row.
LEMMA ModerateCheckDoes ==
  ASSUME TypeInv, NEW i \in Images, ModerateCheck(i)
  PROVE  /\ TasksTyped' /\ \A j \in Images \ {i} : task'[j] = task[j]
         /\ excused' \in {excused, excused \cup {i}}
         /\ i \in excused' \/ task'[i].st \in {"pending", "score"}
         /\ task'[i].st = "score" /\ task'[i].dec.status = "normal" => i \in excused'
         /\ faults' \in 0 .. MaxFaults
<1>1. task[i].st = "checking" /\ task[i] \in TaskRecords /\ task[i].cfg \in Configs
        /\ task[i].tries \in 0 .. MaxTries /\ task[i].tries < MaxTries
  BY TaskAt DEF ModerateCheck, TypeInv, TaskShaped, TaskRecords
<1> DEFINE cfg == task[i].cfg
<1>2. PICK failing \in SUBSET Checkers(cfg) :
        LET dec == Decide(RunPipeline(task[i].hash, cfg, failing), cfg)
        IN /\ failing # {} => faults < MaxFaults
           /\ faults' = IF failing = {} THEN faults ELSE faults + 1
           /\ \/ /\ PipelineFails(cfg, failing)
                 /\ task' = [task EXCEPT ![i] = [NoTask EXCEPT !.tries = task[i].tries + 1,
                               !.st = IF GivesUp(i) THEN "failed" ELSE "pending"]]
                 /\ excused' = IF GivesUp(i) THEN excused \cup {i} ELSE excused
              \/ /\ ~PipelineFails(cfg, failing)
                 /\ task' = [task EXCEPT ![i] = IF dec = NoDecision THEN Finished
                               ELSE [NoTask EXCEPT !.st = "score", !.tries = task[i].tries,
                                     !.dec = dec]]
                 /\ excused' = IF dec.status = "normal" THEN excused \cup {i} ELSE excused
  BY DEF ModerateCheck
<1> DEFINE dec == Decide(RunPipeline(task[i].hash, cfg, failing), cfg)
<1>3. dec \in Decisions
  BY <1>1, DecideType
<1>4. faults' \in 0 .. MaxFaults
  BY <1>2, Counting DEF TypeInv, RestTyped
<1>5. CASE PipelineFails(cfg, failing)
  <2> DEFINE s == IF GivesUp(i) THEN "failed" ELSE "pending"
  <2>1. /\ task' = [task EXCEPT ![i] = [NoTask EXCEPT !.tries = task[i].tries + 1, !.st = s]]
        /\ excused' = IF GivesUp(i) THEN excused \cup {i} ELSE excused
    BY <1>2, <1>5
  <2>2. [NoTask EXCEPT !.tries = task[i].tries + 1, !.st = s]
          = [NoTask EXCEPT !.st = s, !.tries = task[i].tries + 1]
    BY DEF NoTask
  <2>3. task[i].tries + 1 \in 0 .. MaxTries /\ (~GivesUp(i) => task[i].tries + 1 < MaxTries)
    BY <1>1, Counting DEF GivesUp
  <2>4. TasksTyped' /\ task'[i].st = s /\ \A j \in Images \ {i} : task'[j] = task[j]
    BY <2>1, <2>2, <2>3, TaskWaits DEF TypeInv
  <2> QED BY <1>4, <2>1, <2>4
<1>6. CASE ~PipelineFails(cfg, failing)
  <2>1. /\ task' = [task EXCEPT ![i] = IF dec = NoDecision THEN Finished
                      ELSE [NoTask EXCEPT !.st = "score", !.tries = task[i].tries, !.dec = dec]]
        /\ excused' = IF dec.status = "normal" THEN excused \cup {i} ELSE excused
    BY <1>2, <1>6
  <2> HIDE DEF dec
  <2>2. CASE dec = NoDecision
    <3>1. dec.status = "normal"
      BY <2>2 DEF NoDecision
    <3>2. task' = [task EXCEPT ![i] = Finished]
      BY <2>1, <2>2
    <3> QED BY <1>4, <2>1, <3>1, <3>2, TaskEnds DEF TypeInv
  <2>3. CASE dec # NoDecision
    <3> DEFINE q == [NoTask EXCEPT !.st = "score", !.tries = task[i].tries, !.dec = dec]
    <3>1. q \in TaskRecords /\ q.st = "score" /\ q.tries = task[i].tries /\ q.dec = dec
      BY <1>1, <1>3, NoTaskTyped DEF TaskRecords
    <3>2. task' = [task EXCEPT ![i] = q]
      BY <2>1, <2>3
    <3> HIDE DEF q
    <3>3. TaskShaped(q)
      BY <1>1, <3>1 DEF TaskShaped
    <3>4. TasksTyped' /\ task'[i] = q /\ \A j \in Images \ {i} : task'[j] = task[j]
      BY <3>1, <3>2, <3>3, TaskChange DEF TypeInv
    <3> QED BY <1>4, <2>1, <3>1, <3>4
  <2> QED BY <2>2, <2>3
<1> QED BY <1>5, <1>6

LEMMA ModerateCheckType ==
  ASSUME TypeInv, NEW i \in Images, ModerateCheck(i)
  PROVE  TypeInv'
<1>1. UNCHANGED <<images, config, up, admin, edits>>
  BY DEF ModerateCheck
<1> QED BY <1>1, ModerateCheckDoes
        DEF TypeInv, ImagesTyped, UploadsTyped, AdminsTyped, RestTyped

LEMMA ImageAt ==
  ASSUME ImagesTyped, NEW i \in Images
  PROVE  images[i] \in ImageRecords /\ (images[i].st = "unborn" => images[i].status = "normal")
BY DEF ImagesTyped

\* The columns a step writes to a row that is there, one at a time.
LEMMA ColumnTyped ==
  ASSUME ImagesTyped, NEW i \in Images, images[i].st # "unborn"
  PROVE  /\ \A s \in Scores : [images[i] EXCEPT !.score = s] \in ImageRecords
         /\ \A s \in Statuses : [images[i] EXCEPT !.status = s] \in ImageRecords
         /\ \A s \in {"live", "trash"} : [images[i] EXCEPT !.st = s] \in ImageRecords
         /\ [Unborn EXCEPT !.st = "purged"] \in ImageRecords
BY ImageAt DEF ImageRecords, Unborn, Statuses, Scores, NoScore

LEMMA ModerateScoreDoes ==
  ASSUME TypeInv, NEW i \in Images, ModerateScore(i)
  PROVE  /\ TasksTyped' /\ ImagesTyped'
         /\ task'[i].st = IF task[i].dec.status = "normal" THEN "done" ELSE "status"
         /\ \A j \in Images \ {i} : task'[j] = task[j]
         /\ \A j \in Images : /\ images'[j].st = images[j].st
                              /\ images'[j].status = images[j].status
                              /\ images'[j].white = images[j].white
<1>1. task[i].st = "score" /\ task[i] \in TaskRecords /\ task[i].tries < MaxTries
  BY TaskAt DEF ModerateScore, TypeInv, TaskShaped
<1>2. /\ TasksTyped' /\ \A j \in Images \ {i} : task'[j] = task[j]
      /\ task'[i].st = IF task[i].dec.status = "normal" THEN "done" ELSE "status"
  <2>1. CASE task[i].dec.status = "normal"
    BY <2>1, TaskEnds DEF ModerateScore, TypeInv
  <2>2. CASE task[i].dec.status # "normal"
    <3> DEFINE q == [task[i] EXCEPT !.st = "status"]
    <3>1. q \in TaskRecords /\ q.st = "status" /\ q.dec = task[i].dec /\ q.tries = task[i].tries
      BY <1>1 DEF TaskRecords
    <3>2. task' = [task EXCEPT ![i] = q]
      BY <2>2 DEF ModerateScore
    <3> HIDE DEF q
    <3>3. TaskShaped(q)
      BY <1>1, <2>2, <3>1 DEF TaskShaped
    <3> QED BY <2>2, <3>1, <3>2, <3>3, TaskChange DEF TypeInv
  <2> QED BY <2>1, <2>2
<1>3. CASE UNCHANGED images
  BY <1>2, <1>3 DEF TypeInv, ImagesTyped
<1>4. CASE Live(i) /\ images' = [images EXCEPT ![i].score = task[i].dec.score]
  <2> DEFINE q == [images[i] EXCEPT !.score = task[i].dec.score]
  <2>1. images[i] \in ImageRecords /\ images[i].st = "live"
    BY <1>4, ImageAt DEF Live, TypeInv
  <2>2. task[i].dec.score \in Scores
    BY <1>1 DEF TaskRecords, Decisions
  <2>3. /\ q \in ImageRecords /\ q.st = images[i].st /\ q.status = images[i].status
        /\ q.white = images[i].white
    BY <2>1, <2>2 DEF ImageRecords
  <2>4. images' = [images EXCEPT ![i] = q]
    BY <1>4
  <2> HIDE DEF q
  <2> QED BY <1>2, <2>1, <2>3, <2>4, ImageChange DEF TypeInv
<1> QED BY <1>3, <1>4 DEF ModerateScore

\* The verdict reaches a row that is live, normal and not trusted, or none.
LEMMA ModerateStatusDoes ==
  ASSUME TypeInv, NEW i \in Images, ModerateStatus(i)
  PROVE  /\ TasksTyped' /\ ImagesTyped' /\ \A j \in Images \ {i} : task'[j] = task[j]
         /\ task'[i].st \in {"audit", "done"}
         /\ \A j \in Images \ {i} : images'[j] = images[j]
         /\ \/ /\ MayFlag(i) /\ images'[i].status # "normal" /\ excused' = excused \ {i}
            \/ /\ images' = images /\ Excuse(i)
<1>1. task[i].st = "status" /\ task[i] \in TaskRecords /\ TaskShaped(task[i])
  BY TaskAt DEF ModerateStatus, TypeInv
<1>2. CASE MayFlag(i)
  <2>1. /\ images' = [images EXCEPT ![i].status = task[i].dec.status]
        /\ task' = [task EXCEPT ![i] = [NoTask EXCEPT !.st = "audit", !.tries = task[i].tries]]
        /\ excused' = excused \ {i}
    BY <1>2 DEF ModerateStatus
  <2>2. task[i].tries \in 0 .. MaxTries /\ task[i].tries < MaxTries
          /\ task[i].dec.status \in Statuses /\ task[i].dec.status # "normal"
    BY <1>1 DEF TaskRecords, TaskShaped, Decisions
  <2>3. TasksTyped' /\ task'[i].st = "audit" /\ \A j \in Images \ {i} : task'[j] = task[j]
    BY <2>1, <2>2, TaskWaits DEF TypeInv
  <2> DEFINE q == [images[i] EXCEPT !.status = task[i].dec.status]
  <2>4. images[i] \in ImageRecords /\ images[i].st = "live"
    BY <1>2, ImageAt DEF MayFlag, Live, TypeInv
  <2>5. q \in ImageRecords /\ q.st = "live" /\ q.status = task[i].dec.status
    BY <2>2, <2>4 DEF ImageRecords
  <2>6. images' = [images EXCEPT ![i] = q]
    BY <2>1
  <2> HIDE DEF q
  <2>7. ImagesTyped' /\ images'[i] = q /\ \A j \in Images \ {i} : images'[j] = images[j]
    BY <2>5, <2>6, ImageChange DEF TypeInv
  <2> QED BY <1>2, <2>1, <2>2, <2>3, <2>5, <2>7
<1>3. CASE ~MayFlag(i)
  <2>1. task' = [task EXCEPT ![i] = Finished] /\ Excuse(i) /\ UNCHANGED images
    BY <1>3 DEF ModerateStatus
  <2>2. TasksTyped' /\ task'[i].st = "done" /\ \A j \in Images \ {i} : task'[j] = task[j]
    BY <2>1, TaskEnds DEF TypeInv
  <2>3. ImagesTyped'
    BY <2>1 DEF TypeInv, ImagesTyped
  <2> QED BY <2>1, <2>2, <2>3
<1> QED BY <1>2, <1>3

LEMMA LaterStepsType ==
  ASSUME TypeInv, NEW i \in Images, ModerateScore(i) \/ ModerateStatus(i) \/ ModerateAudit(i)
  PROVE  TypeInv'
<1>1. UNCHANGED <<config, up, admin, faults, edits>> /\ excused' \subseteq Images
  BY DEF ModerateScore, ModerateStatus, ModerateAudit, Excuse, TypeInv, RestTyped
<1>2. TasksTyped' /\ ImagesTyped'
  <2>1. CASE ModerateAudit(i)
    BY <2>1, TaskEnds DEF ModerateAudit, TypeInv, ImagesTyped
  <2> QED BY <2>1, ModerateScoreDoes, ModerateStatusDoes
<1> QED BY <1>1, <1>2 DEF TypeInv, UploadsTyped, AdminsTyped, RestTyped

\* What people do to one row.
LEMMA PeopleDo ==
  ASSUME TypeInv, NEW i \in Images, ReviewDecide(i) \/ Trash(i) \/ Untrash(i) \/ Purge(i)
  PROVE  /\ ImagesTyped' /\ \A j \in Images \ {i} : images'[j] = images[j]
         /\ UNCHANGED <<config, task, up, admin, faults, edits>>
         /\ \/ /\ images[i].status = "pending" /\ images'[i].st = images[i].st
               /\ excused' = IF images'[i].status = "normal" THEN excused \cup {i} ELSE excused
            \/ /\ {images[i].st, images'[i].st} \subseteq {"live", "trash"}
               /\ images'[i].status = images[i].status
               /\ UNCHANGED excused
            \/ /\ images[i].st # "unborn" /\ images'[i].st = "purged" /\ ~images'[i].white
               /\ excused' = excused \ {i}
<1>1. images[i] \in ImageRecords /\ images[i].st \in {"live", "trash"}
        /\ UNCHANGED <<config, task, up, admin, faults, edits>>
  BY ImageAt DEF ReviewDecide, Decidable, Trash, Untrash, Purge, Live, TypeInv
<1>2. CASE ReviewDecide(i)
  <2>1. PICK verdict \in {"normal", "rejected"} :
          /\ images' = [images EXCEPT ![i].status = verdict]
          /\ excused' = IF verdict = "normal" THEN excused \cup {i} ELSE excused
    BY <1>2 DEF ReviewDecide
  <2> DEFINE q == [images[i] EXCEPT !.status = verdict]
  <2>2. q \in ImageRecords /\ q.st = images[i].st /\ q.status = verdict
    BY <1>1 DEF ImageRecords, Statuses
  <2>3. images' = [images EXCEPT ![i] = q]
    BY <2>1
  <2> HIDE DEF q
  <2>4. ImagesTyped' /\ images'[i] = q /\ \A j \in Images \ {i} : images'[j] = images[j]
    BY <1>1, <2>2, <2>3, ImageChange DEF TypeInv
  <2> QED BY <1>1, <1>2, <2>1, <2>2, <2>4 DEF ReviewDecide, Decidable
<1>3. CASE Trash(i) \/ Untrash(i)
  <2>1. PICK s \in {"live", "trash"} : images' = [images EXCEPT ![i].st = s]
    BY <1>3 DEF Trash, Untrash
  <2> DEFINE q == [images[i] EXCEPT !.st = s]
  <2>2. q \in ImageRecords /\ q.st = s /\ q.status = images[i].status
    BY <1>1 DEF ImageRecords
  <2>3. images' = [images EXCEPT ![i] = q]
    BY <2>1
  <2> HIDE DEF q
  <2>4. ImagesTyped' /\ images'[i] = q /\ \A j \in Images \ {i} : images'[j] = images[j]
    BY <1>1, <2>2, <2>3, ImageChange DEF TypeInv
  <2> QED BY <1>1, <1>3, <2>2, <2>4 DEF Trash, Untrash
<1>4. CASE Purge(i)
  <2> DEFINE q == [Unborn EXCEPT !.st = "purged"]
  <2>1. q \in ImageRecords /\ q.st = "purged" /\ ~q.white
    BY DEF Unborn, ImageRecords, Statuses, Scores, NoScore
  <2>2. images' = [images EXCEPT ![i] = q] /\ excused' = excused \ {i}
    BY <1>4 DEF Purge
  <2> HIDE DEF q
  <2>3. ImagesTyped' /\ images'[i] = q /\ \A j \in Images \ {i} : images'[j] = images[j]
    BY <2>1, <2>2, ImageChange DEF TypeInv
  <2> QED BY <1>1, <2>1, <2>2, <2>3
<1> QED BY <1>2, <1>3, <1>4

LEMMA PeopleType ==
  ASSUME TypeInv, NEW i \in Images, ReviewDecide(i) \/ Trash(i) \/ Untrash(i) \/ Purge(i)
  PROVE  TypeInv'
<1>1. excused' \subseteq Images
  BY DEF ReviewDecide, Trash, Untrash, Purge, TypeInv, RestTyped
<1> QED BY <1>1, PeopleDo DEF TypeInv, TasksTyped, UploadsTyped, AdminsTyped, RestTyped

LEMMA RequestEnds ==
  ASSUME AdminsTyped, NEW a \in Admins, admin' = [admin EXCEPT ![a] = NoRequest]
  PROVE  AdminsTyped'
<1>1. NoRequest \in AdminRecords /\ NoRequest.pc = "idle" /\ ~NoRequest.reset
  BY DEF NoRequest, AdminRecords
<1> QED BY <1>1 DEF AdminsTyped

LEMMA WhitelistReadType ==
  ASSUME TypeInv, NEW a \in Admins, WhitelistRead(a)
  PROVE  TypeInv'
<1>1. PICK i \in Images, on \in BOOLEAN :
        admin' = [admin EXCEPT ![a] = [pc |-> "update", img |-> i, on |-> on,
                                         reset |-> on /\ images[i].status # "normal"]]
  BY DEF WhitelistRead
<1> DEFINE q == [pc |-> "update", img |-> i, on |-> on,
                   reset |-> on /\ images[i].status # "normal"]
<1>2. q \in AdminRecords /\ q.img = i /\ (q.reset => q.on)
  BY DEF AdminRecords
<1>3. admin' = [admin EXCEPT ![a] = q]
  BY <1>1
<1> HIDE DEF q
<1>4. AdminsTyped'
  BY <1>2, <1>3 DEF TypeInv, AdminsTyped
<1>5. edits' \in 0 .. MaxEdits
  BY Counting DEF WhitelistRead, TypeInv, RestTyped
<1> QED BY <1>4, <1>5 DEF WhitelistRead, TypeInv, ImagesTyped, TasksTyped, UploadsTyped, RestTyped

\* A whitelisting resets the status only of the row it trusts.
LEMMA WhitelistUpdateDoes ==
  ASSUME TypeInv, NEW a \in Admins, WhitelistUpdate(a)
  PROVE  /\ ImagesTyped' /\ AdminsTyped' /\ excused' \subseteq Images
         /\ \/ /\ UNCHANGED <<images, excused>>
            \/ \E i \in Images :
                 /\ images[i].st = "live" /\ images'[i].st = "live"
                 /\ \/ images'[i].status = images[i].status
                    \/ images'[i].status = "normal" /\ images'[i].white
                 /\ images'[i].status = "normal" => i \in excused'
                 /\ excused \subseteq excused'
                 /\ \A j \in Images \ {i} : images'[j] = images[j]
<1> DEFINE i == admin[a].img
<1>1. /\ i \in Images /\ admin[a] \in AdminRecords /\ (admin[a].reset => admin[a].on)
      /\ admin' = [admin EXCEPT ![a] = NoRequest]
  BY DEF WhitelistUpdate, TypeInv, AdminsTyped
<1>2. AdminsTyped'
  BY <1>1, RequestEnds DEF TypeInv
<1>3. CASE ~Live(i)
  BY <1>2, <1>3 DEF WhitelistUpdate, TypeInv, ImagesTyped, RestTyped
<1>4. CASE Live(i)
  <2> DEFINE q == [images[i] EXCEPT !.white = admin[a].on,
                     !.status = IF admin[a].reset THEN "normal" ELSE @]
  <2>1. images[i] \in ImageRecords /\ images[i].st = "live" /\ admin[a].on \in BOOLEAN
    BY <1>1, <1>4, ImageAt DEF Live, TypeInv, AdminRecords
  <2>2. q \in ImageRecords
    BY <2>1 DEF ImageRecords, Statuses
  <2>3. /\ q.st = "live" /\ q.white = admin[a].on
        /\ q.status = IF admin[a].reset THEN "normal" ELSE images[i].status
    BY <2>1 DEF ImageRecords
  <2>4. images' = [images EXCEPT ![i] = q]
    BY <1>1, <1>4 DEF WhitelistUpdate, TypeInv, ImagesTyped
  <2>5. excused' = IF images'[i].status = "normal" THEN excused \cup {i} ELSE excused
    BY <1>4 DEF WhitelistUpdate
  <2> HIDE DEF q
  <2>6. ImagesTyped' /\ images'[i] = q /\ \A j \in Images \ {i} : images'[j] = images[j]
    BY <1>1, <2>2, <2>3, <2>4, ImageChange DEF TypeInv
  <2>7. images'[i].status = images[i].status \/ (images'[i].status = "normal" /\ images'[i].white)
    BY <1>1, <2>3, <2>6
  <2>8. excused' \subseteq Images /\ excused \subseteq excused'
    BY <1>1, <2>5 DEF TypeInv, RestTyped
  <2> HIDE DEF i
  <2> QED BY <1>1, <1>2, <2>1, <2>3, <2>5, <2>6, <2>7, <2>8
<1> QED BY <1>3, <1>4

LEMMA WhitelistUpdateType ==
  ASSUME TypeInv, NEW a \in Admins, WhitelistUpdate(a)
  PROVE  TypeInv'
BY WhitelistUpdateDoes DEF WhitelistUpdate, TypeInv, TasksTyped, UploadsTyped, RestTyped

\* A crash: running tasks wait again, and requests are forgotten.
LEMMA CrashDoes ==
  ASSUME TypeInv, Crash
  PROVE  /\ TypeInv'
         /\ \A i \in Images : IF i \in Running THEN task'[i].st = "pending"
                                               ELSE task'[i] = task[i]
<1>1. ASSUME NEW i \in Images
      PROVE  /\ task'[i] \in TaskRecords /\ TaskShaped(task'[i])
             /\ IF i \in Running THEN task'[i].st = "pending" ELSE task'[i] = task[i]
  <2>1. task[i] \in TaskRecords /\ TaskShaped(task[i]) /\ task[i].tries \in 0 .. MaxTries
    BY TaskAt DEF TypeInv, TaskRecords
  <2>2. CASE i \notin Running
    BY <2>1, <2>2 DEF Crash
  <2>3. CASE i \in Running
    <3> DEFINE q == [NoTask EXCEPT !.st = "pending", !.tries = task[i].tries]
    <3>1. q \in TaskRecords /\ q.st = "pending" /\ q.tries = task[i].tries
      BY <2>1, NoTaskTyped DEF TaskRecords
    <3>2. task'[i] = q
      BY <2>3 DEF Crash
    <3> HIDE DEF q
    <3>3. task[i].tries < MaxTries
      BY <2>1, <2>3 DEF Running, TaskShaped
    <3> QED BY <2>3, <3>1, <3>2, <3>3 DEF TaskShaped
  <2> QED BY <2>2, <2>3
<1>2. TasksTyped'
  BY <1>1 DEF Crash, TasksTyped
<1>3. UploadsTyped' /\ AdminsTyped'
  BY DEF Crash, UploadsTyped, AdminsTyped, NoUpload, UploadRecords, NoRequest, AdminRecords,
         Statuses, Scores, NoScore
<1>4. excused' \subseteq Images /\ faults' \in 0 .. MaxFaults
  BY Counting DEF Crash, TypeInv, RestTyped, UploadsTyped
<1> QED BY <1>1, <1>2, <1>3, <1>4 DEF Crash, TypeInv, ImagesTyped, RestTyped

\* The types of Moderation.
THEOREM ModerationTypes == Spec => []TypeInv
<1>1. Init => TypeInv
  <2> SUFFICES ASSUME Init PROVE TypeInv
    OBVIOUS
  <2>1. ImagesTyped
    BY DEF Init, ImagesTyped, Unborn, ImageRecords, Statuses, Scores, NoScore
  <2>2. TasksTyped
    BY NoTaskTyped DEF Init, TasksTyped, TaskShaped, NoTask
  <2>3. UploadsTyped /\ AdminsTyped
    BY DEF Init, UploadsTyped, AdminsTyped, NoUpload, UploadRecords, NoRequest, AdminRecords,
           Statuses, Scores, NoScore
  <2> QED BY <2>1, <2>2, <2>3, Counting DEF Init, TypeInv, RestTyped
<1>2. TypeInv /\ [Next]_vars => TypeInv'
  <2> SUFFICES ASSUME TypeInv, [Next]_vars PROVE TypeInv'
    OBVIOUS
  <2>1. CASE SaveConfig
    <3>1. edits' \in 0 .. MaxEdits
      BY <2>1, Counting DEF SaveConfig, TypeInv, RestTyped
    <3> QED BY <2>1, <3>1 DEF SaveConfig, TypeInv, ImagesTyped, TasksTyped, UploadsTyped,
             AdminsTyped, RestTyped
  <2>2. CASE UNCHANGED vars
    BY <2>2 DEF vars, TypeInv, ImagesTyped, TasksTyped, UploadsTyped, AdminsTyped, RestTyped
  <2> QED BY <2>1, <2>2, SaveReadType, SaveCommitType, SaveEnqueueType, ModerateReadType,
         ModerateCheckType, LaterStepsType, PeopleType, WhitelistReadType, WhitelistUpdateType,
         CrashDoes DEF Next
<1> QED BY <1>1, <1>2, PTL DEF Spec

\* The type invariant that the runs check.
THEOREM ModerationTypeOK == Spec => []TypeOK
<1>1. TypeInv => TypeOK
  BY DEF TypeInv, ImagesTyped, TasksTyped, TaskShaped, UploadsTyped, AdminsTyped, RestTyped, TypeOK
<1> QED BY <1>1, ModerationTypes, PTL

-----------------------------------------------------------------------------
(* No image is normal by omission.  The trash keeps the account, because a *)
(* restored image is served again, and a task that is to write a clean     *)
(* score has excused its image already.                                    *)

Asked(i) == \E u \in Uploads : up[u].pc = "enqueue" /\ up[u].img = i
Checked(i) == task[i].st \in {"pending", "checking", "score", "status"}

Accounted(i) ==
  /\ Held(i) /\ images[i].status = "normal" => i \in excused \/ Checked(i) \/ Asked(i)
  /\ task[i].st = "score" /\ task[i].dec.status = "normal" => i \in excused \/ images[i].st = "purged"

AccountInv == \A i \in Images : Accounted(i)

\* A step that leaves an image, its task and who asks for it alone.
LEMMA LeftAlone ==
  ASSUME NEW i \in Images, Accounted(i), UNCHANGED <<images[i], task[i]>>,
         Asked(i) => Asked(i)' \/ Checked(i)' \/ i \in excused',
         i \in excused => i \in excused'
  PROVE  Accounted(i)'
BY DEF Accounted, Held, Checked

LEMMA UploadAccounts ==
  ASSUME TypeInv, AccountInv, NEW u \in Uploads,
         SaveRead(u) \/ SaveCommit(u) \/ SaveEnqueue(u)
  PROVE  AccountInv'
<1> SUFFICES ASSUME NEW i \in Images PROVE Accounted(i)'
  BY DEF AccountInv
<1>1. Accounted(i) /\ up[u] \in UploadRecords
  BY DEF AccountInv, TypeInv, UploadsTyped
<1>2. CASE SaveRead(u)
  <2>1. up[u].pc = "idle" /\ UNCHANGED <<images, task, excused>>
          /\ \A v \in Uploads \ {u} : up'[v] = up[v]
    BY <1>2 DEF SaveRead, TypeInv, UploadsTyped
  <2>2. Asked(i) => Asked(i)'
    BY <2>1 DEF Asked
  <2> QED BY <1>1, <2>1, <2>2, LeftAlone
<1>3. CASE SaveCommit(u)
  <2>1. up[u].pc = "commit" /\ UNCHANGED <<task, excused>>
    BY <1>3 DEF SaveCommit
  <2>2. CASE up' = [up EXCEPT ![u] = NoUpload] /\ UNCHANGED images
    <3>1. Asked(i) => Asked(i)'
      BY <2>1, <2>2, UploadEnds DEF Asked, TypeInv
    <3> QED BY <1>1, <2>1, <2>2, <3>1, LeftAlone
  <2>3. CASE ~(up' = [up EXCEPT ![u] = NoUpload] /\ UNCHANGED images)
    <3>1. PICK k \in Images : CommitsAs(u, k)
      BY <2>3, <1>3 DEF SaveCommit, CommitsAs
    <3>2. /\ images'[k].st = "live" /\ images[k].st = "unborn"
          /\ \A j \in Images \ {k} : images'[j] = images[j]
          /\ images'[k].status = "normal" => up'[u].pc = "enqueue" /\ up'[u].img = k
          /\ \A v \in Uploads \ {u} : up'[v] = up[v]
      BY <2>1, <3>1, CommitsRow
    <3>3. Asked(i) => Asked(i)'
      BY <2>1, <3>2 DEF Asked
    <3>4. CASE i = k
      BY <1>1, <2>1, <3>1, <3>2, <3>4 DEF Accounted, Held, Asked, Checked
    <3>5. CASE i # k
      BY <1>1, <2>1, <3>2, <3>3, <3>5, LeftAlone
    <3> QED BY <3>4, <3>5
  <2> QED BY <2>2, <2>3
<1>4. CASE SaveEnqueue(u)
  <2> DEFINE k == up[u].img
  <2>1. /\ k \in Images /\ UNCHANGED images /\ up[u].pc = "enqueue"
        /\ up' = [up EXCEPT ![u] = NoUpload]
    BY <1>4 DEF SaveEnqueue, TypeInv, UploadsTyped
  <2>2. \A v \in Uploads \ {u} : up'[v] = up[v]
    BY <2>1, UploadEnds DEF TypeInv
  <2>3. i # k => (Asked(i) => Asked(i)')
    BY <2>2 DEF Asked
  <2>4. CASE /\ task' = [task EXCEPT ![k] = [NoTask EXCEPT !.st = "pending"]]
             /\ UNCHANGED excused
    <3>1. [NoTask EXCEPT !.st = "pending"].st = "pending"
      BY DEF NoTask
    <3>2. task'[k].st = "pending" /\ \A j \in Images \ {k} : task'[j] = task[j]
      BY <2>1, <2>4, <3>1 DEF TypeInv, TasksTyped
    <3>3. CASE i = k
      BY <3>2, <3>3 DEF Accounted, Checked
    <3>4. CASE i # k
      BY <1>1, <2>1, <2>3, <2>4, <3>2, <3>4, LeftAlone
    <3> QED BY <3>3, <3>4
  <2>5. CASE UNCHANGED task /\ excused' = excused \cup {k}
    <3>1. CASE i = k
      BY <2>5, <3>1 DEF Accounted
    <3>2. CASE i # k
      BY <1>1, <2>1, <2>3, <2>5, <3>2, LeftAlone
    <3> QED BY <3>1, <3>2
  <2> QED BY <1>4, <2>4, <2>5 DEF SaveEnqueue
<1> QED BY <1>2, <1>3, <1>4

LEMMA TaskAccounts ==
  ASSUME TypeInv, AccountInv, NEW k \in Images,
         ModerateRead(k) \/ ModerateCheck(k) \/ ModerateScore(k) \/ ModerateStatus(k)
           \/ ModerateAudit(k)
  PROVE  AccountInv'
<1> SUFFICES ASSUME NEW i \in Images PROVE Accounted(i)'
  BY DEF AccountInv
<1>1. Accounted(i) /\ UNCHANGED up
  BY DEF AccountInv, ModerateRead, ModerateCheck, ModerateScore, ModerateStatus, ModerateAudit
<1>2. Asked(i)' <=> Asked(i)
  BY <1>1 DEF Asked
<1>3. CASE ModerateRead(k)
  <2>1. task[k].st = "pending" /\ UNCHANGED images /\ task' = [task EXCEPT ![k] = task'[k]]
    BY <1>3 DEF ModerateRead, TypeInv, TasksTyped
  <2>2. \/ task'[k].st = "checking" /\ UNCHANGED excused
        \/ task'[k].st = "done" /\ Excuse(k)
    BY <1>3, TaskAt, TaskEnds DEF ModerateRead, TypeInv, TasksTyped, TaskRecords
  <2>3. CASE i = k
    BY <2>1, <2>2, <2>3 DEF Accounted, Checked, Excuse
  <2>4. CASE i # k
    <3>1. task'[i] = task[i]
      BY <1>3, <2>4 DEF ModerateRead, TypeInv, TasksTyped
    <3> QED BY <1>1, <1>2, <2>1, <2>2, <3>1, LeftAlone DEF Excuse
  <2> QED BY <2>3, <2>4
<1>4. CASE ModerateCheck(k)
  <2>1. UNCHANGED images
    BY <1>4 DEF ModerateCheck
  <2>2. CASE i = k
    BY <1>4, <2>1, <2>2, ModerateCheckDoes DEF Accounted, Checked
  <2>3. CASE i # k
    BY <1>1, <1>2, <1>4, <2>1, <2>3, ModerateCheckDoes, LeftAlone
  <2> QED BY <2>2, <2>3
<1>5. CASE ModerateScore(k)
  <2>1. task[k].st = "score" /\ UNCHANGED excused
    BY <1>5 DEF ModerateScore
  <2>2. /\ task'[k].st = IF task[k].dec.status = "normal" THEN "done" ELSE "status"
        /\ \A j \in Images \ {k} : task'[j] = task[j]
        /\ images'[i].st = images[i].st /\ images'[i].status = images[i].status
    BY <1>5, ModerateScoreDoes
  <2>3. CASE i = k
    BY <1>1, <2>1, <2>2, <2>3 DEF Accounted, Checked, Held
  <2>4. CASE i # k
    BY <1>1, <1>2, <2>1, <2>2, <2>4 DEF Accounted, Checked, Held
  <2> QED BY <2>3, <2>4
<1>6. CASE ModerateStatus(k)
  <2>1. CASE i = k
    BY <1>6, <2>1, ModerateStatusDoes DEF Accounted, Excuse
  <2>2. CASE i # k
    BY <1>1, <1>2, <1>6, <2>2, ModerateStatusDoes, LeftAlone DEF Excuse
  <2> QED BY <2>1, <2>2
<1>7. CASE ModerateAudit(k)
  <2>1. /\ task[k].st = "audit" /\ UNCHANGED <<images, excused>>
        /\ task'[k].st = "done" /\ \A j \in Images \ {k} : task'[j] = task[j]
    BY <1>7, TaskEnds DEF ModerateAudit, TypeInv
  <2>2. CASE i = k
    BY <1>1, <1>2, <2>1, <2>2 DEF Accounted, Checked, Held
  <2>3. CASE i # k
    BY <1>1, <1>2, <2>1, <2>3, LeftAlone
  <2> QED BY <2>2, <2>3
<1> QED BY <1>3, <1>4, <1>5, <1>6, <1>7

LEMMA PeopleAccount ==
  ASSUME TypeInv, AccountInv, NEW k \in Images,
         ReviewDecide(k) \/ Trash(k) \/ Untrash(k) \/ Purge(k)
  PROVE  AccountInv'
<1> SUFFICES ASSUME NEW i \in Images PROVE Accounted(i)'
  BY DEF AccountInv
<1>1. Accounted(i) /\ UNCHANGED <<task, up>>
  BY PeopleDo DEF AccountInv
<1>2. (Asked(i)' <=> Asked(i)) /\ (Checked(i)' <=> Checked(i))
  BY <1>1 DEF Asked, Checked
<1>3. CASE i = k
  BY <1>1, <1>2, <1>3, PeopleDo DEF Accounted, Held
<1>4. CASE i # k
  BY <1>1, <1>2, <1>4, PeopleDo, LeftAlone
<1> QED BY <1>3, <1>4

LEMMA WhitelistAccounts ==
  ASSUME TypeInv, AccountInv, NEW a \in Admins, WhitelistRead(a) \/ WhitelistUpdate(a)
  PROVE  AccountInv'
<1> SUFFICES ASSUME NEW i \in Images PROVE Accounted(i)'
  BY DEF AccountInv
<1>1. Accounted(i) /\ UNCHANGED <<task, up>>
  BY DEF AccountInv, WhitelistRead, WhitelistUpdate
<1>2. (Asked(i)' <=> Asked(i)) /\ (Checked(i)' <=> Checked(i))
  BY <1>1 DEF Asked, Checked
<1>3. CASE UNCHANGED <<images, excused>>
  BY <1>1, <1>2, <1>3, LeftAlone
<1>4. CASE ~UNCHANGED <<images, excused>>
  <2>1. WhitelistUpdate(a)
    BY <1>4 DEF WhitelistRead
  <2>2. PICK k \in Images :
          /\ images[k].st = "live"
          /\ images'[k].status = "normal" => k \in excused'
          /\ excused \subseteq excused'
          /\ \A j \in Images \ {k} : images'[j] = images[j]
    BY <1>4, <2>1, WhitelistUpdateDoes
  <2>3. CASE i = k
    BY <1>1, <2>2, <2>3 DEF Accounted
  <2>4. CASE i # k
    BY <1>1, <1>2, <2>2, <2>4, LeftAlone
  <2> QED BY <2>3, <2>4
<1> QED BY <1>3, <1>4

LEMMA CrashAccounts ==
  ASSUME TypeInv, AccountInv, Crash
  PROVE  AccountInv'
<1> SUFFICES ASSUME NEW i \in Images PROVE Accounted(i)'
  BY DEF AccountInv
<1>1. /\ Accounted(i) /\ UNCHANGED images /\ excused \subseteq excused'
      /\ IF i \in Running THEN task'[i].st = "pending" ELSE task'[i] = task[i]
      /\ Asked(i) => i \in excused'
  BY CrashDoes DEF AccountInv, Crash, Asked
<1> QED BY <1>1 DEF Accounted, Checked, Held

THEOREM EveryImageAccounted == Spec => []AccountInv
<1>1. Init => AccountInv
  BY DEF Init, AccountInv, Accounted, Held, Unborn, NoTask
<1>2. TypeInv /\ AccountInv /\ [Next]_vars => AccountInv'
  <2> SUFFICES ASSUME TypeInv, AccountInv, [Next]_vars PROVE AccountInv'
    OBVIOUS
  <2>1. ASSUME UNCHANGED <<images, task, up, excused>> PROVE AccountInv'
    BY <2>1 DEF AccountInv, Accounted, Held, Checked, Asked
  <2>2. CASE SaveConfig \/ UNCHANGED vars
    BY <2>1, <2>2 DEF SaveConfig, vars
  <2> QED BY <2>2, UploadAccounts, TaskAccounts, PeopleAccount, WhitelistAccounts, CrashAccounts
      DEF Next
<1> QED BY <1>1, <1>2, ModerationTypes, PTL DEF Spec

\* No live image is normal by omission (upload.Save's rule for when to ask for
\* a check, and every way a task may end without a verdict).
THEOREM NormalAccounted == Spec => []NormalIsAccountedFor
<1>1. AccountInv => NormalIsAccountedFor
  BY DEF AccountInv, Accounted, NormalIsAccountedFor, Held, Live, Checked, Asked
<1> QED BY <1>1, EveryImageAccounted, PTL

-----------------------------------------------------------------------------
(* Decisions.                                                              *)

Stands(i) ==
  /\ images[i].white /\ images[i].status = "normal" /\ images'[i].white
       => images'[i].status = "normal"
  /\ images[i].status = "rejected" /\ images'[i].status # "rejected" /\ images'[i].st # "purged"
       => images'[i].status = "normal" /\ images'[i].white

\* What was decided stands, step by step (applyStatusDecision's condition on
\* is_whitelisted, and the first decision of adminsvc.Decide): the condition
\* each statement repeats is enough, whatever was read before.
THEOREM DecisionsAreKept == Spec => DecisionsStand
<1>1. TypeInv /\ [Next]_vars => [\A i \in Images : Stands(i)]_vars
  <2> SUFFICES ASSUME TypeInv, [Next]_vars, NEW i \in Images PROVE Stands(i)
    OBVIOUS
  <2>1. ASSUME UNCHANGED images PROVE Stands(i)
    BY <2>1 DEF Stands
  <2>2. ASSUME NEW u \in Uploads, SaveCommit(u), ~UNCHANGED images PROVE Stands(i)
    <3>1. PICK k \in Images : CommitsAs(u, k)
      BY <2>2 DEF SaveCommit, CommitsAs
    <3>2. /\ images[k].status = "normal" /\ ~images'[k].white
          /\ \A j \in Images \ {k} : images'[j] = images[j]
      BY ZenonT(60), <2>2, <3>1, CommitsRow DEF SaveCommit
    <3> QED BY <3>2 DEF Stands
  <2>3. ASSUME NEW k \in Images, ModerateScore(k) PROVE Stands(i)
    BY <2>3, ModerateScoreDoes DEF Stands
  <2>4. ASSUME NEW k \in Images, ModerateStatus(k) PROVE Stands(i)
    BY <2>4, ModerateStatusDoes DEF Stands, MayFlag
  <2>5. ASSUME NEW k \in Images, ReviewDecide(k) \/ Trash(k) \/ Untrash(k) \/ Purge(k)
        PROVE  Stands(i)
    BY <2>5, PeopleDo DEF Stands
  <2>6. ASSUME NEW a \in Admins, WhitelistUpdate(a) PROVE Stands(i)
    BY <2>6, WhitelistUpdateDoes DEF Stands
  <2>7. ASSUME NEW u \in Uploads, SaveRead(u) \/ SaveEnqueue(u) PROVE Stands(i)
    BY <2>1, <2>7 DEF SaveRead, SaveEnqueue
  <2>8. ASSUME NEW k \in Images, ModerateRead(k) \/ ModerateCheck(k) \/ ModerateAudit(k)
        PROVE  Stands(i)
    BY <2>1, <2>8 DEF ModerateRead, ModerateCheck, ModerateAudit
  <2>9. ASSUME NEW a \in Admins, WhitelistRead(a) PROVE Stands(i)
    BY <2>1, <2>9 DEF WhitelistRead
  <2>10. CASE SaveConfig \/ Crash \/ UNCHANGED vars
    BY <2>1, <2>10 DEF SaveConfig, Crash, vars
  <2> QED BY <2>1, <2>2, <2>3, <2>4, <2>5, <2>6, <2>7, <2>8, <2>9, <2>10 DEF Next
<1>2. [\A i \in Images : Stands(i)]_vars =>
        [\A i \in Images :
           /\ images[i].white /\ images[i].status = "normal" /\ images'[i].white
                => images'[i].status = "normal"
           /\ images[i].status = "rejected" /\ images'[i].status # "rejected"
                /\ images'[i].st # "purged"
                => images'[i].status = "normal" /\ images'[i].white]_vars
  BY DEF Stands
<1> QED BY <1>1, <1>2, ModerationTypes, PTL DEF Spec, DecisionsStand

=============================================================================
