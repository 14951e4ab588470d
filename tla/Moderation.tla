----------------------------- MODULE Moderation -----------------------------
(***************************************************************************)
(* Content moderation.  An upload inherits the worst verdict on the same   *)
(* bytes or asks for a moderate_image task; the task runs the checkers,    *)
(* writes the score and then the status; administrators decide on pending  *)
(* images, whitelist, trash and restore them.  All of them meet on three   *)
(* columns of the images row: status, is_whitelisted and nsfw_score.       *)
(*                                                                         *)
(* A task, an upload and a whitelisting stop wherever the Go code leaves a *)
(* database statement; an image has at most one moderate_image task, which *)
(* is therefore named by the image.  Scores are 1 at or over the threshold *)
(* and 0 under it.  Which File row an image uses is its hash and surface:  *)
(* rows, objects and reference counts are the subject of ImageStore.       *)
(***************************************************************************)
EXTENDS Integers, FiniteSets

CONSTANTS
  Owners,     \* accounts that upload
  Guest,      \* the owner of an anonymous upload
  Hashes,     \* contents
  Nsfw,       \* contents the provider scores at or over the threshold
  Worded,     \* contents whose OCR text holds a keyword
  Images,     \* pool of image rows
  Sampled,    \* images whose key falls under a fractional login_sample_rate
  Uploads,    \* uploads in flight
  Admins,     \* administrators' requests in flight
  None,       \* "no value"
  Configs,    \* moderation settings an administrator may save
  Runners,    \* task_workers: tasks that run at the same time
  MaxTries,   \* attempts of a task
  MaxEdits,   \* bound on whitelistings and saves of the settings
  MaxFaults   \* bound on checker failures, crashes and lost enqueues

Statuses == {"normal", "pending", "rejected"}
Plugins == {"provider", "ocr_keywords"}
NoScore == -1
Scores == {NoScore, 0, 1}

ConfigRecords ==
  [enabled: BOOLEAN, action: {"pending", "rejected"}, ocr: BOOLEAN,
   onHit: {"review", "block"}, onError: {"open", "review"}, rate: {"all", "some", "none"}]

ASSUME ModerationAssumption ==
  /\ Guest \notin Owners
  /\ None \notin Images \cup Hashes
  /\ Nsfw \subseteq Hashes
  /\ Worded \subseteq Hashes
  /\ Sampled \subseteq Images
  /\ Configs \subseteq ConfigRecords
  /\ Runners \in Nat \ {0}
  /\ MaxTries \in Nat \ {0}
  /\ MaxEdits \in Nat
  /\ MaxFaults \in Nat

VARIABLES
  images,   \* the images table
  config,   \* the moderation setting
  task,     \* the moderate_image task of each image
  up,       \* uploads between their reads, their commit and their enqueue
  admin,    \* whitelistings between their read and their update
  excused,  \* history: images that may stay normal without a verdict of their own
  edits,    \* whitelistings and saves of the settings so far
  faults    \* failures so far

vars == <<images, config, task, up, admin, excused, edits, faults>>

ImageRecords == [st: {"unborn", "live", "trash", "purged"}, owner: Owners \cup {Guest},
                 hash: Hashes \cup {None}, surf: {"public", "private"},
                 status: Statuses, score: Scores, white: BOOLEAN]
Decisions == [score: Scores, status: Statuses]
TaskRecords == [st: {"none", "pending", "checking", "score", "status", "audit", "done", "failed"},
                tries: 0..MaxTries, hash: Hashes \cup {None}, cfg: Configs \cup {None}, dec: Decisions]
UploadRecords == [pc: {"idle", "commit", "enqueue"}, owner: Owners \cup {Guest},
                  hash: Hashes \cup {None}, surf: {"public", "private"}, hit: BOOLEAN,
                  status: Statuses, score: Scores, img: Images \cup {None}]
AdminRecords == [pc: {"idle", "update"}, img: Images \cup {None}, on: BOOLEAN, reset: BOOLEAN]

Unborn == [st |-> "unborn", owner |-> Guest, hash |-> None, surf |-> "public",
           status |-> "normal", score |-> NoScore, white |-> FALSE]
NoDecision == [score |-> NoScore, status |-> "normal"]
NoTask == [st |-> "none", tries |-> 0, hash |-> None, cfg |-> None, dec |-> NoDecision]
NoUpload == [pc |-> "idle", owner |-> Guest, hash |-> None, surf |-> "public", hit |-> FALSE,
             status |-> "normal", score |-> NoScore, img |-> None]
NoRequest == [pc |-> "idle", img |-> None, on |-> FALSE, reset |-> FALSE]

Init ==
  /\ images = [i \in Images |-> Unborn]
  /\ config \in Configs
  /\ task = [i \in Images |-> NoTask]
  /\ up = [u \in Uploads |-> NoUpload]
  /\ admin = [a \in Admins |-> NoRequest]
  /\ excused = {}
  /\ edits = 0
  /\ faults = 0

-----------------------------------------------------------------------------
(* Pure parts: the checkers, the pipeline and the decision.                *)

\* BuildCheckersFromConfig: the switch governs the whole task, OCR included.
Checkers(cfg) ==
  {p \in Plugins : cfg.enabled /\ (p = "provider" \/ cfg.ocr)}

\* thresholdChecker.Check and OCRKeywordsChecker.Check.
Check(p, h, cfg) ==
  IF p = "provider"
    THEN [score |-> IF h \in Nsfw THEN 1 ELSE 0,
          severity |-> IF h \notin Nsfw THEN "none"
                       ELSE IF cfg.action = "rejected" THEN "block" ELSE "review"]
    ELSE [score |-> NoScore, severity |-> IF h \in Worded THEN cfg.onHit ELSE "none"]

\* A failing checker is an error of the whole task only when it is alone and
\* the policy is "open"; otherwise it is skipped, or counts as a review.
PipelineFails(cfg, failing) ==
  cfg.onError = "open" /\ failing # {} /\ Cardinality(Checkers(cfg)) = 1

RunPipeline(h, cfg, failing) ==
  {Check(p, h, cfg) : p \in Checkers(cfg) \ failing}
    \cup {[score |-> NoScore, severity |-> "review"] : p \in {q \in failing : cfg.onError = "review"}}

\* PolicyFromConfig
ActionReview(cfg) == cfg.action
ActionBlock == "rejected"

Worst(set) == IF 1 \in set THEN 1 ELSE IF 0 \in set THEN 0 ELSE NoScore

\* Decide: a block outweighs a review, the score is the largest one.
Decide(results, cfg) ==
  LET severities == {r.severity : r \in results}
  IN [score |-> Worst({r.score : r \in results}),
      status |-> IF "block" \in severities THEN ActionBlock
                 ELSE IF "review" \in severities THEN ActionReview(cfg) ELSE "normal"]

\* ShouldEnqueueModerate: guests always, accounts by a hash of the key.
ShouldEnqueue(i, cfg) ==
  images[i].owner = Guest \/ cfg.rate = "all" \/ (cfg.rate = "some" /\ i \in Sampled)

-----------------------------------------------------------------------------
(* upload.Save, as far as moderation is concerned.                         *)

Live(i) == images[i].st = "live"
Held(i) == images[i].st \in {"live", "trash"}
FileExists(h, s) == \E i \in Images : Held(i) /\ images[i].hash = h /\ images[i].surf = s

\* Images in the trash are outside gorm's default scope: they hand nothing on.
Siblings(h, s, hit) ==
  {i \in Images : Live(i) /\ images[i].hash = h /\ (hit => images[i].surf = s)}

\* inheritModerationFrom on a hit, inheritModerationByHash for a new File.
InheritedStatus(sibs) ==
  LET found == {images[i].status : i \in sibs}
  IN IF "rejected" \in found THEN "rejected" ELSE IF "pending" \in found THEN "pending" ELSE "normal"
InheritedScore(sibs) == Worst({images[i].score : i \in sibs})

\* Save reads the File row and the verdicts on the bytes, outside the
\* transaction that creates the image.
SaveRead(u) ==
  /\ up[u].pc = "idle"
  /\ \E o \in Owners \cup {Guest}, h \in Hashes, s \in {"public", "private"} :
       LET hit == FileExists(h, s)
           sibs == Siblings(h, s, hit)
       IN /\ o = Guest => s = "public"
          /\ ~\E i \in Images : o # Guest /\ hit /\ Live(i) /\ images[i].owner = o
                                /\ images[i].hash = h /\ images[i].surf = s
          /\ up' = [up EXCEPT ![u] = [NoUpload EXCEPT !.pc = "commit", !.owner = o, !.hash = h,
                      !.surf = s, !.hit = hit, !.status = InheritedStatus(sibs),
                      !.score = InheritedScore(sibs)]]
  /\ UNCHANGED <<images, config, task, admin, excused, faults, edits>>

\* Whether a freshly created image asks for a check of its own.
AsksUnlessScored(status, score) == status = "normal" /\ score = NoScore
AsksForCheck(status, score) == status = "normal"

\* commitInstant needs the File row it saw; the other branch creates it, and
\* the unique index on hash and surface refuses a second one.
SaveCommit(u) ==
  /\ up[u].pc = "commit"
  /\ LET j == up[u] IN
     \/ /\ j.hit # FileExists(j.hash, j.surf)
        /\ up' = [up EXCEPT ![u] = NoUpload]
        /\ UNCHANGED images
     \/ /\ j.hit = FileExists(j.hash, j.surf)
        /\ \E i \in Images :
             /\ images[i].st = "unborn"
             /\ images' = [images EXCEPT ![i] = [st |-> "live", owner |-> j.owner, hash |-> j.hash,
                             surf |-> j.surf, status |-> j.status, score |-> j.score,
                             white |-> FALSE]]
             /\ up' = [up EXCEPT ![u] = IF AsksForCheck(j.status, j.score)
                                          THEN [NoUpload EXCEPT !.pc = "enqueue", !.img = i]
                                          ELSE NoUpload]
  /\ UNCHANGED <<config, task, admin, excused, faults, edits>>

\* enqueueModerate, whose own error is only logged.  The read of the row does
\* not find one that is in the trash by now, and then the task is enqueued.
SaveEnqueue(u) ==
  /\ up[u].pc = "enqueue"
  /\ LET i == up[u].img IN
     \/ /\ (Live(i) => ShouldEnqueue(i, config))
        /\ task' = [task EXCEPT ![i] = [NoTask EXCEPT !.st = "pending"]]
        /\ UNCHANGED <<excused, faults>>
     \/ /\ Live(i) /\ ~ShouldEnqueue(i, config)
        /\ excused' = excused \cup {i}
        /\ UNCHANGED <<task, faults>>
     \/ /\ faults < MaxFaults
        /\ faults' = faults + 1
        /\ excused' = excused \cup {i}
        /\ UNCHANGED task
  /\ up' = [up EXCEPT ![u] = NoUpload]
  /\ UNCHANGED <<images, config, admin, edits>>

-----------------------------------------------------------------------------
(* moderation.ModerateTask.                                                *)

Running == {i \in Images : task[i].st \in {"checking", "score", "status", "audit"}}
Finished == [NoTask EXCEPT !.st = "done"]
Excuse(i) == excused' = IF images[i].status = "normal" THEN excused \cup {i} ELSE excused

\* The configuration and the image are read; no checker, an image that is
\* gone, trashed, whitelisted or already decided on end the task.
ModerateRead(i) ==
  /\ task[i].st = "pending"
  /\ Cardinality(Running) < Runners
  /\ \/ /\ Live(i) /\ ~images[i].white /\ images[i].status = "normal" /\ Checkers(config) # {}
        /\ task' = [task EXCEPT ![i].st = "checking", ![i].cfg = config,
                                 ![i].hash = images[i].hash]
        /\ UNCHANGED excused
     \/ /\ ~Live(i) \/ images[i].white \/ images[i].status # "normal" \/ Checkers(config) = {}
        /\ task' = [task EXCEPT ![i] = Finished]
        /\ Excuse(i)
  /\ UNCHANGED <<images, config, up, admin, faults, edits>>

\* One attempt too many.
GivesUpLate(i) == task[i].tries = MaxTries

\* task.Service.Fail: the attempt was the last one.
GivesUp(i) == task[i].tries + 1 = MaxTries

\* The checkers run outside any transaction.  A failing one may end the
\* attempt; the runner retries, and after MaxTries gives up without a verdict.
ModerateCheck(i) ==
  /\ task[i].st = "checking"
  /\ \E failing \in SUBSET Checkers(task[i].cfg) :
       LET cfg == task[i].cfg
           dec == Decide(RunPipeline(task[i].hash, cfg, failing), cfg)
       IN /\ failing # {} => faults < MaxFaults
          /\ faults' = IF failing = {} THEN faults ELSE faults + 1
          /\ \/ /\ PipelineFails(cfg, failing)
                /\ task' = [task EXCEPT ![i] = [NoTask EXCEPT !.tries = task[i].tries + 1,
                              !.st = IF GivesUp(i) THEN "failed" ELSE "pending"]]
                /\ excused' = IF GivesUp(i) THEN excused \cup {i} ELSE excused
             \/ /\ ~PipelineFails(cfg, failing)
                /\ task' = [task EXCEPT ![i] = IF dec = NoDecision THEN Finished
                              ELSE [NoTask EXCEPT !.st = "score", !.tries = task[i].tries,
                                    !.dec = dec]]
                /\ excused' = IF dec.status = "normal" THEN excused \cup {i} ELSE excused
  /\ UNCHANGED <<images, config, up, admin, edits>>

\* The score is written by id, whatever the status has become meanwhile.
ModerateScore(i) ==
  /\ task[i].st = "score"
  /\ images' = IF Live(i) /\ task[i].dec.score # NoScore
                 THEN [images EXCEPT ![i].score = task[i].dec.score] ELSE images
  /\ task' = [task EXCEPT ![i] = IF task[i].dec.status = "normal" THEN Finished
                                 ELSE [task[i] EXCEPT !.st = "status"]]
  /\ UNCHANGED <<config, up, admin, excused, faults, edits>>

\* applyStatusDecision with only the condition on the status.
MayFlagTrusted(i) == Live(i) /\ images[i].status = "normal"

\* applyStatusDecision: the conditional update.
MayFlag(i) == Live(i) /\ images[i].status = "normal" /\ ~images[i].white

ModerateStatus(i) ==
  /\ task[i].st = "status"
  /\ \/ /\ MayFlag(i)
        /\ images' = [images EXCEPT ![i].status = task[i].dec.status]
        /\ task' = [task EXCEPT ![i] = [NoTask EXCEPT !.st = "audit", !.tries = task[i].tries]]
        /\ excused' = excused \ {i}
     \/ /\ ~MayFlag(i)
        /\ task' = [task EXCEPT ![i] = Finished]
        /\ Excuse(i)
        /\ UNCHANGED images
  /\ UNCHANGED <<config, up, admin, faults, edits>>

\* The audit record and the mail are best effort; then the task is done.
ModerateAudit(i) ==
  /\ task[i].st = "audit"
  /\ task' = [task EXCEPT ![i] = Finished]
  /\ UNCHANGED <<images, config, up, admin, excused, faults, edits>>

-----------------------------------------------------------------------------
(* Administrators and owners.                                              *)

\* adminsvc.Decide: one conditional update, so that the first decision wins.
Decidable(i) == Live(i) /\ images[i].status = "pending"

ReviewDecide(i) ==
  /\ Decidable(i)
  /\ \E verdict \in {"normal", "rejected"} :
       /\ images' = [images EXCEPT ![i].status = verdict]
       /\ excused' = IF verdict = "normal" THEN excused \cup {i} ELSE excused
  /\ UNCHANGED <<config, task, up, admin, faults, edits>>

\* SetWhitelist reads the row and decides from it whether to reset the status ...
WhitelistRead(a) ==
  /\ admin[a].pc = "idle"
  /\ edits < MaxEdits
  /\ edits' = edits + 1
  /\ \E i \in Images, on \in BOOLEAN :
       /\ Live(i)
       /\ admin' = [admin EXCEPT ![a] = [pc |-> "update", img |-> i, on |-> on,
                          reset |-> on /\ images[i].status # "normal"]]
  /\ UNCHANGED <<images, config, task, up, excused, faults>>

\* ... and writes what it decided.
WhitelistUpdate(a) ==
  /\ admin[a].pc = "update"
  /\ LET i == admin[a].img IN
     IF Live(i)
       THEN /\ images' = [images EXCEPT ![i].white = admin[a].on,
                            ![i].status = IF admin[a].reset THEN "normal" ELSE @]
            /\ excused' = IF images'[i].status = "normal" THEN excused \cup {i} ELSE excused
       ELSE UNCHANGED <<images, excused>>
  /\ admin' = [admin EXCEPT ![a] = NoRequest]
  /\ UNCHANGED <<config, task, up, faults, edits>>

\* AdminSoftDelete, and the owner's SoftDelete.
Trash(i) ==
  /\ Live(i)
  /\ images' = [images EXCEPT ![i].st = "trash"]
  /\ UNCHANGED <<config, task, up, admin, excused, faults, edits>>

\* AdminRestore, and the owner's Restore: the verdict stays.
Untrash(i) ==
  /\ images[i].st = "trash"
  /\ images' = [images EXCEPT ![i].st = "live"]
  /\ UNCHANGED <<config, task, up, admin, excused, faults, edits>>

\* Any of the ways of purging, in one step.
Purge(i) ==
  /\ images[i].st = "trash"
  /\ images' = [images EXCEPT ![i] = [Unborn EXCEPT !.st = "purged"]]
  /\ excused' = excused \ {i}
  /\ UNCHANGED <<config, task, up, admin, faults, edits>>

\* The settings page saves another valid configuration.
SaveConfig ==
  /\ edits < MaxEdits
  /\ edits' = edits + 1
  /\ config' \in Configs \ {config}
  /\ UNCHANGED <<images, task, up, admin, excused, faults>>

\* A crash forgets the requests in flight; at start the runner takes running
\* tasks up again.  An image committed but not enqueued is never checked.
Crash ==
  /\ faults < MaxFaults
  /\ faults' = faults + 1
  /\ up' = [u \in Uploads |-> NoUpload]
  /\ admin' = [a \in Admins |-> NoRequest]
  /\ task' = [i \in Images |-> IF i \in Running
                                 THEN [NoTask EXCEPT !.st = "pending", !.tries = task[i].tries]
                                 ELSE task[i]]
  /\ excused' = excused \cup {up[u].img : u \in {v \in Uploads : up[v].pc = "enqueue"}}
  /\ UNCHANGED <<images, config, edits>>

Next ==
  \/ \E u \in Uploads : SaveRead(u) \/ SaveCommit(u) \/ SaveEnqueue(u)
  \/ \E i \in Images :
       \/ ModerateRead(i) \/ ModerateCheck(i) \/ ModerateScore(i)
       \/ ModerateStatus(i) \/ ModerateAudit(i)
       \/ ReviewDecide(i) \/ Trash(i) \/ Untrash(i) \/ Purge(i)
  \/ \E a \in Admins : WhitelistRead(a) \/ WhitelistUpdate(a)
  \/ SaveConfig
  \/ Crash

Spec == Init /\ [][Next]_vars

-----------------------------------------------------------------------------
(* Properties.                                                             *)

TypeOK ==
  /\ images \in [Images -> ImageRecords]
  /\ config \in Configs
  /\ task \in [Images -> TaskRecords]
  /\ \A i \in Images : task[i].st \notin {"none", "failed"} => task[i].tries < MaxTries
  /\ up \in [Uploads -> UploadRecords]
  /\ admin \in [Admins -> AdminRecords]
  /\ excused \subseteq Images
  /\ edits \in 0..MaxEdits
  /\ faults \in 0..MaxFaults

\* No image is normal by omission.  It is being committed or its task is
\* still to write a verdict, or there is a reason on record: it was sampled
\* out, checked and found clean, skipped by a task that met it whitelisted,
\* trashed or with moderation off, given up on, lost in a crash, or decided
\* by a person (upload.Save's rule for when to ask for a check).
NormalIsAccountedFor ==
  \A i \in Images :
    Live(i) /\ images[i].status = "normal" =>
      \/ i \in excused
      \/ task[i].st \in {"pending", "checking", "score", "status"}
      \/ \E u \in Uploads : up[u].pc = "enqueue" /\ up[u].img = i

\* What was decided stands.  While an image is whitelisted and normal nothing
\* takes it out of normal, however long ago a task in flight decided to flag it
\* (applyStatusDecision).  And neither a second administrator, nor a task, nor
\* trash and restore turn a rejected image back; only whitelisting does
\* (adminsvc.Decide).
DecisionsStand ==
  [][\A i \in Images :
       /\ images[i].white /\ images[i].status = "normal" /\ images'[i].white => images'[i].status = "normal"
       /\ images[i].status = "rejected" /\ images'[i].status # "rejected" /\ images'[i].st # "purged"
            => images'[i].status = "normal" /\ images'[i].white]_vars

=============================================================================
