------------------------------ MODULE Migration ------------------------------
(***************************************************************************)
(* Moving stored files from one storage policy to another.  A job is a row *)
(* of storage_migrate_jobs, executed by a goroutine that lists the files   *)
(* of the source in batches, copies each object, repoints the file row and *)
(* may delete the source object; after a batch it persists its cursor.     *)
(* Jobs are cancelled, fail, are resumed, and are taken up again at start. *)
(* Meanwhile files are uploaded and purged, and administrators disable and *)
(* delete policies.                                                        *)
(*                                                                         *)
(* A file is named by its id, which orders the batches, and its object by  *)
(* the policy that holds it: the path never changes.  Thumbnails follow    *)
(* their original best effort and are left out, as are the counters that   *)
(* are only shown; the files scanned are counted when there is a limit.    *)
(***************************************************************************)
EXTENDS Integers, FiniteSets

CONSTANTS
  Policies,    \* storage policies
  MaxFile,     \* file ids are 1 .. MaxFile
  Seeded,      \* files that are there at the start
  Jobs,        \* migration job ids
  Options,     \* what an administrator may ask of a job
  Batch,       \* files per batch (migrateJobBatch)
  None,        \* "no value"
  MaxEvents    \* bound on policies disabled or deleted, failed copies and crashes

Files == 1 .. MaxFile
OptionRecords == [from: Policies, to: Policies, dry: BOOLEAN, delete: BOOLEAN, limit: Nat,
                  only: SUBSET Files]

ASSUME MigrationAssumption ==
  /\ MaxFile \in Nat
  /\ Seeded \in 0 .. MaxFile
  /\ Batch \in Nat \ {0}
  /\ Options \subseteq OptionRecords
  /\ \A o \in Options : o.from # o.to
  /\ None \notin Options \cup Policies
  /\ MaxEvents \in Nat

VARIABLES
  policy,   \* the storage_policies table: "enabled", "disabled" or "deleted"
  files,    \* the policy of each file row, None before the upload and after a purge
  next,     \* the next file id
  objects,  \* objects present in storage, by policy and file
  jobs,     \* the storage_migrate_jobs table
  run,      \* the goroutine of each job
  live,     \* jobs registered in the map of live jobs, through which they are cancelled
  leaving,  \* jobs of which an ended goroutine has yet to clean that map
  events,   \* policies disabled or deleted, failed copies and crashes so far
  missed,   \* history: files each job without a limit may leave behind on its source
  crossed   \* history: files on which two goroutines undid each other's work

vars == <<policy, files, next, objects, jobs, run, live, leaving,
          events, missed, crossed>>

env == <<policy, next>>

Active == {"pending", "running"}
Statuses == Active \cup {"none", "done", "failed", "cancelled"}
JobRecords == [status: Statuses, opt: Options \cup {None}, cursor: 0 .. MaxFile, scanned: Nat]
RunRecords == [pc: {"none", "load", "begin", "loop", "copy", "update", "delete", "batch",
                    "done", "failed", "cancelled"},
               cancel: BOOLEAN, cursor: 0 .. MaxFile, scanned: Nat, todo: SUBSET Files,
               full: BOOLEAN, last: 0 .. MaxFile]

NoJob == [status |-> "none", opt |-> None, cursor |-> 0, scanned |-> 0]
NoRun == [pc |-> "none", cancel |-> FALSE, cursor |-> 0, scanned |-> 0, todo |-> {},
          full |-> FALSE, last |-> 0]

Init ==
  /\ policy = [p \in Policies |-> "enabled"]
  /\ \E p \in Policies :
       /\ files = [f \in Files |-> IF f <= Seeded THEN p ELSE None]
       /\ objects = {<<p, f>> : f \in 1 .. Seeded}
  /\ next = Seeded + 1
  /\ jobs = [j \in Jobs |-> NoJob]
  /\ run = [j \in Jobs |-> NoRun]
  /\ live = {}
  /\ leaving = {}
  /\ events = 0
  /\ missed = [j \in Jobs |-> {}]
  /\ crossed = {}

Smallest(S) == CHOOSE x \in S : \A y \in S : x <= y
Opt(j) == jobs[j].opt
Tracked(j) == jobs[j].status \notin {"none", "cancelled"} /\ Opt(j).limit = 0
At(j, step) == run[j].pc = step
Goto(j, step) == run' = [run EXCEPT ![j].pc = step]

-----------------------------------------------------------------------------
(* The administrator: start, cancel and resume.                            *)

\* insertActiveJob and the partial unique index: one pending or running job
\* for each source.
SourceFree(p) == \A k \in Jobs : ~(jobs[k].status \in Active /\ Opt(k).from = p)

\* validateMigrateOpts
Valid(o) == policy[o.to] = "enabled" /\ policy[o.from] # "deleted"

StartMigrateJob(j) ==
  /\ jobs[j].status = "none"
  /\ \E o \in Options :
       /\ Valid(o)
       /\ SourceFree(o.from)
       /\ jobs' = [jobs EXCEPT ![j] = [NoJob EXCEPT !.status = "pending", !.opt = o]]
  /\ Goto(j, "load")
  /\ UNCHANGED <<files, objects, live, leaving, events, missed, crossed>> /\ UNCHANGED env

\* CancelMigrateJob cancels the context of the goroutine it finds in the map
\* and then updates the row, unless that has ended.  A goroutine that sees the
\* context before the update writes the same status itself.
CancelMigrateJob(j) ==
  /\ jobs[j].status \in Active
  /\ jobs' = [jobs EXCEPT ![j].status = "cancelled"]
  /\ run' = [run EXCEPT ![j].cancel = (j \in live)]
  /\ missed' = [missed EXCEPT ![j] = {}]
  /\ UNCHANGED <<files, objects, live, leaving, events, crossed>>
  /\ UNCHANGED env

\* ResumeMigrateJob: failed to pending, refused by the index while another
\* job is active on the source; a new goroutine starts from the cursor.
ResumeMigrateJob(j) ==
  /\ jobs[j].status = "failed"
  /\ run[j].pc = "none"
  /\ SourceFree(Opt(j).from)
  /\ jobs' = [jobs EXCEPT ![j].status = "pending"]
  /\ Goto(j, "load")
  /\ UNCHANGED <<files, objects, live, leaving, events, missed, crossed>> /\ UNCHANGED env

-----------------------------------------------------------------------------
(* runPersistJob: the goroutine.                                           *)

\* The row is read into memory and the job becomes visible as live.
RunLoad(j) ==
  /\ At(j, "load")
  /\ IF jobs[j].status \in Active
       THEN /\ run' = [run EXCEPT ![j] = [NoRun EXCEPT !.pc = "begin", !.cursor = jobs[j].cursor,
                                           !.scanned = jobs[j].scanned]]
            /\ live' = live \cup {j}
       ELSE run' = [run EXCEPT ![j] = NoRun] /\ UNCHANGED live
  /\ UNCHANGED <<files, objects, jobs, leaving, events, missed, crossed>> /\ UNCHANGED env

\* persistJob as an unconditional save of the row.
PersistAlways(j, status, cursor, scanned) ==
  jobs' = [jobs EXCEPT ![j].status = status, ![j].cursor = cursor, ![j].scanned = scanned]

\* persistJob and finishJob write the row only while it is pending or
\* running; whether they did tells a cancelled job.
Persist(j, status, cursor, scanned) ==
  jobs' = IF jobs[j].status \in Active
            THEN [jobs EXCEPT ![j].status = status, ![j].cursor = cursor, ![j].scanned = scanned]
            ELSE jobs

LimitReached(j, scanned) == Opt(j).limit > 0 /\ scanned >= Opt(j).limit

RunBegin(j) ==
  /\ At(j, "begin")
  /\ Persist(j, "running", run[j].cursor, run[j].scanned)
  /\ Goto(j, IF jobs[j].status \notin Active THEN "cancelled"
             ELSE IF LimitReached(j, run[j].scanned) THEN "done" ELSE "loop")
  /\ UNCHANGED <<files, objects, live, leaving, events, missed, crossed>> /\ UNCHANGED env

\* Off by one in the condition of the listing.
AfterSkipping(f, cursor) == f > cursor + 1

\* WHERE id > AfterID
After(f, cursor) == f > cursor

\* The listing of MigrateFiles: files of the source behind the cursor, with
\* the filters, in the order of ids, at most `size` of them.
Listed(j, size) ==
  LET all == {f \in Files : files[f] = Opt(j).from /\ f \in Opt(j).only /\ After(f, run[j].cursor)}
  IN {f \in all : Cardinality({g \in all : g <= f}) <= size}

BatchSize(j) ==
  LET left == Opt(j).limit - run[j].scanned
  IN IF Opt(j).limit > 0 /\ left < Batch THEN left ELSE Batch

\* One turn of the loop up to the listing: cancelled, failed because a policy
\* is gone or the target disabled, or a batch to work on.
RunLoop(j) ==
  /\ At(j, "loop")
  /\ LET list == Listed(j, BatchSize(j)) IN
     \/ /\ run[j].cancel \/ jobs[j].status = "cancelled"
        /\ Goto(j, "cancelled")
        /\ UNCHANGED missed
     \/ /\ ~run[j].cancel /\ jobs[j].status # "cancelled"
        /\ ~Valid(Opt(j))
        /\ Goto(j, "failed")
        /\ UNCHANGED missed
     \/ /\ ~run[j].cancel /\ jobs[j].status # "cancelled"
        /\ Valid(Opt(j))
        /\ run' = [run EXCEPT ![j].pc = "copy", ![j].todo = list,
                     ![j].full = (Cardinality(list) = BatchSize(j)), ![j].last = 0]
        /\ missed' = [missed EXCEPT ![j] = @ \ {f \in Files : After(f, run[j].cursor)}]
  /\ UNCHANGED <<files, objects, jobs, live, leaving, events, crossed>> /\ UNCHANGED env

Current(j) == Smallest(run[j].todo)

\* Go on with the next file of the batch, having left this one where it is.
NextFile(j) == [run[j] EXCEPT !.pc = "copy", !.todo = @ \ {Current(j)}]
Leave(j) ==
  missed' = [missed EXCEPT ![j] = IF Tracked(j) /\ files[Current(j)] # None THEN @ \cup {Current(j)} ELSE @]

InHand(k, f) == run[k].pc \in {"update", "delete"} /\ Current(k) = f

\* A job of the opposite direction has the file in hand too.
Crossing(j, f) == \E k \in Jobs : InHand(k, f) /\ Opt(k).from = Opt(j).to

\* The copy that a failed check is about to remove is another goroutine's.
Borrowed(j, f) == files[f] = Opt(j).to \/ \E k \in Jobs : InHand(k, f) /\ Opt(k).to = Opt(j).to

CountedTwice(j) == run[j].scanned + IF Opt(j).limit > 0 THEN 2 ELSE 0

\* mergeBatch counts each file of the batch once.
Counted(j) == run[j].scanned + IF Opt(j).limit > 0 THEN 1 ELSE 0

\* Copy one object and check its size: a cancelled context ends the batch, a
\* missing source is skipped, a failed copy or a wrong size is counted and the
\* half object removed.  A dry run only looks.
RunCopy(j) ==
  /\ At(j, "copy")
  /\ run[j].todo # {}
  /\ LET f == Current(j)
         seen == [run[j] EXCEPT !.last = f, !.scanned = Counted(j)]
         skip == [NextFile(j) EXCEPT !.last = f, !.scanned = Counted(j)]
         src == <<Opt(j).from, f>>
         dst == <<Opt(j).to, f>> IN
     \/ /\ run[j].cancel
        /\ run' = [run EXCEPT ![j] = [seen EXCEPT !.pc = "batch", !.todo = {}]]
        /\ missed' = [missed EXCEPT ![j] = IF Tracked(j) THEN @ \cup run[j].todo ELSE @]
        /\ UNCHANGED <<objects, events, crossed>>
     \/ /\ ~run[j].cancel
        /\ Opt(j).dry \/ src \notin objects
        /\ run' = [run EXCEPT ![j] = skip]
        /\ Leave(j)
        /\ UNCHANGED <<objects, events, crossed>>
     \/ /\ ~run[j].cancel /\ ~Opt(j).dry /\ src \in objects
        /\ run' = [run EXCEPT ![j] = [seen EXCEPT !.pc = "update"]]
        /\ objects' = objects \cup {dst}
        /\ crossed' = IF Crossing(j, f) THEN crossed \cup {f} ELSE crossed
        /\ UNCHANGED <<events, missed>>
     \/ /\ ~run[j].cancel /\ ~Opt(j).dry /\ src \in objects
        /\ events < MaxEvents
        /\ events' = events + 1
        /\ run' = [run EXCEPT ![j] = skip]
        /\ objects' \in {objects, objects \ {dst}}
        /\ crossed' = IF Borrowed(j, f) THEN crossed \cup {f} ELSE crossed
        /\ Leave(j)
  /\ UNCHANGED <<files, jobs, live, leaving>> /\ UNCHANGED env

\* WHERE id = ? AND storage_policy_id = from
Movable(f, from) == files[f] = from

\* The source is deleted whatever became of the row.
DeletesAnyway(j, moved) == Opt(j).delete

\* The source is deleted only by the goroutine that repointed the row.
DeletesSource(j, moved) == moved /\ Opt(j).delete

\* The row is repointed if it still is on the source and the target exists
\* (the foreign key); otherwise the file is skipped or counted as failed.
RunUpdate(j) ==
  /\ At(j, "update")
  /\ LET f == Current(j)
         moved == Movable(f, Opt(j).from) /\ policy[Opt(j).to] # "deleted" IN
     /\ run' = [run EXCEPT ![j] = IF DeletesSource(j, moved) THEN [@ EXCEPT !.pc = "delete"]
                                  ELSE NextFile(j)]
     /\ \/ /\ moved
           /\ files' = [files EXCEPT ![f] = Opt(j).to]
           /\ missed' = [k \in Jobs |-> IF Tracked(k) /\ Opt(k).from = Opt(j).to
                                          THEN missed[k] \cup {f} ELSE missed[k]]
        \/ /\ ~moved
           /\ Leave(j)
           /\ UNCHANGED files
  /\ UNCHANGED <<objects, jobs, live, leaving, events, crossed>> /\ UNCHANGED env

RunDelete(j) ==
  /\ At(j, "delete")
  /\ objects' = objects \ {<<Opt(j).from, Current(j)>>}
  /\ run' = [run EXCEPT ![j] = NextFile(j)]
  /\ UNCHANGED <<files, jobs, live, leaving, events, missed, crossed>> /\ UNCHANGED env

\* The batch is over: the cursor and the counts are merged and persisted.
RunBatch(j) ==
  /\ At(j, "batch") \/ (At(j, "copy") /\ run[j].todo = {})
  /\ LET cursor == IF run[j].last > 0 THEN run[j].last ELSE run[j].cursor IN
     /\ Persist(j, "running", cursor, run[j].scanned)
     /\ run' = [run EXCEPT ![j].cursor = cursor, ![j].last = 0,
          ![j].pc = IF jobs[j].status \notin Active \/ At(j, "batch") THEN "cancelled"
                    ELSE IF LimitReached(j, run[j].scanned) \/ ~run[j].full THEN "done"
                    ELSE "loop"]
  /\ UNCHANGED <<files, objects, live, leaving, events, missed, crossed>> /\ UNCHANGED env

\* finishJob; the deferred clean-up is still to come.
RunFinish(j) ==
  /\ run[j].pc \in {"done", "failed", "cancelled"}
  /\ Persist(j, run[j].pc, run[j].cursor, run[j].scanned)
  /\ run' = [run EXCEPT ![j] = NoRun]
  /\ leaving' = leaving \cup {j}
  /\ UNCHANGED <<files, objects, live, events, missed, crossed>> /\ UNCHANGED env

\* delete(r.live, id): of this goroutine or of the one that resumed the job.
RunLeave(j) ==
  /\ j \in leaving
  /\ leaving' = leaving \ {j}
  /\ live' = live \ {j}
  /\ UNCHANGED <<files, objects, jobs, run, events, missed, crossed>> /\ UNCHANGED env

\* A restart forgets the goroutines, and RecoverMigrateJobs starts one for
\* every pending or running job.
Crash ==
  /\ events < MaxEvents
  /\ events' = events + 1
  /\ run' = [j \in Jobs |-> IF jobs[j].status \in Active THEN [NoRun EXCEPT !.pc = "load"] ELSE NoRun]
  /\ live' = {}
  /\ leaving' = {}
  /\ UNCHANGED <<files, objects, jobs, missed, crossed>> /\ UNCHANGED env

-----------------------------------------------------------------------------
(* The rest of the system.                                                 *)

\* An upload puts an object on an enabled policy and creates its row.
Upload ==
  /\ next <= MaxFile
  /\ \E p \in Policies :
       /\ policy[p] = "enabled"
       /\ files' = [files EXCEPT ![next] = p]
       /\ objects' = objects \cup {<<p, next>>}
       /\ missed' = [j \in Jobs |-> IF Tracked(j) THEN missed[j] \cup {next} ELSE {}]
  /\ next' = next + 1
  /\ UNCHANGED <<policy, jobs, run, live, leaving, events, crossed>>

\* A purge drops the row and enqueues the deletion of the object at the policy
\* it read; the task runs at once or only after everything shown here.
Purge(f) ==
  /\ files[f] # None
  /\ files' = [files EXCEPT ![f] = None]
  /\ objects' \in {objects, objects \ {<<files[f], f>>}}
  /\ missed' = [j \in Jobs |-> missed[j] \ {f}]
  /\ UNCHANGED <<jobs, run, live, leaving, events, crossed>> /\ UNCHANGED env

\* UpdatePolicy as far as migrations see it.
UpdatePolicy(p) ==
  /\ \/ /\ policy[p] = "enabled"
        /\ events < MaxEvents
        /\ events' = events + 1
        /\ policy' = [policy EXCEPT ![p] = "disabled"]
     \/ /\ policy[p] = "disabled"
        /\ policy' = [policy EXCEPT ![p] = "enabled"]
        /\ UNCHANGED events
  /\ UNCHANGED <<files, next, objects, jobs, run, live, leaving, missed, crossed>>

\* DeletePolicy: refused while files refer to it, at the latest by the
\* foreign key; jobs that name the policy do not hold it.
DeletePolicy(p) ==
  /\ policy[p] # "deleted"
  /\ \A f \in Files : files[f] # p
  /\ events < MaxEvents
  /\ events' = events + 1
  /\ policy' = [policy EXCEPT ![p] = "deleted"]
  /\ UNCHANGED <<files, next, objects, jobs, run, live, leaving, missed, crossed>>

Runner(j) ==
  \/ RunLoad(j) \/ RunBegin(j) \/ RunLoop(j) \/ RunCopy(j) \/ RunUpdate(j) \/ RunDelete(j)
  \/ RunBatch(j) \/ RunFinish(j) \/ RunLeave(j)

Next ==
  \/ \E j \in Jobs : Runner(j)
  \/ \E j \in Jobs : StartMigrateJob(j) \/ CancelMigrateJob(j) \/ ResumeMigrateJob(j)
  \/ Crash \/ Upload
  \/ \E f \in Files : Purge(f)
  \/ \E p \in Policies : UpdatePolicy(p) \/ DeletePolicy(p)

Spec == Init /\ [][Next]_vars

-----------------------------------------------------------------------------
(* Properties.                                                             *)

TypeOK ==
  /\ policy \in [Policies -> {"enabled", "disabled", "deleted"}]
  /\ files \in [Files -> Policies \cup {None}]
  /\ next \in 1 .. MaxFile + 1
  /\ objects \subseteq Policies \X Files
  /\ jobs \in [Jobs -> JobRecords]
  /\ run \in [Jobs -> RunRecords]
  /\ \A j \in Jobs : jobs[j].status # "none" /\ Opt(j).limit > 0 =>
       jobs[j].scanned <= Opt(j).limit /\ run[j].scanned <= Opt(j).limit
  /\ live \subseteq Jobs
  /\ leaving \subseteq Jobs
  /\ events \in 0 .. MaxEvents
  /\ missed \in [Jobs -> SUBSET Files]
  /\ crossed \subseteq Files

\* A file row always points to a policy that holds its object, whatever
\* migrations, purges, crashes and cancellations overlap.  The exceptions are
\* on record in crossed: a job in the opposite direction copied the file back
\* while another was between its update and its deletion of that copy, or a
\* job's failed check removed the copy of a goroutine that was cancelled, yet
\* still at work on the same source.
ObjectAtPolicyUnlessCrossed ==
  \A f \in Files : files[f] # None /\ f \notin crossed => <<files[f], f>> \in objects

\* A finished job without a limit has gone over its source: what it leaves
\* there failed, was skipped or came after the listing.  In particular a
\* crash, a failure and a resume lose no file between the cursor and the end.
DoneMeansVisited ==
  \A j \in Jobs : jobs[j].status = "done" /\ Opt(j).limit = 0 =>
    \A f \in Opt(j).only : files[f] = Opt(j).from => f \in missed[j]

\* A cancelled or finished job stays so, though its goroutine still runs and
\* writes its checkpoints and its own end (CancelMigrateJob against finishJob).
EndedStays ==
  [][\A j \in Jobs : jobs[j].status \in {"done", "cancelled"}
                       => jobs'[j].status = jobs[j].status]_vars

=============================================================================
