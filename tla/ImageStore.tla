----------------------------- MODULE ImageStore -----------------------------
(***************************************************************************)
(* The content store of imgli: image rows that users see, deduplicated     *)
(* file rows they point to, the objects the files stand for, the storage   *)
(* quota they consume, and the delete_file tasks that remove the objects.  *)
(*                                                                         *)
(* Every handler is a worker whose program counter stops wherever the Go   *)
(* code leaves a database transaction: between a read and the transaction  *)
(* that uses it, between a storage call and the row that records it,       *)
(* between a commit and the task it enqueues.  One database transaction is *)
(* one action: the SQLite build has a single connection, and a Postgres    *)
(* transaction locks the rows it changes.                                  *)
(*                                                                         *)
(* Sizes are one unit per image, since a file's size is a function of its  *)
(* hash.  A File row is named by its path: a path carries a random token,  *)
(* so no two rows ever share one.                                          *)
(***************************************************************************)
EXTENDS Integers, FiniteSets

CONSTANTS
  Users,        \* accounts
  Guest,        \* the owner of an anonymous upload (user_id NULL)
  GuestUploads, \* the guest_upload_enabled setting
  Hashes,       \* contents, by their SHA-256
  Images,       \* pool of image rows; a purged one is never reused
  Paths,        \* pool of object paths, hence of File rows
  Workers,      \* requests and background loops in flight
  None,         \* "no value"
  Quota,        \* group.StorageQuota in units, 0 for no limit
  Routes,       \* the ways of purging an image that are in use
  Switching,    \* whether owners change an image's visibility
  Expiries,     \* expiries an upload may ask for
  Thumbnails,   \* whether thumbnails can be made of the contents
  ForeignKeys,  \* TRUE: fresh database or Postgres; FALSE: legacy SQLite
  MaxFaults     \* bound on crashes and failed or lost background work

Surfaces == {"public", "private"}
AllRoutes == {"owner", "empty", "admin", "force", "sweepTrash", "sweepExpired", "account"}
AllExpiries == {"never", "later", "past"}

ASSUME ImageStoreAssumption ==
  /\ IsFiniteSet(Images)
  /\ Guest \notin Users
  /\ None \notin Users \cup {Guest} \cup Hashes \cup Images \cup Paths \cup Surfaces
  /\ Quota \in Nat
  /\ MaxFaults \in Nat
  /\ Routes \subseteq AllRoutes
  /\ Expiries \subseteq {"never", "later"}
  /\ GuestUploads \in BOOLEAN
  /\ Switching \in BOOLEAN
  /\ Thumbnails \in BOOLEAN
  /\ ForeignKeys \in BOOLEAN

VARIABLES
  users,     \* accounts that still exist
  used,      \* users.used_storage
  files,     \* the files table; a row that is gone keeps hash and surface
  images,    \* the images table
  objects,   \* originals present in storage, by path
  thumbs,    \* thumbnails present in storage, by surface and hash
  taken,     \* paths RenderPath has already drawn
  delOrig,   \* pending delete_file tasks for originals
  delThumb,  \* pending delete_file tasks for thumbnails
  pc,        \* where each worker stands
  job,       \* what each worker carries between two transactions
  boot,      \* the repair pass of this start has not begun yet
  drift,     \* history: a purge charged a file that its image had left
  faults     \* crashes and failures so far

vars == <<users, used, files, images, objects, thumbs, taken, delOrig, delThumb,
          pc, job, boot, drift, faults>>

Steps == {"idle", "instant", "put", "commit", "reject", "thumb", "plain", "resolve",
          "create", "cas", "repair", "purge", "enqueue"}
Ops == {"none", "save", "update", "repair"} \cup AllRoutes

FileRecords == [row: BOOLEAN, hash: Hashes \cup {None}, surf: Surfaces \cup {None}, ref: Nat]
ImageRecords == [st: {"unborn", "live", "trash", "purged"}, owner: Users \cup {Guest},
                 file: Paths \cup {None}, vis: Surfaces, exp: AllExpiries, aged: BOOLEAN]
Jobs == [op: Ops, user: Users \cup {Guest}, img: Images \cup {None},
         hash: Hashes \cup {None}, surf: Surfaces \cup {None}, exp: AllExpiries,
         file: Paths \cup {None}, new: Paths \cup {None},
         batch: SUBSET (Images \X Paths), del: SUBSET Paths]

NoFile == [row |-> FALSE, hash |-> None, surf |-> None, ref |-> 0]
Unborn == [st |-> "unborn", owner |-> Guest, file |-> None, vis |-> "public",
           exp |-> "never", aged |-> FALSE]
NoJob == [op |-> "none", user |-> Guest, img |-> None, hash |-> None, surf |-> None,
          exp |-> "never", file |-> None, new |-> None, batch |-> {}, del |-> {}]

Init ==
  /\ users = Users
  /\ used = [u \in Users |-> 0]
  /\ files = [p \in Paths |-> NoFile]
  /\ images = [i \in Images |-> Unborn]
  /\ objects = {}
  /\ thumbs = {}
  /\ taken = {}
  /\ delOrig = {}
  /\ delThumb = {}
  /\ pc = [w \in Workers |-> "idle"]
  /\ job = [w \in Workers |-> NoJob]
  /\ boot = TRUE
  /\ drift = FALSE
  /\ faults = 0

-----------------------------------------------------------------------------
(* Queries on the tables.                                                  *)

Held(i) == images[i].st \in {"live", "trash"}
Refs(p) == {i \in Images : Held(i) /\ images[i].file = p}
Owned(u) == {i \in Images : Held(i) /\ images[i].owner = u}
Fresh == {i \in Images : images[i].st = "unborn"}
Row(p) == files[p].row
FileAt(h, s) == {p \in Paths : Row(p) /\ files[p].hash = h /\ files[p].surf = s}
Other(s) == IF s = "public" THEN "private" ELSE "public"

At(w, step) == pc[w] = step

\* Where a worker goes after a transaction: it enqueues the deletions the
\* transaction calls for, goes on with the rest of its snapshot, or ends.
Leave(w, op, batch, del) ==
  /\ pc' = [pc EXCEPT ![w] = IF del # {} THEN "enqueue"
                             ELSE IF batch = {} THEN "idle"
                             ELSE IF op = "repair" THEN "repair" ELSE "purge"]
  /\ job' = [job EXCEPT ![w] = IF del = {} /\ batch = {} THEN NoJob
                               ELSE [NoJob EXCEPT !.op = op, !.batch = batch, !.del = del]]

GoOn(w) == Leave(w, job[w].op, job[w].batch, {})

-----------------------------------------------------------------------------
(* upload.Save: look the bytes up, then either commit an image on the row   *)
(* that exists (instant upload) or put the object and commit both rows.     *)

\* The quota statement without its condition, as before used_storage + size <= quota.
MayChargeUnconditional(u) == u = Guest \/ u \in users

\* addUsedStorage: the conditional update finds the account and room in its quota.
MayCharge(u) ==
  u = Guest \/ (u \in users /\ (Quota = 0 \/ used[u] + 1 <= Quota))

Charge(u) ==
  used' = IF u = Guest THEN used ELSE [used EXCEPT ![u] = @ + 1]

\* findReusableLiveImage: same owner, file and options.  Two future expiries
\* may lie within the two minutes of skew or not.
Reusable(u, p, s, x) ==
  {i \in Images : images[i].st = "live" /\ images[i].owner = u /\ images[i].file = p
                  /\ images[i].vis = s /\ images[i].exp = x}

NewImage(u, p, s, x) ==
  [st |-> "live", owner |-> u, file |-> p, vis |-> s, exp |-> x, aged |-> FALSE]

SaveLookup(w, u, h, s, x) ==
  /\ At(w, "idle")
  /\ u = Guest => GuestUploads /\ s = "public"
  /\ MayCharge(u)
  /\ IF FileAt(h, s) = {}
     THEN /\ pc' = [pc EXCEPT ![w] = "put"]
          /\ job' = [job EXCEPT ![w] = [NoJob EXCEPT !.op = "save", !.user = u, !.hash = h,
                                                     !.surf = s, !.exp = x]]
     ELSE \E p \in FileAt(h, s) :
            /\ u = Guest \/ x = "later" \/ Reusable(u, p, s, x) = {}
            /\ pc' = [pc EXCEPT ![w] = "instant"]
            /\ job' = [job EXCEPT ![w] = [NoJob EXCEPT !.op = "save", !.user = u, !.hash = h,
                                                       !.surf = s, !.exp = x, !.file = p]]
  /\ UNCHANGED <<users, used, files, images, objects, thumbs, taken, delOrig, delThumb,
                 boot, drift, faults>>

\* The row being reused was not purged in the meantime: ref_count + 1 changes a row.
StillThere(p) == Row(p)

SaveInstant(w) ==
  /\ At(w, "instant")
  /\ LET j == job[w] IN
     \/ /\ StillThere(j.file)
        /\ MayCharge(j.user)
        /\ \E i \in Fresh :
             images' = [images EXCEPT ![i] = NewImage(j.user, j.file, j.surf, j.exp)]
        /\ files' = [files EXCEPT ![j.file].ref = @ + 1]
        /\ Charge(j.user)
     \/ /\ ~ (StillThere(j.file) /\ MayCharge(j.user) /\ Fresh # {})
        /\ UNCHANGED <<images, files, used>>
  /\ GoOn(w)
  /\ UNCHANGED <<users, objects, thumbs, taken, delOrig, delThumb, boot, drift, faults>>

\* driver.Put under a freshly rendered path; a failed Put ends the request.
SavePut(w) ==
  /\ At(w, "put")
  /\ \/ \E p \in Paths \ taken :
          /\ objects' = objects \cup {p}
          /\ taken' = taken \cup {p}
          /\ pc' = [pc EXCEPT ![w] = "commit"]
          /\ job' = [job EXCEPT ![w].new = p]
     \/ /\ GoOn(w)
        /\ UNCHANGED <<objects, taken>>
  /\ UNCHANGED <<users, used, files, images, thumbs, delOrig, delThumb, boot, drift, faults>>

\* The file row (unique on hash and surface), the image and the charge, or nothing.
SaveCommit(w) ==
  /\ At(w, "commit")
  /\ LET j == job[w] IN
     \/ /\ FileAt(j.hash, j.surf) = {}
        /\ MayCharge(j.user)
        /\ \E i \in Fresh :
             images' = [images EXCEPT ![i] = NewImage(j.user, j.new, j.surf, j.exp)]
        /\ files' = [files EXCEPT ![j.new] =
                       [row |-> TRUE, hash |-> j.hash, surf |-> j.surf, ref |-> 1]]
        /\ Charge(j.user)
        /\ pc' = [pc EXCEPT ![w] = "thumb"]
     \/ /\ ~ (FileAt(j.hash, j.surf) = {} /\ MayCharge(j.user) /\ Fresh # {})
        /\ pc' = [pc EXCEPT ![w] = "reject"]
        /\ UNCHANGED <<images, files, used>>
  /\ UNCHANGED <<users, objects, thumbs, taken, delOrig, delThumb, job, boot, drift, faults>>

\* What a failed transaction leaves in storage: the object that was put.
LeftoverForgotten(j) == {}
Leftover(j) == {j.new}

SaveReject(w) ==
  /\ At(w, "reject")
  /\ delOrig' = delOrig \cup Leftover(job[w])
  /\ GoOn(w)
  /\ UNCHANGED <<users, used, files, images, objects, thumbs, taken, delThumb, boot, drift,
                 faults>>

\* The thumbnail is put after the commit, if there is one, and a failure is ignored.
SaveThumb(w) ==
  /\ At(w, "thumb")
  /\ \/ /\ Thumbnails
        /\ thumbs' = thumbs \cup {<<job[w].surf, job[w].hash>>}
     \/ thumbs' = thumbs
  /\ GoOn(w)
  /\ UNCHANGED <<users, used, files, images, objects, taken, delOrig, delThumb, boot, drift,
                 faults>>

-----------------------------------------------------------------------------
(* Trash, restore, expiry: single guarded updates.                          *)

SoftDelete(i) ==
  /\ images[i].st = "live"
  /\ images' = [images EXCEPT ![i] = [@ EXCEPT !.st = "trash", !.aged = FALSE]]
  /\ UNCHANGED <<users, used, files, objects, thumbs, taken, delOrig, delThumb, pc, job,
                 boot, drift, faults>>

Restore(i) ==
  /\ images[i].st = "trash"
  /\ images' = [images EXCEPT ![i] = [@ EXCEPT !.st = "live", !.aged = FALSE]]
  /\ UNCHANGED <<users, used, files, objects, thumbs, taken, delOrig, delThumb, pc, job,
                 boot, drift, faults>>

\* The clock: expires_at passes, or thirty days pass in the trash.
Lapse(i) ==
  /\ Held(i)
  /\ \/ images[i].exp = "later" /\ images' = [images EXCEPT ![i].exp = "past"]
     \/ /\ "sweepTrash" \in Routes
        /\ images[i].st = "trash"
        /\ ~ images[i].aged
        /\ images' = [images EXCEPT ![i].aged = TRUE]
  /\ UNCHANGED <<users, used, files, objects, thumbs, taken, delOrig, delThumb, pc, job,
                 boot, drift, faults>>

\* Update with SetExpires: the owner moves the expiry of a live image.
Extend(i, x) ==
  /\ images[i].st = "live"
  /\ images[i].owner # Guest
  /\ images' = [images EXCEPT ![i].exp = x]
  /\ UNCHANGED <<users, used, files, objects, thumbs, taken, delOrig, delThumb, pc, job,
                 boot, drift, faults>>

-----------------------------------------------------------------------------
(* Purging.  A batch is a set of <<image, file>> pairs, the file being the  *)
(* FileID of the copy of the image row that the purge works from.           *)

Gone(batch) == {b[1] : b \in batch}

\* As Charged, once for all the images of a batch that share the file.
ChargedOnce(batch, p) == IF \E i \in Images : <<i, p>> \in batch THEN 1 ELSE 0
Charged(batch, p) == Cardinality({i \in Images : <<i, p>> \in batch})

\* UpdateColumn("ref_count", ref_count - 1), once for each image that goes.
RefLeft(p, n) == files[p].ref - n

\* ref_count <= 0 after the decrement.
LastReference(p, n) == files[p].ref <= n

Dropped(batch) ==
  {p \in Paths : Row(p) /\ Charged(batch, p) > 0 /\ LastReference(p, Charged(batch, p))}

\* purgeOne succeeds on every element: the file row is found each time (it goes
\* with the reference that is its last), and no constraint keeps a dropped row.
Purgeable(batch) ==
  /\ \A b \in batch : /\ Row(b[2])
                      /\ \/ Charged(batch, b[2]) = 1
                         \/ Charged(batch, b[2]) <= files[b[2]].ref
  /\ ForeignKeys => \A p \in Dropped(batch) : Refs(p) \subseteq Gone(batch)

\* The images whose quota comes back to an account: the purge knows the owner.
Returning(u, batch) == {i \in Images : i \in Gone(batch) /\ images[i].owner = u}

\* As Refunded, for whoever owned the image and without the clamp at zero.
RefundedUnchecked(u, batch) == used[u] - Cardinality(Gone(batch))

Refunded(u, batch) ==
  LET n == Cardinality(Returning(u, batch))
  IN  IF used[u] >= n THEN used[u] - n ELSE 0

Purged(i) == [Unborn EXCEPT !.st = "purged", !.owner = images[i].owner]

\* purgeOne on each element, in one transaction: image rows out, quota back,
\* one reference less, and the file row out with its last reference.
Purge(batch) ==
  /\ images' = [i \in Images |-> IF i \in Gone(batch) THEN Purged(i) ELSE images[i]]
  /\ used' = [u \in Users |-> Refunded(u, batch)]
  /\ files' = [p \in Paths |->
                 IF p \in Dropped(batch) THEN [files[p] EXCEPT !.row = FALSE, !.ref = 0]
                 ELSE IF Row(p) THEN [files[p] EXCEPT !.ref = RefLeft(p, Charged(batch, p))]
                 ELSE files[p]]
  /\ drift' = (drift \/ \E b \in batch : images[b[1]].file # b[2])

Snapshot(w, op, S) ==
  /\ op \in Routes
  /\ S # {}
  /\ pc' = [pc EXCEPT ![w] = "purge"]
  /\ job' = [job EXCEPT ![w] = [NoJob EXCEPT !.op = op,
                                             !.batch = {<<i, images[i].file>> : i \in S}]]

InTrash(i) == images[i].st = "trash"
Expired(i) == images[i].st = "live" /\ images[i].exp = "past"

\* The reads that come before the purging transaction: PurgePermanent, EmptyTrash,
\* AdminPurge, PurgeExpiredTrash / runTrash, PurgeExpiredImages / runExpired and
\* PurgeByGroupForceMaxAge.
PurgeFind(w) ==
  /\ At(w, "idle")
  /\ \/ \E i \in Images : InTrash(i) /\ Snapshot(w, "owner", {i})
     \/ \E i \in Images : images[i].st = "live" /\ Snapshot(w, "admin", {i})
     \/ \E u \in Users : Snapshot(w, "empty", {i \in Owned(u) : InTrash(i)})
     \/ Snapshot(w, "sweepTrash", {i \in Images : InTrash(i) /\ images[i].aged})
     \/ Snapshot(w, "sweepExpired", {i \in Images : Expired(i)})
     \/ \E S \in SUBSET {i \in Images : images[i].st = "live"} : Snapshot(w, "force", S)
  /\ UNCHANGED <<users, used, files, images, objects, thumbs, taken, delOrig, delThumb,
                 boot, drift, faults>>

\* As StillPurgeable, trusting the expiry read before the transaction.
StillPurgeableStale(op, i) ==
  IF op = "sweepExpired" THEN images[i].st = "live" ELSE Held(i)

\* As StillPurgeable, without the gate on the row's existence.
StillPurgeableUngated(op, i) == op \notin {"admin", "force"} \/ Held(i)

\* The condition re-evaluated inside the transaction: the row is still in the
\* trash, or the live row is soft-deleted under the same condition first.
StillPurgeable(op, i) ==
  CASE op \in {"owner", "empty", "sweepTrash"} -> InTrash(i)
    [] op = "sweepExpired" -> Expired(i)
    [] op = "force" -> images[i].st = "live"
    [] op = "admin" -> Held(i)
    [] OTHER -> FALSE

\* PurgeByGroupForceMaxAge and AdminPurge (of a live image) read the row again
\* inside the transaction; the others use the FileID of their snapshot.
FileIDUsed(op, b) == IF op \in {"force", "admin"} THEN images[b[1]].file ELSE b[2]

\* What a transaction over the part T of a worker's snapshot really purges.
Passing(op, T) == {<<b[1], FileIDUsed(op, b)>> : b \in {c \in T : StillPurgeable(op, c[1])}}

\* A sweep runs one transaction per image and skips the failures; the other
\* routes run a single one.
PurgeTx(w) ==
  /\ At(w, "purge")
  /\ \E T \in SUBSET job[w].batch :
       LET op == job[w].op
           sweep == op \in {"force", "sweepTrash", "sweepExpired"}
           B == Passing(op, T)
           rest == IF sweep THEN job[w].batch \ T ELSE {}
       IN /\ IF sweep THEN Cardinality(T) = 1 ELSE T = job[w].batch
          /\ \/ /\ Purgeable(B)
                /\ Purge(B)
                /\ Leave(w, op, rest, Dropped(B))
             \/ /\ ~ Purgeable(B)
                /\ Leave(w, op, rest, {})
                /\ UNCHANGED <<images, used, files, drift>>
  /\ UNCHANGED <<users, objects, thumbs, taken, delOrig, delThumb, boot, faults>>

\* DeleteUserData: every image of the account and the account, in one transaction.
DeleteAccount(w, u) ==
  /\ At(w, "idle")
  /\ "account" \in Routes
  /\ u \in users
  /\ LET B == {<<i, images[i].file>> : i \in Owned(u)} IN
     /\ Purgeable(B)
     /\ Purge(B)
     /\ Leave(w, "account", {}, Dropped(B))
  /\ users' = users \ {u}
  /\ UNCHANGED <<objects, thumbs, taken, delOrig, delThumb, boot, faults>>

\* The task for the thumbnail of a file; where none can have been made it is left
\* out, for it would delete nothing.
ThumbTask(p) == IF Thumbnails THEN {<<files[p].surf, files[p].hash>>} ELSE {}

\* enqueuePhysical, after the commit: the original and its thumbnail.
EnqueuePhysical(w) ==
  /\ At(w, "enqueue")
  /\ \E p \in job[w].del :
       /\ delOrig' = delOrig \cup {p}
       /\ delThumb' = delThumb \cup ThumbTask(p)
       /\ Leave(w, job[w].op, job[w].batch, job[w].del \ {p})
  /\ UNCHANGED <<users, used, files, images, objects, thumbs, taken, boot, drift, faults>>

\* Enqueue fails for one of the two keys or both: logged, and never retried.
EnqueueLost(w) ==
  /\ faults < MaxFaults
  /\ faults' = faults + 1
  /\ \/ /\ At(w, "reject")
        /\ GoOn(w)
        /\ UNCHANGED <<delOrig, delThumb>>
     \/ /\ At(w, "enqueue")
        /\ \E p \in job[w].del :
             /\ \/ /\ delOrig' = delOrig \cup {p}
                   /\ UNCHANGED delThumb
                \/ /\ delThumb' = delThumb \cup ThumbTask(p)
                   /\ UNCHANGED delOrig
                \/ UNCHANGED <<delOrig, delThumb>>
             /\ Leave(w, job[w].op, job[w].batch, job[w].del \ {p})
  /\ UNCHANGED <<users, used, files, images, objects, thumbs, taken, boot, drift>>

-----------------------------------------------------------------------------
(* Switching visibility: Update, rehomeWithUpdates, resolveFileForSurface.  *)

\* Update reads the image and its file.  If the file already has the surface
\* asked for, a plain update of the row follows; if not, the image moves.
UpdateRead(w, i, s) ==
  /\ At(w, "idle")
  /\ Switching
  /\ images[i].st = "live"
  /\ images[i].owner # Guest
  /\ Row(images[i].file)
  /\ LET p == images[i].file IN
     /\ pc' = [pc EXCEPT ![w] = IF files[p].surf = s THEN "plain" ELSE "resolve"]
     /\ job' = [job EXCEPT ![w] = [NoJob EXCEPT !.op = "update", !.img = i, !.surf = s,
                                                !.hash = files[p].hash, !.file = p]]
  /\ UNCHANGED <<users, used, files, images, objects, thumbs, taken, delOrig, delThumb,
                 boot, drift, faults>>

\* Updates by primary key, on a row that is not soft-deleted.
UpdatePlain(w) ==
  /\ At(w, "plain")
  /\ images' = IF images[job[w].img].st = "live"
               THEN [images EXCEPT ![job[w].img].vis = job[w].surf] ELSE images
  /\ GoOn(w)
  /\ UNCHANGED <<users, used, files, objects, thumbs, taken, delOrig, delThumb, boot, drift,
                 faults>>

\* RehomeMismatchedSurfaces, once after a start: a snapshot of the live images
\* whose file is on the other surface...
RepairFind(w) ==
  /\ At(w, "idle")
  /\ boot
  /\ boot' = FALSE
  /\ LET S == {i \in Images : /\ images[i].st = "live"
                              /\ Row(images[i].file)
                              /\ files[images[i].file].surf # images[i].vis}
     IN Leave(w, "repair", {<<i, images[i].file>> : i \in S}, {})
  /\ UNCHANGED <<users, used, files, images, objects, thumbs, taken, delOrig, delThumb,
                 drift, faults>>

\* ... then each of them in turn, skipped if its file is gone by now.
RepairNext(w) ==
  /\ At(w, "repair")
  /\ \E b \in job[w].batch :
       LET rest == job[w].batch \ {b} IN
       \/ /\ Row(b[2])
          /\ pc' = [pc EXCEPT ![w] = "resolve"]
          /\ job' = [job EXCEPT ![w] =
                       [NoJob EXCEPT !.op = "repair", !.img = b[1], !.file = b[2],
                                     !.surf = Other(files[b[2]].surf),
                                     !.hash = files[b[2]].hash, !.batch = rest]]
       \/ /\ ~ Row(b[2])
          /\ Leave(w, "repair", rest, {})
  /\ UNCHANGED <<users, used, files, images, objects, thumbs, taken, delOrig, delThumb,
                 boot, drift, faults>>

\* resolveFileForSurface: take the file that has the bytes on the target surface,
\* or copy the original and its thumbnail there; a failed copy ends the switch.
Resolve(w) ==
  /\ At(w, "resolve")
  /\ LET j == job[w] IN
     \/ /\ \E p \in FileAt(j.hash, j.surf) : job' = [job EXCEPT ![w].new = p]
        /\ pc' = [pc EXCEPT ![w] = "cas"]
        /\ UNCHANGED <<objects, thumbs, taken>>
     \/ /\ FileAt(j.hash, j.surf) = {}
        /\ j.file \in objects
        /\ \E p \in Paths \ taken :
             /\ objects' = objects \cup {p}
             /\ taken' = taken \cup {p}
             /\ job' = [job EXCEPT ![w].new = p]
        /\ thumbs' = IF <<Other(j.surf), j.hash>> \in thumbs
                     THEN thumbs \cup {<<j.surf, j.hash>>} ELSE thumbs
        /\ pc' = [pc EXCEPT ![w] = "create"]
     \/ /\ FileAt(j.hash, j.surf) = {}
        /\ GoOn(w)
        /\ UNCHANGED <<objects, thumbs, taken>>
  /\ UNCHANGED <<users, used, files, images, delOrig, delThumb, boot, drift, faults>>

\* The row for the copy, with no reference yet; if another switch or upload
\* created one first, that one is used and the copy is deleted.
CreateForSurface(w) ==
  /\ At(w, "create")
  /\ LET j == job[w] IN
     \/ /\ \E p \in FileAt(j.hash, j.surf) : job' = [job EXCEPT ![w].new = p]
        /\ objects' = objects \ {j.new}
        /\ UNCHANGED files
     \/ /\ FileAt(j.hash, j.surf) = {}
        /\ files' = [files EXCEPT ![j.new] =
                       [row |-> TRUE, hash |-> j.hash, surf |-> j.surf, ref |-> 0]]
        /\ UNCHANGED <<job, objects>>
  /\ pc' = [pc EXCEPT ![w] = "cas"]
  /\ UNCHANGED <<users, used, images, thumbs, taken, delOrig, delThumb, boot, drift, faults>>

\* UPDATE images ... WHERE id = ? AND file_id = old, among the live rows.
StillHomeUnchecked(j) == images[j.img].st = "live"
StillHome(j) == images[j.img].st = "live" /\ images[j.img].file = j.file

\* The old file loses its last reference with this switch, and its object goes.
OldDropped(p) == Row(p) /\ LastReference(p, 1)
OldDeletedAlways(p) == {p}
OldDeleted(p) == IF OldDropped(p) THEN {p} ELSE {}

Rehomeable(j) ==
  /\ StillHome(j)
  /\ Row(j.new)
  /\ (ForeignKeys /\ OldDropped(j.file)) => Refs(j.file) \subseteq {j.img}

\* Image, new count and old count in one transaction; on a conflict nothing changes.
Rehome(w) ==
  /\ At(w, "cas")
  /\ LET j == job[w]
         old == files[j.file]
         vis == IF j.op = "update" THEN j.surf ELSE images[j.img].vis
     IN
     \/ /\ Rehomeable(j)
        /\ images' = [images EXCEPT ![j.img] = [@ EXCEPT !.file = j.new, !.vis = vis]]
        /\ files' = [files EXCEPT
             ![j.new].ref = @ + 1,
             ![j.file] = IF OldDropped(j.file) THEN [old EXCEPT !.row = FALSE, !.ref = 0]
                         ELSE IF Row(j.file) THEN [old EXCEPT !.ref = @ - 1] ELSE old]
        /\ Leave(w, j.op, j.batch, OldDeleted(j.file))
     \/ /\ ~ Rehomeable(j)
        /\ GoOn(w)
        /\ UNCHANGED <<images, files>>
  /\ UNCHANGED <<users, used, objects, thumbs, taken, delOrig, delThumb, boot, drift, faults>>

-----------------------------------------------------------------------------
(* The delete_file task and the faults.                                     *)

\* DeleteFileTask removes its key without looking at the tables.  A task may run
\* again, when the process died before recording it: that matters only for a
\* thumbnail, whose key can be written again; a path never is.
DeleteOriginal(p) ==
  /\ p \in delOrig
  /\ objects' = objects \ {p}
  /\ delOrig' = delOrig \ {p}
  /\ UNCHANGED <<users, used, files, images, thumbs, taken, delThumb, pc, job, boot, drift,
                 faults>>

DeleteThumb(k) ==
  /\ k \in delThumb
  /\ thumbs' = thumbs \ {k}
  /\ delThumb' \in {delThumb, delThumb \ {k}}
  /\ UNCHANGED <<users, used, files, images, objects, taken, delOrig, pc, job, boot, drift,
                 faults>>

\* Three failed attempts: the task is abandoned and the object stays.
DeleteAbandoned(p) ==
  /\ faults < MaxFaults
  /\ faults' = faults + 1
  /\ p \in delOrig
  /\ delOrig' = delOrig \ {p}
  /\ UNCHANGED <<users, used, files, images, objects, thumbs, taken, delThumb, pc, job,
                 boot, drift>>

\* The process dies and restarts: requests are lost, tables and tasks are not.
Crash ==
  /\ faults < MaxFaults
  /\ faults' = faults + 1
  /\ pc' = [w \in Workers |-> "idle"]
  /\ job' = [w \in Workers |-> NoJob]
  /\ boot' = TRUE
  /\ UNCHANGED <<users, used, files, images, objects, thumbs, taken, delOrig, delThumb, drift>>

-----------------------------------------------------------------------------

\* A handler that has begun goes on to its end.
Continue(w) ==
  \/ SaveInstant(w) \/ SavePut(w) \/ SaveCommit(w) \/ SaveReject(w) \/ SaveThumb(w)
  \/ PurgeTx(w) \/ EnqueuePhysical(w)
  \/ UpdatePlain(w) \/ RepairNext(w) \/ Resolve(w) \/ CreateForSurface(w) \/ Rehome(w)

Begin(w) ==
  \/ \E u \in users \cup {Guest}, h \in Hashes, s \in Surfaces, x \in Expiries :
       SaveLookup(w, u, h, s, x)
  \/ PurgeFind(w)
  \/ \E u \in Users : DeleteAccount(w, u)
  \/ \E i \in Images, s \in Surfaces : UpdateRead(w, i, s)
  \/ RepairFind(w)

Environment ==
  \/ \E i \in Images : SoftDelete(i) \/ Restore(i) \/ Lapse(i)
  \/ \E i \in Images, x \in Expiries : Extend(i, x)

RunTasks ==
  \/ \E p \in Paths : DeleteOriginal(p)
  \/ \E k \in Surfaces \X Hashes : DeleteThumb(k)

Fault ==
  \/ \E w \in Workers : EnqueueLost(w)
  \/ \E p \in Paths : DeleteAbandoned(p)
  \/ Crash

Next ==
  \/ \E w \in Workers : Begin(w) \/ Continue(w)
  \/ Environment
  \/ RunTasks
  \/ Fault

Spec == Init /\ [][Next]_vars

\* Go schedules every goroutine, each storage and database call returns, and the
\* task runner polls for as long as the process lives.
FairSpec ==
  /\ Spec
  /\ \A w \in Workers : WF_vars(Continue(w))
  /\ \A p \in Paths : WF_vars(DeleteOriginal(p))
  /\ \A w \in Workers : WF_vars(RepairFind(w))

-----------------------------------------------------------------------------
(* Properties.                                                              *)

\* Every variable has its type.
TypeOK ==
  /\ users \subseteq Users
  /\ used \in [Users -> Nat]
  /\ files \in [Paths -> FileRecords]
  /\ images \in [Images -> ImageRecords]
  /\ objects \subseteq Paths
  /\ thumbs \subseteq Surfaces \X (Hashes \cup {None})
  /\ taken \subseteq Paths
  /\ delOrig \subseteq Paths
  /\ delThumb \subseteq (Surfaces \cup {None}) \X (Hashes \cup {None})
  /\ pc \in [Workers -> Steps]
  /\ job \in [Workers -> Jobs]
  /\ boot \in BOOLEAN
  /\ drift \in BOOLEAN
  /\ faults \in 0..MaxFaults

\* ref_count counts exactly the images, live or in the trash, that point to the
\* file (commitInstant, purgeOne and rehomeWithUpdates keep it in step), as long
\* as no purge has worked from an out-of-date FileID.
RefCountExact ==
  ~ drift => \A p \in Paths : Row(p) => files[p].ref = Cardinality(Refs(p))

\* No image, live or restorable, ever loses its bytes: its file row exists and
\* its original is in storage, whatever deletions are pending or in flight.
OriginalKept ==
  \A i \in Images : Held(i) => Row(images[i].file) /\ images[i].file \in objects

\* The same, as long as no purge has worked from an out-of-date FileID.
OriginalKeptUnlessDrift == ~ drift => OriginalKept

\* The bytes a reader of an image gets (streamFile opens the object of the image's
\* file row), and those an upload in flight has hashed.
BytesOf(i) ==
  IF Held(i) /\ Row(images[i].file) /\ images[i].file \in objects
  THEN files[images[i].file].hash ELSE None
Shelf == [i \in Images |-> [st |-> images[i].st, bytes |-> BytesOf(i)]]
Asked == [w \in Workers |-> IF pc[w] \in {"instant", "put", "commit"} THEN job[w].hash ELSE None]

Lib == INSTANCE Library WITH shelf <- Shelf, asked <- Asked, Clients <- Workers,
                             Contents <- Hashes, Nothing <- None

\* The store implements the library for the people who use it: whatever is shared,
\* moved, purged, deleted in the background or lost in a crash, every image has the
\* bytes that its upload hashed until it is purged, as long as no purge has worked
\* from an out-of-date FileID.
ImplementsLibrary == Lib!Init /\ [][drift' \/ Lib!Next]_<<Shelf, Asked>>

\* used_storage is what the account's images hold, trash included: uploads charge
\* once, purges refund once, however requests interleave or retry.
UsedExact == \A u \in Users : used[u] = Cardinality(Owned(u))

\* Concurrent uploads that all passed the early check stay within the quota.
QuotaRespected == Quota > 0 => \A u \in Users : used[u] <= Quota

\* A path whose deletion is pending, or certain to be enqueued unless it is lost.
Doomed(p) ==
  \/ p \in delOrig
  \/ \E w \in Workers : p \in job[w].del \/ (At(w, "reject") /\ job[w].new = p)

\* A delete_file task, pending or about to be enqueued, never names the original
\* of a file that exists: the count reached zero in the same transaction.
DeletionsAreDead == \A p \in Paths : Doomed(p) => ~ Row(p)

\* A file row never outlives its original, even when requests race to put, adopt,
\* discard and delete objects: whoever is handed an existing row can serve it.
RowsKeepObjects == \A p \in Paths : Row(p) => p \in objects

\* A live image leaves for good only if it has expired at that very moment, if
\* an operator or a forced age limit removes it, or if its account goes: an image
\* whose expiry was moved after the sweep read it stays.
LiveImagePurgedOnlyWhenDue ==
  [][\A i \in Images :
        images[i].st = "live" /\ images'[i].st = "purged" =>
          \/ images[i].exp = "past"
          \/ images[i].owner \notin users'
          \/ \E w \in Workers : At(w, "purge") /\ job[w].op \in {"admin", "force"}
                                /\ job'[w] # job[w]]_vars

\* Without faults, an object that no file row names is deleted in the end, whether
\* its upload failed, its switch was overtaken, or its last image was purged.
StrayObjectsDeleted ==
  \A p \in Paths : (p \in objects /\ ~ Row(p)) ~> (p \notin objects \/ Row(p))

\* The files table's surface is aligned with the image's visibility.
SurfaceAgrees ==
  \A i \in Images : images[i].st = "live" /\ Row(images[i].file) =>
                      files[images[i].file].surf = images[i].vis

\* A file row that lost the race to be referenced is collected in the end.
UnreferencedRowsCollected ==
  \A p \in Paths : (Row(p) /\ Refs(p) = {}) ~> (~ Row(p) \/ Refs(p) # {})

=============================================================================
