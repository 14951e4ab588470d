-------------------------- MODULE ImageStoreProofs --------------------------
(***************************************************************************)
(* Theorems about ImageStore, for every value of its constants.            *)
(***************************************************************************)
EXTENDS ImageStore, FiniteSetTheorems, TLAPS

-----------------------------------------------------------------------------
(* The type invariant is inductive once it says what a worker carries at    *)
(* each step, and that an image that is held names a path.                  *)

\* What a worker at a step has filled in.
JobShape(step, j) ==
  /\ step \in {"instant", "put", "commit", "reject", "thumb"} =>
       j.surf \in Surfaces /\ j.hash \in Hashes
  /\ step \in {"resolve", "create", "cas"} =>
       j.surf \in Surfaces /\ j.hash \in Hashes /\ j.img \in Images /\ j.op \in {"update", "repair"}
  /\ step = "plain" => j.surf \in Surfaces /\ j.img \in Images
  /\ step \in {"instant", "resolve", "create", "cas"} => j.file \in Paths
  /\ step \in {"commit", "reject", "thumb", "create", "cas"} => j.new \in Paths

JobsShaped == \A w \in Workers : JobShape(pc[w], job[w])

FilesTyped == \A p \in Paths : Row(p) => files[p].hash \in Hashes /\ files[p].surf \in Surfaces

ImagesPlaced == \A i \in Images : Held(i) => images[i].file \in Paths

TypeInv == TypeOK /\ JobsShaped /\ FilesTyped /\ ImagesPlaced

\* Leaving a transaction keeps the types, whatever the worker goes on to.
LEMMA LeaveType ==
  ASSUME TypeInv, NEW w \in Workers, NEW op \in Ops, NEW batch \in SUBSET (Images \X Paths),
         NEW del \in SUBSET Paths, Leave(w, op, batch, del)
  PROVE  pc' \in [Workers -> Steps] /\ job' \in [Workers -> Jobs] /\ JobsShaped'
<1>1. NoJob \in Jobs
  BY DEF NoJob, Jobs, Ops, AllExpiries
<1>2. [NoJob EXCEPT !.op = op, !.batch = batch, !.del = del] \in Jobs
  BY DEF NoJob, Jobs, Ops, AllExpiries
<1>3. job' \in [Workers -> Jobs]
  BY <1>1, <1>2 DEF Leave, TypeInv, TypeOK
<1>4. pc' \in [Workers -> Steps] /\ pc'[w] \in {"enqueue", "idle", "repair", "purge"}
  BY DEF Leave, TypeInv, TypeOK, Steps
<1>5. \A v \in Workers : v # w => pc'[v] = pc[v] /\ job'[v] = job[v]
  BY DEF Leave, TypeInv, TypeOK
<1>6. ASSUME NEW v \in Workers PROVE JobShape(pc'[v], job'[v])
  <2>1. CASE v = w
    BY <1>4, <2>1 DEF JobShape
  <2>2. CASE v # w
    BY <1>5, <2>2 DEF JobShape, TypeInv, JobsShaped
  <2> QED BY <2>1, <2>2
<1> QED BY <1>3, <1>4, <1>6 DEF JobsShaped

LEMMA GoOnType ==
  ASSUME TypeInv, NEW w \in Workers, GoOn(w)
  PROVE  pc' \in [Workers -> Steps] /\ job' \in [Workers -> Jobs] /\ JobsShaped'
<1>1. job[w].op \in Ops /\ job[w].batch \in SUBSET (Images \X Paths)
  BY DEF TypeInv, TypeOK, Jobs
<1>2. {} \in SUBSET Paths
  OBVIOUS
<1>3. Leave(w, job[w].op, job[w].batch, {})
  BY DEF GoOn
<1> QED BY <1>1, <1>2, <1>3, LeaveType

\* A worker that moves to another step carries what that step needs.
LEMMA StepType ==
  ASSUME TypeInv, NEW w \in Workers, NEW step \in Steps, NEW j \in Jobs, JobShape(step, j),
         pc' = [pc EXCEPT ![w] = step], job' = [job EXCEPT ![w] = j]
  PROVE  pc' \in [Workers -> Steps] /\ job' \in [Workers -> Jobs] /\ JobsShaped'
<1>1. pc' \in [Workers -> Steps] /\ job' \in [Workers -> Jobs]
  BY DEF TypeInv, TypeOK
<1>2. ASSUME NEW v \in Workers PROVE JobShape(pc'[v], job'[v])
  <2>1. CASE v = w
    BY <2>1 DEF TypeInv, TypeOK
  <2>2. CASE v # w
    BY <2>2 DEF TypeInv, TypeOK, JobsShaped
  <2> QED BY <2>1, <2>2
<1> QED BY <1>1, <1>2 DEF JobsShaped

\* What the parts of the state that a purge leaves are.
LEMMA ChargeType ==
  ASSUME TypeInv, NEW u \in Users \cup {Guest}, Charge(u)
  PROVE  used' \in [Users -> Nat]
BY DEF Charge, TypeInv, TypeOK

LEMMA ChargedNat ==
  ASSUME NEW batch, NEW p
  PROVE  Charged(batch, p) \in Nat
<1> DEFINE S == {i \in Images : <<i, p>> \in batch}
<1>1. IsFiniteSet(S)
  BY FS_Subset, ImageStoreAssumption DEF ImageStoreAssumption
<1> QED BY <1>1, FS_CardinalityType DEF Charged

LEMMA RefundedNat ==
  ASSUME TypeInv, NEW u \in Users, NEW batch
  PROVE  Refunded(u, batch) \in Nat /\ Refunded(u, batch) <= used[u]
<1>1. used[u] \in Nat
  BY DEF TypeInv, TypeOK
<1>2. IsFiniteSet(Returning(u, batch))
  BY FS_Subset, ImageStoreAssumption DEF ImageStoreAssumption, Returning
<1>3. Cardinality(Returning(u, batch)) \in Nat
  BY <1>2, FS_CardinalityType
<1> QED BY <1>1, <1>3 DEF Refunded

-----------------------------------------------------------------------------
(* Each action preserves the type invariant.                               *)

LEMMA SaveLookupType ==
  ASSUME TypeInv, NEW w \in Workers, NEW u \in Users \cup {Guest}, NEW h \in Hashes,
         NEW s \in Surfaces, NEW x \in Expiries, SaveLookup(w, u, h, s, x)
  PROVE  TypeInv'
<1> DEFINE j == [NoJob EXCEPT !.op = "save", !.user = u, !.hash = h, !.surf = s, !.exp = x]
<1>1. x \in AllExpiries
  BY ImageStoreAssumption DEF ImageStoreAssumption, AllExpiries
<1>2. j \in Jobs /\ j.surf = s /\ j.hash = h
  BY <1>1 DEF NoJob, Jobs, Ops
<1>3. pc' \in [Workers -> Steps] /\ job' \in [Workers -> Jobs] /\ JobsShaped'
  <2>1. CASE FileAt(h, s) = {}
    <3>1. JobShape("put", j)
      BY <1>2 DEF JobShape
    <3>2. "put" \in Steps /\ pc' = [pc EXCEPT ![w] = "put"] /\ job' = [job EXCEPT ![w] = j]
      BY <2>1 DEF SaveLookup, Steps
    <3> QED BY <1>2, <3>1, <3>2, StepType
  <2>2. CASE FileAt(h, s) # {}
    <3>1. PICK p \in FileAt(h, s) :
            /\ pc' = [pc EXCEPT ![w] = "instant"]
            /\ job' = [job EXCEPT ![w] = [NoJob EXCEPT !.op = "save", !.user = u, !.hash = h,
                                                       !.surf = s, !.exp = x, !.file = p]]
      BY <2>2 DEF SaveLookup
    <3> DEFINE k == [NoJob EXCEPT !.op = "save", !.user = u, !.hash = h,
                                  !.surf = s, !.exp = x, !.file = p]
    <3>2. p \in Paths
      BY DEF FileAt
    <3>3. k \in Jobs /\ k.surf = s /\ k.hash = h /\ k.file = p
      BY <1>1, <3>2 DEF NoJob, Jobs, Ops
    <3>4. JobShape("instant", k) /\ "instant" \in Steps
      BY <3>2, <3>3 DEF JobShape, Steps
    <3> QED BY <3>1, <3>3, <3>4, StepType
  <2> QED BY <2>1, <2>2
<1> QED BY <1>3 DEF SaveLookup, TypeInv, TypeOK, FilesTyped, ImagesPlaced, Row, Held

LEMMA SaveInstantType ==
  ASSUME TypeInv, NEW w \in Workers, SaveInstant(w)
  PROVE  TypeInv'
<1> DEFINE j == job[w]
<1>1. j \in Jobs /\ j.file \in Paths /\ j.surf \in Surfaces /\ j.user \in Users \cup {Guest}
  BY DEF Jobs, TypeInv, TypeOK, JobsShaped, JobShape, SaveInstant, At
<1>2. pc' \in [Workers -> Steps] /\ job' \in [Workers -> Jobs] /\ JobsShaped'
  BY GoOnType DEF SaveInstant
<1>3. CASE UNCHANGED <<images, files, used>>
  BY <1>2, <1>3 DEF SaveInstant, TypeInv, TypeOK, FilesTyped, ImagesPlaced, Row, Held
<1>4. CASE /\ StillThere(j.file)
           /\ \E i \in Fresh :
                images' = [images EXCEPT ![i] = NewImage(j.user, j.file, j.surf, j.exp)]
           /\ files' = [files EXCEPT ![j.file].ref = @ + 1]
           /\ Charge(j.user)
  <2>1. used' \in [Users -> Nat]
    BY <1>1, <1>4, ChargeType
  <2>2. files' \in [Paths -> FileRecords] /\ FilesTyped'
    BY <1>1, <1>4 DEF TypeInv, TypeOK, FileRecords, FilesTyped, Row
  <2>3. NewImage(j.user, j.file, j.surf, j.exp) \in ImageRecords
    BY <1>1 DEF NewImage, ImageRecords, Jobs
  <2>4. images' \in [Images -> ImageRecords] /\ ImagesPlaced'
    BY <1>1, <1>4, <2>3 DEF TypeInv, TypeOK, Fresh, ImagesPlaced, Held, NewImage
  <2> QED BY <1>2, <2>1, <2>2, <2>4 DEF SaveInstant, TypeInv, TypeOK
<1> QED BY <1>3, <1>4 DEF SaveInstant

LEMMA SavePutType ==
  ASSUME TypeInv, NEW w \in Workers, SavePut(w)
  PROVE  TypeInv'
<1>1. pc' \in [Workers -> Steps] /\ job' \in [Workers -> Jobs] /\ JobsShaped'
  <2>1. CASE GoOn(w)
    BY <2>1, GoOnType
  <2>2. ASSUME NEW p \in Paths \ taken,
               pc' = [pc EXCEPT ![w] = "commit"], job' = [job EXCEPT ![w].new = p]
        PROVE  pc' \in [Workers -> Steps] /\ job' \in [Workers -> Jobs] /\ JobsShaped'
    <3> DEFINE j == [job[w] EXCEPT !.new = p]
    <3>1. job' = [job EXCEPT ![w] = j] /\ "commit" \in Steps
      BY <2>2 DEF Steps
    <3>2. j \in Jobs /\ JobShape("commit", j)
      BY SMTT(30) DEF SavePut, At, TypeInv, TypeOK, Jobs, JobsShaped, JobShape
    <3> QED BY <2>2, <3>1, <3>2, StepType
  <2> QED BY <2>1, <2>2 DEF SavePut
<1>2. objects' \subseteq Paths /\ taken' \subseteq Paths
  BY DEF SavePut, TypeInv, TypeOK
<1> QED BY <1>1, <1>2 DEF SavePut, TypeInv, TypeOK, FilesTyped, ImagesPlaced, Row, Held

LEMMA SaveCommitType ==
  ASSUME TypeInv, NEW w \in Workers, SaveCommit(w)
  PROVE  TypeInv'
<1> DEFINE j == job[w]
<1>1. /\ j \in Jobs /\ j.new \in Paths /\ j.surf \in Surfaces /\ j.hash \in Hashes
      /\ j.user \in Users \cup {Guest}
  BY DEF Jobs, TypeInv, TypeOK, JobsShaped, JobShape, SaveCommit, At
<1>2. ASSUME NEW step \in {"thumb", "reject"}, pc' = [pc EXCEPT ![w] = step]
      PROVE  pc' \in [Workers -> Steps] /\ job' \in [Workers -> Jobs] /\ JobsShaped'
  <2>1. job' = [job EXCEPT ![w] = j] /\ step \in Steps
    BY DEF SaveCommit, TypeInv, TypeOK, Steps
  <2>2. JobShape(step, j)
    BY <1>1 DEF JobShape
  <2> QED BY <1>1, <1>2, <2>1, <2>2, StepType
<1>3. CASE /\ pc' = [pc EXCEPT ![w] = "reject"]
           /\ UNCHANGED <<images, files, used>>
  BY <1>2, <1>3 DEF SaveCommit, TypeInv, TypeOK, FilesTyped, ImagesPlaced, Row, Held
<1>4. CASE /\ \E i \in Fresh :
                images' = [images EXCEPT ![i] = NewImage(j.user, j.new, j.surf, j.exp)]
           /\ files' = [files EXCEPT ![j.new] =
                          [row |-> TRUE, hash |-> j.hash, surf |-> j.surf, ref |-> 1]]
           /\ Charge(j.user)
           /\ pc' = [pc EXCEPT ![w] = "thumb"]
  <2>1. used' \in [Users -> Nat]
    BY <1>1, <1>4, ChargeType
  <2>2. files' \in [Paths -> FileRecords] /\ FilesTyped'
    BY <1>1, <1>4 DEF TypeInv, TypeOK, FileRecords, FilesTyped, Row
  <2>3. NewImage(j.user, j.new, j.surf, j.exp) \in ImageRecords
    BY <1>1 DEF NewImage, ImageRecords, Jobs
  <2>4. images' \in [Images -> ImageRecords] /\ ImagesPlaced'
    BY <1>1, <1>4, <2>3 DEF TypeInv, TypeOK, Fresh, ImagesPlaced, Held, NewImage
  <2> QED BY <1>2, <1>4, <2>1, <2>2, <2>4 DEF SaveCommit, TypeInv, TypeOK
<1> QED BY <1>3, <1>4 DEF SaveCommit

LEMMA SaveRejectType ==
  ASSUME TypeInv, NEW w \in Workers, SaveReject(w)
  PROVE  TypeInv'
<1>1. pc' \in [Workers -> Steps] /\ job' \in [Workers -> Jobs] /\ JobsShaped'
  BY GoOnType DEF SaveReject
<1>2. delOrig' \subseteq Paths
  BY DEF SaveReject, At, Leftover, TypeInv, TypeOK, JobsShaped, JobShape
<1> QED BY <1>1, <1>2 DEF SaveReject, TypeInv, TypeOK, FilesTyped, ImagesPlaced, Row, Held

LEMMA SaveThumbType ==
  ASSUME TypeInv, NEW w \in Workers, SaveThumb(w)
  PROVE  TypeInv'
<1>1. pc' \in [Workers -> Steps] /\ job' \in [Workers -> Jobs] /\ JobsShaped'
  BY GoOnType DEF SaveThumb
<1>2. thumbs' \subseteq Surfaces \X (Hashes \cup {None})
  BY DEF SaveThumb, At, TypeInv, TypeOK, JobsShaped, JobShape
<1> QED BY <1>1, <1>2 DEF SaveThumb, TypeInv, TypeOK, FilesTyped, ImagesPlaced, Row, Held

\* The updates of image rows that no worker carries between transactions.
LEMMA EnvironmentType ==
  ASSUME TypeInv, Environment
  PROVE  TypeInv'
<1>1. ASSUME NEW i \in Images, SoftDelete(i) \/ Restore(i) \/ Lapse(i)
      PROVE  images' \in [Images -> ImageRecords] /\ ImagesPlaced'
  <2>0. images[i] \in ImageRecords
    BY DEF TypeInv, TypeOK
  <2>1. CASE SoftDelete(i)
    BY <2>0, <2>1 DEF SoftDelete, TypeInv, TypeOK, ImageRecords, ImagesPlaced, Held
  <2>2. CASE Restore(i)
    BY <2>0, <2>2 DEF Restore, TypeInv, TypeOK, ImageRecords, ImagesPlaced, Held
  <2>3. CASE Lapse(i)
    <3>1. CASE images' = [images EXCEPT ![i].exp = "past"]
      <4>1. "past" \in AllExpiries
        BY DEF AllExpiries
      <4>2. [images[i] EXCEPT !.exp = "past"] \in ImageRecords
        BY <2>0, <4>1 DEF ImageRecords
      <4> QED BY <2>0, <3>1, <4>2 DEF TypeInv, TypeOK, ImageRecords, ImagesPlaced, Held
    <3>2. CASE images' = [images EXCEPT ![i].aged = TRUE]
      <4>1. [images[i] EXCEPT !.aged = TRUE] \in ImageRecords
        BY <2>0 DEF ImageRecords
      <4> QED BY <2>0, <3>2, <4>1 DEF TypeInv, TypeOK, ImageRecords, ImagesPlaced, Held
    <3> QED BY <2>3, <3>1, <3>2 DEF Lapse
  <2> QED BY <1>1, <2>1, <2>2, <2>3
<1>2. ASSUME NEW i \in Images, NEW x \in Expiries, Extend(i, x)
      PROVE  images' \in [Images -> ImageRecords] /\ ImagesPlaced'
  <2>1. x \in AllExpiries
    BY ImageStoreAssumption DEF ImageStoreAssumption, AllExpiries
  <2> QED BY <1>2, <2>1 DEF Extend, TypeInv, TypeOK, ImageRecords, ImagesPlaced, Held
<1>3. images' \in [Images -> ImageRecords] /\ ImagesPlaced'
  BY <1>1, <1>2 DEF Environment
<1>4. UNCHANGED <<users, used, files, objects, thumbs, taken, delOrig, delThumb, pc, job,
                  boot, drift, faults>>
  BY DEF Environment, SoftDelete, Restore, Lapse, Extend
<1> QED BY <1>3, <1>4 DEF TypeInv, TypeOK, JobsShaped, FilesTyped, Row

\* One transaction of a purge, whatever its batch.
LEMMA PurgeType ==
  ASSUME TypeInv, NEW batch, Purge(batch)
  PROVE  /\ used' \in [Users -> Nat]
         /\ files' \in [Paths -> FileRecords]
         /\ images' \in [Images -> ImageRecords]
         /\ drift' \in BOOLEAN
         /\ FilesTyped'
         /\ ImagesPlaced'
<1>1. used' \in [Users -> Nat]
  BY RefundedNat DEF Purge
<1>2. ASSUME NEW p \in Paths
      PROVE  files'[p] \in FileRecords /\ (files'[p].row => Row(p))
                /\ files'[p].hash = files[p].hash /\ files'[p].surf = files[p].surf
  <2>1. files[p] \in FileRecords /\ Charged(batch, p) \in Nat
    BY ChargedNat DEF TypeInv, TypeOK
  <2>2. CASE p \in Dropped(batch)
    BY <2>1, <2>2 DEF Purge, RefLeft, FileRecords
  <2>3. CASE p \notin Dropped(batch) /\ Row(p)
    <3>1. files[p].ref - Charged(batch, p) \in Nat
      BY <2>1, <2>3 DEF Dropped, LastReference, FileRecords
    <3> QED BY <2>1, <2>3, <3>1 DEF Purge, RefLeft, FileRecords
  <2>4. CASE p \notin Dropped(batch) /\ ~ Row(p)
    BY <2>1, <2>4 DEF Purge, RefLeft, Row
  <2> QED BY <2>2, <2>3, <2>4
<1>3. files' \in [Paths -> FileRecords] /\ FilesTyped'
  <2>1. files' \in [Paths -> FileRecords]
    BY <1>2 DEF Purge
  <2>2. FilesTyped'
    BY <1>2 DEF TypeInv, FilesTyped, Row
  <2> QED BY <2>1, <2>2
<1>4. images' \in [Images -> ImageRecords] /\ ImagesPlaced'
  <2>1. ASSUME NEW i \in Images
        PROVE  Purged(i) \in ImageRecords /\ Purged(i).st = "purged"
    BY ImageStoreAssumption
       DEF Purged, Unborn, ImageRecords, TypeInv, TypeOK, AllExpiries, Surfaces
  <2> QED BY <2>1 DEF Purge, TypeInv, TypeOK, ImagesPlaced, Held
<1>5. drift' \in BOOLEAN
  <2>1. drift' = (drift \/ \E b \in batch : images[b[1]].file # b[2])
    BY DEF Purge
  <2> QED BY <2>1
<1> QED BY <1>1, <1>3, <1>4, <1>5

LEMMA DroppedPaths ==
  ASSUME NEW batch
  PROVE  Dropped(batch) \in SUBSET Paths
BY DEF Dropped

LEMMA PurgeFindType ==
  ASSUME TypeInv, NEW w \in Workers, PurgeFind(w)
  PROVE  TypeInv'
<1>1. PICK op \in AllRoutes, S \in SUBSET {i \in Images : Held(i)} : Snapshot(w, op, S)
  <2>1. \A u : {i \in Owned(u) : InTrash(i)} \in SUBSET {i \in Images : Held(i)}
    BY DEF Owned
  <2> QED BY <2>1 DEF PurgeFind, AllRoutes, InTrash, Expired, Held
<1> DEFINE B == {<<i, images[i].file>> : i \in S}
           j == [NoJob EXCEPT !.op = op, !.batch = B]
<1>2. B \in SUBSET (Images \X Paths)
  BY DEF TypeInv, ImagesPlaced
<1>3. j \in Jobs
  BY <1>2 DEF NoJob, Jobs, Ops, AllExpiries
<1>4. JobShape("purge", j) /\ "purge" \in Steps
  BY DEF JobShape, Steps
<1>5. pc' = [pc EXCEPT ![w] = "purge"] /\ job' = [job EXCEPT ![w] = j]
  BY <1>1 DEF Snapshot
<1>6. pc' \in [Workers -> Steps] /\ job' \in [Workers -> Jobs] /\ JobsShaped'
  BY <1>3, <1>4, <1>5, StepType
<1> QED BY <1>6 DEF PurgeFind, TypeInv, TypeOK, FilesTyped, ImagesPlaced, Row, Held

LEMMA PurgeTxType ==
  ASSUME TypeInv, NEW w \in Workers, PurgeTx(w)
  PROVE  TypeInv'
<1> DEFINE op == job[w].op
           sweep == op \in {"force", "sweepTrash", "sweepExpired"}
<1>1. op \in Ops /\ job[w].batch \in SUBSET (Images \X Paths)
  BY DEF TypeInv, TypeOK, Jobs
<1>2. PICK T \in SUBSET job[w].batch :
        LET B == Passing(op, T)
            rest == IF sweep THEN job[w].batch \ T ELSE {}
        IN \/ /\ Purge(B)
              /\ Leave(w, op, rest, Dropped(B))
           \/ /\ Leave(w, op, rest, {})
              /\ UNCHANGED <<images, used, files, drift>>
  BY DEF PurgeTx
<1> DEFINE B == Passing(op, T)
           rest == IF sweep THEN job[w].batch \ T ELSE {}
<1>3. rest \in SUBSET (Images \X Paths) /\ Dropped(B) \in SUBSET Paths /\ {} \in SUBSET Paths
  BY <1>1, DroppedPaths
<1>4. CASE Purge(B) /\ Leave(w, op, rest, Dropped(B))
  <2>1. pc' \in [Workers -> Steps] /\ job' \in [Workers -> Jobs] /\ JobsShaped'
    BY <1>1, <1>3, <1>4, LeaveType
  <2> QED BY <1>4, <2>1, PurgeType DEF PurgeTx, TypeInv, TypeOK
<1>5. CASE Leave(w, op, rest, {}) /\ UNCHANGED <<images, used, files, drift>>
  <2>1. pc' \in [Workers -> Steps] /\ job' \in [Workers -> Jobs] /\ JobsShaped'
    BY <1>1, <1>3, <1>5, LeaveType
  <2> QED BY <1>5, <2>1 DEF PurgeTx, TypeInv, TypeOK, FilesTyped, ImagesPlaced, Row, Held
<1> QED BY <1>2, <1>4, <1>5

LEMMA DeleteAccountType ==
  ASSUME TypeInv, NEW w \in Workers, NEW u \in Users, DeleteAccount(w, u)
  PROVE  TypeInv'
<1> DEFINE B == {<<i, images[i].file>> : i \in Owned(u)}
<1>1. Purge(B) /\ Leave(w, "account", {}, Dropped(B)) /\ users' = users \ {u}
  BY DEF DeleteAccount
<1>2. "account" \in Ops /\ {} \in SUBSET (Images \X Paths) /\ Dropped(B) \in SUBSET Paths
  BY DroppedPaths DEF Ops, AllRoutes
<1>3. pc' \in [Workers -> Steps] /\ job' \in [Workers -> Jobs] /\ JobsShaped'
  BY <1>1, <1>2, LeaveType
<1> QED BY <1>1, <1>3, PurgeType DEF DeleteAccount, TypeInv, TypeOK

LEMMA TasksType ==
  ASSUME TypeInv, RunTasks
  PROVE  TypeInv'
<1>1. ASSUME NEW p \in Paths, DeleteOriginal(p)
      PROVE  TypeInv'
  BY <1>1 DEF DeleteOriginal, TypeInv, TypeOK, JobsShaped, FilesTyped, ImagesPlaced, Row, Held
<1>2. ASSUME NEW k \in Surfaces \X Hashes, DeleteThumb(k)
      PROVE  TypeInv'
  BY <1>2 DEF DeleteThumb, TypeInv, TypeOK, JobsShaped, FilesTyped, ImagesPlaced, Row, Held
<1> QED BY <1>1, <1>2 DEF RunTasks

\* Enqueueing a dropped file's deletions, all of them or not.
LEMMA EnqueueType ==
  ASSUME TypeInv, NEW w \in Workers, NEW p \in job[w].del,
         Leave(w, job[w].op, job[w].batch, job[w].del \ {p}),
         delOrig' \in {delOrig, delOrig \cup {p}},
         delThumb' \in {delThumb, delThumb \cup ThumbTask(p)}
  PROVE  /\ pc' \in [Workers -> Steps] /\ job' \in [Workers -> Jobs] /\ JobsShaped'
         /\ delOrig' \subseteq Paths
         /\ delThumb' \subseteq (Surfaces \cup {None}) \X (Hashes \cup {None})
<1>1. /\ job[w].op \in Ops /\ job[w].batch \in SUBSET (Images \X Paths)
      /\ job[w].del \in SUBSET Paths
  BY DEF TypeInv, TypeOK, Jobs
<1>2. job[w].del \ {p} \in SUBSET Paths /\ p \in Paths
  BY <1>1
<1>3. pc' \in [Workers -> Steps] /\ job' \in [Workers -> Jobs] /\ JobsShaped'
  BY <1>1, <1>2, LeaveType
<1>4. files[p].surf \in Surfaces \cup {None} /\ files[p].hash \in Hashes \cup {None}
  BY <1>2 DEF TypeInv, TypeOK, FileRecords
<1> QED BY <1>2, <1>3, <1>4 DEF TypeInv, TypeOK, ThumbTask

LEMMA EnqueuePhysicalType ==
  ASSUME TypeInv, NEW w \in Workers, EnqueuePhysical(w)
  PROVE  TypeInv'
<1>1. /\ pc' \in [Workers -> Steps] /\ job' \in [Workers -> Jobs] /\ JobsShaped'
      /\ delOrig' \subseteq Paths
      /\ delThumb' \subseteq (Surfaces \cup {None}) \X (Hashes \cup {None})
  BY EnqueueType DEF EnqueuePhysical
<1> QED BY <1>1 DEF EnqueuePhysical, TypeInv, TypeOK, FilesTyped, ImagesPlaced, Row, Held

LEMMA FaultType ==
  ASSUME TypeInv, Fault
  PROVE  TypeInv'
<1>1. MaxFaults \in Nat /\ faults \in 0..MaxFaults
  BY ImageStoreAssumption DEF ImageStoreAssumption, TypeInv, TypeOK
<1>2. ASSUME NEW w \in Workers, EnqueueLost(w)
      PROVE  TypeInv'
  <2>1. /\ pc' \in [Workers -> Steps] /\ job' \in [Workers -> Jobs] /\ JobsShaped'
        /\ delOrig' \subseteq Paths
        /\ delThumb' \subseteq (Surfaces \cup {None}) \X (Hashes \cup {None})
    <3>1. CASE GoOn(w) /\ UNCHANGED <<delOrig, delThumb>>
      BY <3>1, GoOnType DEF TypeInv, TypeOK
    <3>2. CASE \E p \in job[w].del :
                 /\ delOrig' \in {delOrig, delOrig \cup {p}}
                 /\ delThumb' \in {delThumb, delThumb \cup ThumbTask(p)}
                 /\ Leave(w, job[w].op, job[w].batch, job[w].del \ {p})
      BY <3>2, EnqueueType
    <3> QED BY <1>2, <3>1, <3>2 DEF EnqueueLost
  <2>2. faults' \in 0..MaxFaults
    BY <1>1, <1>2 DEF EnqueueLost
  <2> QED BY <1>2, <2>1, <2>2 DEF EnqueueLost, TypeInv, TypeOK, FilesTyped, ImagesPlaced, Row, Held
<1>3. ASSUME NEW p \in Paths, DeleteAbandoned(p)
      PROVE  TypeInv'
  <2>1. faults' \in 0..MaxFaults
    BY <1>1, <1>3 DEF DeleteAbandoned
  <2> QED BY <1>3, <2>1
          DEF DeleteAbandoned, TypeInv, TypeOK, JobsShaped, FilesTyped, ImagesPlaced, Row, Held
<1>4. CASE Crash
  <2>1. faults' \in 0..MaxFaults
    BY <1>1, <1>4 DEF Crash
  <2>2. NoJob \in Jobs /\ "idle" \in Steps
    BY DEF NoJob, Jobs, Ops, AllExpiries, Steps
  <2>3. pc' \in [Workers -> Steps] /\ job' \in [Workers -> Jobs] /\ JobsShaped'
    BY <1>4, <2>2 DEF Crash, JobsShaped, JobShape
  <2> QED BY <1>4, <2>1, <2>3
          DEF Crash, TypeInv, TypeOK, FilesTyped, ImagesPlaced, Row, Held
<1> QED BY <1>2, <1>3, <1>4 DEF Fault

LEMMA UpdateReadType ==
  ASSUME TypeInv, NEW w \in Workers, NEW i \in Images, NEW s \in Surfaces, UpdateRead(w, i, s)
  PROVE  TypeInv'
<1> DEFINE p == images[i].file
           j == [NoJob EXCEPT !.op = "update", !.img = i, !.surf = s,
                              !.hash = files[p].hash, !.file = p]
           step == IF files[p].surf = s THEN "plain" ELSE "resolve"
<1>1. p \in Paths /\ files[p].hash \in Hashes
  BY DEF UpdateRead, TypeInv, ImagesPlaced, FilesTyped, Held
<1>2. j \in Jobs /\ j.surf = s /\ j.hash = files[p].hash /\ j.img = i /\ j.op = "update"
        /\ j.file = p
  BY <1>1 DEF NoJob, Jobs, Ops, AllExpiries
<1>3. JobShape(step, j) /\ step \in Steps
  BY <1>1, <1>2 DEF JobShape, Steps
<1>4. pc' = [pc EXCEPT ![w] = step] /\ job' = [job EXCEPT ![w] = j]
  BY DEF UpdateRead
<1>5. pc' \in [Workers -> Steps] /\ job' \in [Workers -> Jobs] /\ JobsShaped'
  BY <1>2, <1>3, <1>4, StepType
<1> QED BY <1>5 DEF UpdateRead, TypeInv, TypeOK, FilesTyped, ImagesPlaced, Row, Held

LEMMA UpdatePlainType ==
  ASSUME TypeInv, NEW w \in Workers, UpdatePlain(w)
  PROVE  TypeInv'
<1>1. pc' \in [Workers -> Steps] /\ job' \in [Workers -> Jobs] /\ JobsShaped'
  BY GoOnType DEF UpdatePlain
<1>2. job[w].img \in Images /\ job[w].surf \in Surfaces
  BY DEF UpdatePlain, At, TypeInv, JobsShaped, JobShape
<1>3. images' \in [Images -> ImageRecords] /\ ImagesPlaced'
  <2>1. CASE images' = images
    BY <2>1 DEF TypeInv, TypeOK, ImagesPlaced, Held
  <2>2. CASE images' = [images EXCEPT ![job[w].img].vis = job[w].surf]
    BY <1>2, <2>2 DEF TypeInv, TypeOK, ImageRecords, ImagesPlaced, Held
  <2> QED BY <2>1, <2>2 DEF UpdatePlain
<1> QED BY <1>1, <1>3 DEF UpdatePlain, TypeInv, TypeOK, FilesTyped, Row

LEMMA RepairFindType ==
  ASSUME TypeInv, NEW w \in Workers, RepairFind(w)
  PROVE  TypeInv'
<1> DEFINE S == {i \in Images : /\ images[i].st = "live"
                                /\ Row(images[i].file)
                                /\ files[images[i].file].surf # images[i].vis}
           B == {<<i, images[i].file>> : i \in S}
<1>1. B \in SUBSET (Images \X Paths)
  BY DEF TypeInv, ImagesPlaced, Held
<1>2. "repair" \in Ops /\ {} \in SUBSET Paths
  BY DEF Ops
<1>3. Leave(w, "repair", B, {})
  BY DEF RepairFind
<1>4. pc' \in [Workers -> Steps] /\ job' \in [Workers -> Jobs] /\ JobsShaped'
  BY <1>1, <1>2, <1>3, LeaveType
<1> QED BY <1>4 DEF RepairFind, TypeInv, TypeOK, FilesTyped, ImagesPlaced, Row, Held

LEMMA RepairNextType ==
  ASSUME TypeInv, NEW w \in Workers, RepairNext(w)
  PROVE  TypeInv'
<1>1. pc' \in [Workers -> Steps] /\ job' \in [Workers -> Jobs] /\ JobsShaped'
  <2>1. ASSUME NEW b \in job[w].batch, Leave(w, "repair", job[w].batch \ {b}, {})
        PROVE  pc' \in [Workers -> Steps] /\ job' \in [Workers -> Jobs] /\ JobsShaped'
    <3>1. job[w].batch \ {b} \in SUBSET (Images \X Paths) /\ {} \in SUBSET Paths
      BY DEF TypeInv, TypeOK, Jobs
    <3>2. "repair" \in Ops
      BY DEF Ops
    <3> QED BY <2>1, <3>1, <3>2, LeaveType
  <2>2. ASSUME NEW b \in job[w].batch, Row(b[2]),
               pc' = [pc EXCEPT ![w] = "resolve"],
               job' = [job EXCEPT ![w] =
                         [NoJob EXCEPT !.op = "repair", !.img = b[1], !.file = b[2],
                                       !.surf = Other(files[b[2]].surf),
                                       !.hash = files[b[2]].hash,
                                       !.batch = job[w].batch \ {b}]]
        PROVE  pc' \in [Workers -> Steps] /\ job' \in [Workers -> Jobs] /\ JobsShaped'
    <3> DEFINE j == [NoJob EXCEPT !.op = "repair", !.img = b[1], !.file = b[2],
                                  !.surf = Other(files[b[2]].surf),
                                  !.hash = files[b[2]].hash,
                                  !.batch = job[w].batch \ {b}]
    <3>1. /\ b[1] \in Images /\ b[2] \in Paths
          /\ job[w].batch \ {b} \in SUBSET (Images \X Paths)
      BY DEF TypeInv, TypeOK, Jobs
    <3>2. files[b[2]].hash \in Hashes /\ Other(files[b[2]].surf) \in Surfaces
      BY <2>2, <3>1 DEF TypeInv, FilesTyped, Other, Surfaces
    <3>3. j \in Jobs /\ j.op = "repair" /\ j.img = b[1] /\ j.file = b[2]
            /\ j.surf = Other(files[b[2]].surf) /\ j.hash = files[b[2]].hash
      BY <3>1, <3>2 DEF NoJob, Jobs, Ops, AllExpiries
    <3>4. JobShape("resolve", j) /\ "resolve" \in Steps
      BY <3>1, <3>2, <3>3 DEF JobShape, Steps
    <3> QED BY <2>2, <3>3, <3>4, StepType
  <2> QED BY <2>1, <2>2 DEF RepairNext
<1> QED BY <1>1 DEF RepairNext, TypeInv, TypeOK, FilesTyped, ImagesPlaced, Row, Held

\* A switch in progress takes one more path for its target.
LEMMA SwitchStepType ==
  ASSUME TypeInv, NEW w \in Workers, pc[w] \in {"resolve", "create", "cas"},
         NEW step \in {"create", "cas"}, NEW p \in Paths,
         pc' = [pc EXCEPT ![w] = step], job' = [job EXCEPT ![w].new = p]
  PROVE  pc' \in [Workers -> Steps] /\ job' \in [Workers -> Jobs] /\ JobsShaped'
<1> DEFINE j == [job[w] EXCEPT !.new = p]
<1>1. job' = [job EXCEPT ![w] = j] /\ step \in Steps
  BY DEF Steps
<1>2. job[w] \in Jobs /\ JobShape(pc[w], job[w])
  BY DEF TypeInv, TypeOK, JobsShaped
<1>3. /\ j \in Jobs /\ j.surf = job[w].surf /\ j.hash = job[w].hash /\ j.img = job[w].img
      /\ j.op = job[w].op /\ j.file = job[w].file /\ j.new = p
  BY <1>2 DEF Jobs
<1> HIDE DEF j
<1>4. JobShape(step, j)
  BY <1>2, <1>3 DEF JobShape
<1> QED BY <1>1, <1>3, <1>4, StepType

LEMMA ResolveType ==
  ASSUME TypeInv, NEW w \in Workers, Resolve(w)
  PROVE  TypeInv'
<1> DEFINE j == job[w]
<1>1. j.surf \in Surfaces /\ j.hash \in Hashes
  BY DEF Resolve, At, TypeInv, JobsShaped, JobShape
<1>2. pc' \in [Workers -> Steps] /\ job' \in [Workers -> Jobs] /\ JobsShaped'
  <2>1. CASE GoOn(w)
    BY <2>1, GoOnType
  <2>2. ASSUME NEW p \in FileAt(j.hash, j.surf), job' = [job EXCEPT ![w].new = p],
               pc' = [pc EXCEPT ![w] = "cas"]
        PROVE  pc' \in [Workers -> Steps] /\ job' \in [Workers -> Jobs] /\ JobsShaped'
    <3>1. p \in Paths /\ pc[w] = "resolve"
      BY DEF FileAt, Resolve, At
    <3> QED BY <2>2, <3>1, SwitchStepType
  <2>3. ASSUME NEW p \in Paths \ taken, job' = [job EXCEPT ![w].new = p],
               pc' = [pc EXCEPT ![w] = "create"]
        PROVE  pc' \in [Workers -> Steps] /\ job' \in [Workers -> Jobs] /\ JobsShaped'
    <3>1. p \in Paths /\ pc[w] = "resolve"
      BY DEF Resolve, At
    <3> QED BY <2>3, <3>1, SwitchStepType
  <2> QED BY <2>1, <2>2, <2>3 DEF Resolve
<1>3. /\ objects' \subseteq Paths /\ taken' \subseteq Paths
      /\ thumbs' \subseteq Surfaces \X (Hashes \cup {None})
  BY <1>1 DEF Resolve, TypeInv, TypeOK
<1> QED BY <1>2, <1>3 DEF Resolve, TypeInv, TypeOK, FilesTyped, ImagesPlaced, Row, Held

LEMMA CreateForSurfaceType ==
  ASSUME TypeInv, NEW w \in Workers, CreateForSurface(w)
  PROVE  TypeInv'
<1> DEFINE j == job[w]
<1>1. /\ j \in Jobs /\ j.surf \in Surfaces /\ j.hash \in Hashes /\ j.new \in Paths
      /\ pc[w] = "create"
  BY DEF CreateForSurface, At, TypeInv, TypeOK, JobsShaped, JobShape
<1>2. pc' \in [Workers -> Steps] /\ job' \in [Workers -> Jobs] /\ JobsShaped'
  <2>1. PICK p \in Paths : job' = [job EXCEPT ![w].new = p]
    <3>1. CASE \E p \in FileAt(j.hash, j.surf) : job' = [job EXCEPT ![w].new = p]
      BY <3>1 DEF FileAt
    <3>2. CASE UNCHANGED job
      <4>1. job' = [job EXCEPT ![w].new = j.new]
        BY <1>1, <3>2 DEF TypeInv, TypeOK, Jobs
      <4> QED BY <1>1, <4>1
    <3> QED BY <3>1, <3>2 DEF CreateForSurface
  <2>2. pc' = [pc EXCEPT ![w] = "cas"]
    BY DEF CreateForSurface
  <2> QED BY <1>1, <2>1, <2>2, SwitchStepType
<1>3. objects' \subseteq Paths
  BY DEF CreateForSurface, TypeInv, TypeOK
<1>4. files' \in [Paths -> FileRecords] /\ FilesTyped'
  <2>1. CASE UNCHANGED files
    BY <2>1 DEF TypeInv, TypeOK, FilesTyped, Row
  <2>2. CASE files' = [files EXCEPT ![j.new] =
                         [row |-> TRUE, hash |-> j.hash, surf |-> j.surf, ref |-> 0]]
    BY <1>1, <2>2 DEF TypeInv, TypeOK, FileRecords, FilesTyped, Row
  <2> QED BY <2>1, <2>2 DEF CreateForSurface
<1> QED BY <1>2, <1>3, <1>4 DEF CreateForSurface, TypeInv, TypeOK, ImagesPlaced, Held

LEMMA RehomeType ==
  ASSUME TypeInv, NEW w \in Workers, Rehome(w)
  PROVE  TypeInv'
<1> DEFINE j == job[w]
           old == files[j.file]
           vis == IF j.op = "update" THEN j.surf ELSE images[j.img].vis
<1>1. /\ j \in Jobs /\ j.surf \in Surfaces /\ j.img \in Images
      /\ j.file \in Paths /\ j.new \in Paths
  BY DEF Rehome, At, TypeInv, TypeOK, JobsShaped, JobShape
<1>2. CASE GoOn(w) /\ UNCHANGED <<images, files>>
  BY <1>2, GoOnType DEF Rehome, TypeInv, TypeOK, FilesTyped, ImagesPlaced, Row, Held
<1>3. CASE /\ Rehomeable(j)
           /\ images' = [images EXCEPT ![j.img] = [@ EXCEPT !.file = j.new, !.vis = vis]]
           /\ files' = [files EXCEPT
                ![j.new].ref = @ + 1,
                ![j.file] = IF OldDropped(j.file) THEN [old EXCEPT !.row = FALSE, !.ref = 0]
                            ELSE IF Row(j.file) THEN [old EXCEPT !.ref = @ - 1] ELSE old]
           /\ Leave(w, j.op, j.batch, OldDeleted(j.file))
  <2>1. pc' \in [Workers -> Steps] /\ job' \in [Workers -> Jobs] /\ JobsShaped'
    <3>1. /\ j.op \in Ops /\ j.batch \in SUBSET (Images \X Paths)
          /\ OldDeleted(j.file) \in SUBSET Paths
      BY <1>1 DEF Jobs, OldDeleted
    <3> QED BY <1>3, <3>1, LeaveType
  <2>2. images' \in [Images -> ImageRecords] /\ ImagesPlaced'
    <3>1. vis \in Surfaces
      BY <1>1 DEF TypeInv, TypeOK, ImageRecords
    <3> DEFINE r == [images[j.img] EXCEPT !.file = j.new, !.vis = vis]
    <3>2. images[j.img] \in ImageRecords
      BY <1>1 DEF TypeInv, TypeOK
    <3>3. r \in ImageRecords /\ r.file \in Paths
      BY <1>1, <3>1, <3>2 DEF ImageRecords
    <3>4. images' = [images EXCEPT ![j.img] = r]
      BY <1>3
    <3> HIDE DEF r
    <3> QED BY <1>1, <3>3, <3>4 DEF TypeInv, TypeOK, ImagesPlaced, Held
  <2>3. ASSUME NEW p \in Paths
        PROVE  files'[p] \in FileRecords /\ (files'[p].row => Row(p))
                  /\ files'[p].hash = files[p].hash /\ files'[p].surf = files[p].surf
    <3> DEFINE mid == [files EXCEPT ![j.new].ref = @ + 1]
               left == IF OldDropped(j.file) THEN [old EXCEPT !.row = FALSE, !.ref = 0]
                       ELSE IF Row(j.file) THEN [old EXCEPT !.ref = @ - 1] ELSE old
    <3>1. files' = [mid EXCEPT ![j.file] = left]
      BY <1>3
    <3>2. old \in FileRecords
      BY <1>1 DEF TypeInv, TypeOK
    <3>3. left \in FileRecords /\ (left.row => old.row) /\ left.hash = old.hash
            /\ left.surf = old.surf
      <4>1. CASE OldDropped(j.file)
        BY <3>2, <4>1 DEF FileRecords
      <4>2. CASE ~ OldDropped(j.file) /\ Row(j.file)
        <5>1. old.ref - 1 \in Nat
          BY <3>2, <4>2 DEF OldDropped, LastReference, FileRecords
        <5> QED BY <3>2, <4>2, <5>1 DEF FileRecords
      <4>3. CASE ~ OldDropped(j.file) /\ ~ Row(j.file)
        BY <3>2, <4>3
      <4> QED BY <4>1, <4>2, <4>3
    <3>4. /\ mid \in [Paths -> FileRecords]
          /\ mid[p].row = files[p].row /\ mid[p].hash = files[p].hash
          /\ mid[p].surf = files[p].surf
      BY <1>1 DEF TypeInv, TypeOK, FileRecords
    <3> QED BY <1>1, <3>1, <3>3, <3>4 DEF Row
  <2>4. files' \in [Paths -> FileRecords] /\ FilesTyped'
    <3>1. DOMAIN files' = Paths /\ files' = [p \in DOMAIN files' |-> files'[p]]
      BY <1>3 DEF TypeInv, TypeOK
    <3>2. files' \in [Paths -> FileRecords]
      BY <2>3, <3>1
    <3>3. FilesTyped'
      BY <2>3 DEF TypeInv, FilesTyped, Row
    <3> QED BY <3>2, <3>3
  <2> QED BY <2>1, <2>2, <2>4 DEF Rehome, TypeInv, TypeOK
<1> QED BY <1>2, <1>3 DEF Rehome

-----------------------------------------------------------------------------

\* A worker's step, from the lemmas about its actions.
LEMMA WorkerType ==
  ASSUME TypeInv, NEW w \in Workers, Begin(w) \/ Continue(w)
  PROVE  TypeInv'
<1>1. CASE Begin(w)
  <2>1. ASSUME NEW u \in users \cup {Guest}, NEW h \in Hashes, NEW s \in Surfaces,
               NEW x \in Expiries, SaveLookup(w, u, h, s, x)
        PROVE  TypeInv'
    <3>1. u \in Users \cup {Guest}
      BY DEF TypeInv, TypeOK
    <3> QED BY <2>1, <3>1, SaveLookupType
  <2> QED BY <1>1, <2>1, PurgeFindType, DeleteAccountType, UpdateReadType, RepairFindType
          DEF Begin
<1>2. CASE Continue(w)
  BY <1>2, SaveInstantType, SavePutType, SaveCommitType, SaveRejectType, SaveThumbType,
     PurgeTxType, EnqueuePhysicalType, UpdatePlainType, RepairNextType, ResolveType,
     CreateForSurfaceType, RehomeType
     DEF Continue
<1> QED BY <1>1, <1>2

LEMMA InitType == Init => TypeInv
<1> SUFFICES ASSUME Init PROVE TypeInv
  OBVIOUS
<1>1. NoFile \in FileRecords /\ Unborn \in ImageRecords /\ NoJob \in Jobs
  BY DEF NoFile, FileRecords, Unborn, ImageRecords, NoJob, Jobs, AllExpiries, Surfaces, Ops
<1>2. TypeOK
  <2>1. files \in [Paths -> FileRecords] /\ images \in [Images -> ImageRecords]
    BY <1>1 DEF Init
  <2>2. pc \in [Workers -> Steps] /\ job \in [Workers -> Jobs] /\ used \in [Users -> Nat]
    BY <1>1 DEF Init, Steps
  <2>3. faults \in 0..MaxFaults
    BY ImageStoreAssumption DEF Init, ImageStoreAssumption
  <2>4. boot \in BOOLEAN /\ drift \in BOOLEAN
    BY DEF Init
  <2> QED BY <2>1, <2>2, <2>3, <2>4 DEF Init, TypeOK
<1>3. JobsShaped
  BY DEF Init, JobsShaped, JobShape
<1>4. FilesTyped
  BY DEF Init, FilesTyped, Row, NoFile
<1>5. ImagesPlaced
  BY DEF Init, ImagesPlaced, Held, Unborn
<1> QED BY <1>2, <1>3, <1>4, <1>5 DEF TypeInv

LEMMA NextType == TypeInv /\ [Next]_vars => TypeInv'
<1> SUFFICES ASSUME TypeInv, [Next]_vars PROVE TypeInv'
  OBVIOUS
<1>1. CASE UNCHANGED vars
  BY <1>1 DEF vars, TypeInv, TypeOK, JobsShaped, FilesTyped, ImagesPlaced, Row, Held
<1>2. CASE Next
  BY <1>2, WorkerType, EnvironmentType, TasksType, FaultType DEF Next
<1> QED BY <1>1, <1>2

\* In every execution, every variable keeps its type: reference counts and used
\* storage never go below zero, and no handler works on a missing operand.
THEOREM TypeCorrect == Spec => []TypeInv
<1> QED BY InitType, NextType, PTL DEF Spec

\* The part of it that speaks of the variables alone.
THEOREM TypeOKHolds == Spec => []TypeOK
<1>1. TypeInv => TypeOK
  BY DEF TypeInv
<1> QED BY <1>1, TypeCorrect, PTL

-----------------------------------------------------------------------------
(* The quota.  The transaction that creates an image is the only place where *)
(* used_storage grows, and its condition is evaluated there.               *)

LEMMA ChargeQuota ==
  ASSUME TypeInv, QuotaRespected, NEW u \in Users \cup {Guest}, MayCharge(u), Charge(u)
  PROVE  QuotaRespected'
<1>1. CASE u = Guest
  BY <1>1 DEF Charge, QuotaRespected
<1>2. CASE u \in Users /\ u # Guest
  BY <1>2 DEF Charge, MayCharge, QuotaRespected, TypeInv, TypeOK
<1> QED BY <1>1, <1>2

LEMMA PurgeQuota ==
  ASSUME TypeInv, QuotaRespected, NEW batch, Purge(batch)
  PROVE  QuotaRespected'
<1> SUFFICES ASSUME Quota > 0, NEW u \in Users PROVE used'[u] <= Quota
  BY DEF QuotaRespected
<1>1. used'[u] = Refunded(u, batch)
  BY DEF Purge
<1>2. Refunded(u, batch) \in Nat /\ Refunded(u, batch) <= used[u]
  BY RefundedNat
<1>3. used[u] \in Nat /\ used[u] <= Quota /\ Quota \in Nat
  BY ImageStoreAssumption DEF ImageStoreAssumption, QuotaRespected, TypeInv, TypeOK
<1> QED BY <1>1, <1>2, <1>3

LEMMA SameUsed ==
  ASSUME QuotaRespected, UNCHANGED used
  PROVE  QuotaRespected'
BY DEF QuotaRespected

LEMMA NextQuota == TypeInv /\ QuotaRespected /\ [Next]_vars => QuotaRespected'
<1> SUFFICES ASSUME TypeInv, QuotaRespected, [Next]_vars PROVE QuotaRespected'
  OBVIOUS
<1>1. ASSUME NEW w \in Workers, SaveInstant(w) \/ SaveCommit(w) PROVE QuotaRespected'
  <2>1. job[w].user \in Users \cup {Guest}
    BY DEF TypeInv, TypeOK, Jobs
  <2>2. (MayCharge(job[w].user) /\ Charge(job[w].user)) \/ UNCHANGED used
    BY <1>1 DEF SaveInstant, SaveCommit
  <2> QED BY <2>1, <2>2, ChargeQuota, SameUsed
<1>2. ASSUME NEW w \in Workers, PurgeTx(w) PROVE QuotaRespected'
  <2>1. PICK T \in SUBSET job[w].batch : Purge(Passing(job[w].op, T)) \/ UNCHANGED used
    BY <1>2 DEF PurgeTx
  <2> QED BY <2>1, PurgeQuota, SameUsed
<1>3. ASSUME NEW w \in Workers, NEW u \in Users, DeleteAccount(w, u) PROVE QuotaRespected'
  <2>1. Purge({<<i, images[i].file>> : i \in Owned(u)})
    BY <1>3 DEF DeleteAccount
  <2> QED BY <2>1, PurgeQuota
<1>4. ASSUME NEW w \in Workers, Begin(w) PROVE QuotaRespected'
  <2>1. CASE \E u \in Users : DeleteAccount(w, u)
    BY <1>3, <2>1
  <2>2. CASE ~ \E u \in Users : DeleteAccount(w, u)
    <3>1. UNCHANGED used
      BY ZenonT(60), <1>4, <2>2 DEF Begin, SaveLookup, PurgeFind, UpdateRead, RepairFind
    <3> QED BY <3>1, SameUsed
  <2> QED BY <2>1, <2>2
<1>5. ASSUME NEW w \in Workers, Continue(w) PROVE QuotaRespected'
  <2>1. CASE SaveInstant(w) \/ SaveCommit(w) \/ PurgeTx(w)
    BY <1>1, <1>2, <2>1
  <2>2. CASE ~ (SaveInstant(w) \/ SaveCommit(w) \/ PurgeTx(w))
    <3>1. UNCHANGED used
      BY <1>5, <2>2 DEF Continue, SavePut, SaveReject, SaveThumb, EnqueuePhysical,
         UpdatePlain, RepairNext, Resolve, CreateForSurface, Rehome
    <3> QED BY <3>1, SameUsed
  <2> QED BY <2>1, <2>2
<1>6. CASE Environment \/ RunTasks \/ Fault \/ UNCHANGED vars
  <2>1. UNCHANGED used
    BY <1>6 DEF Environment, SoftDelete, Restore, Lapse, Extend, RunTasks, DeleteOriginal,
       DeleteThumb, Fault, EnqueueLost, DeleteAbandoned, Crash, vars
  <2> QED BY <2>1, SameUsed
<1> QED BY <1>4, <1>5, <1>6 DEF Next

\* However many uploads of an account pass the early check at once, what they
\* are charged never exceeds the group's quota.
THEOREM QuotaHolds == Spec => []QuotaRespected
<1>1. Init => QuotaRespected
  <2> SUFFICES ASSUME Init, Quota > 0 PROVE \A u \in Users : used[u] <= Quota
    BY DEF QuotaRespected
  <2> QED BY ImageStoreAssumption DEF Init, ImageStoreAssumption
<1> QED BY <1>1, TypeCorrect, NextQuota, PTL DEF Spec

-----------------------------------------------------------------------------
(* Objects and rows.  A path is drawn once; from then on its object is in    *)
(* exactly one hand: a request that has put it and not yet recorded it, a    *)
(* file row, or a deletion.  Counting plays no part in it.                   *)

\* The request at this step has put an object that no row names yet.
Pending(w) == pc[w] \in {"commit", "create"}

PathsInv ==
  /\ \A p \in Paths : Row(p) => p \in objects /\ p \in taken
  /\ \A p \in Paths : Doomed(p) => p \in taken /\ ~ Row(p)
  /\ \A w \in Workers, p \in Paths : Pending(w) /\ p = job[w].new =>
       p \in objects /\ p \in taken /\ ~ Row(p) /\ ~ Doomed(p)
  /\ \A v, w \in Workers : Pending(v) /\ Pending(w) /\ v # w => job[v].new # job[w].new

\* The part of Doomed that a worker is responsible for.
DoomedBy(w, p) == p \in job[w].del \/ (At(w, "reject") /\ job[w].new = p)

\* What a worker's step must do for the invariant to survive it: a new row takes
\* the worker's own object; what becomes doomed was doomed, or loses its row now,
\* or was the worker's own; only its own object is discarded; a new object has a
\* new path.
LEMMA HandOver ==
  ASSUME PathsInv, NEW w \in Workers,
         \A v \in Workers : v # w => pc'[v] = pc[v] /\ job'[v] = job[v],
         taken \subseteq taken',
         \A p \in Paths : Row(p)' => Row(p) \/ (Pending(w) /\ p = job[w].new),
         \A p \in Paths : p \in delOrig' \/ DoomedBy(w, p)' =>
            \/ Doomed(p)
            \/ Row(p) /\ ~ Row(p)'
            \/ Pending(w) /\ p = job[w].new /\ ~ Row(p)',
         \A p \in Paths : p \in objects =>
            p \in objects' \/ (Pending(w) /\ p = job[w].new /\ ~ Row(p)'),
         Pending(w)' => job'[w].new \in (taken' \cap objects') \ taken,
         \A v \in Workers : Pending(v) => job[v].new \in Paths
  PROVE  PathsInv'
<1> DEFINE Own(p) == Pending(w) /\ p = job[w].new
<1>1. \A p \in Paths : Own(p) => p \in objects /\ p \in taken /\ ~ Row(p) /\ ~ Doomed(p)
  BY DEF PathsInv
<1>2. \A p \in Paths : Doomed(p)' =>
         \/ Doomed(p)
         \/ Row(p) /\ ~ Row(p)'
         \/ Own(p) /\ ~ Row(p)'
  BY DEF Doomed, DoomedBy, At
<1>3. ASSUME NEW p \in Paths, Row(p)' PROVE p \in objects' /\ p \in taken'
  BY <1>1, <1>3 DEF PathsInv
<1>4. ASSUME NEW p \in Paths, Doomed(p)' PROVE p \in taken' /\ ~ Row(p)'
  BY <1>1, <1>2, <1>4 DEF PathsInv
<1>5. ASSUME NEW v \in Workers, NEW p \in Paths, Pending(v)', p = job'[v].new
      PROVE  p \in objects' /\ p \in taken' /\ ~ Row(p)' /\ ~ Doomed(p)'
  <2>1. CASE v = w
    <3>1. p \notin taken /\ p \in taken' /\ p \in objects'
      BY <1>5, <2>1
    <3>2. ~ Row(p) /\ ~ Doomed(p) /\ ~ Own(p)
      BY <1>1, <3>1 DEF PathsInv
    <3> QED BY <1>2, <3>1, <3>2
  <2>2. CASE v # w
    <3>1. Pending(v) /\ job'[v] = job[v]
      BY <1>5, <2>2 DEF Pending
    <3>2. p \in objects /\ p \in taken /\ ~ Row(p) /\ ~ Doomed(p)
      BY <1>5, <3>1 DEF PathsInv
    <3>3. ~ Own(p)
      BY <1>5, <2>2, <3>1 DEF PathsInv
    <3> QED BY <1>2, <3>2, <3>3
  <2> QED BY <2>1, <2>2
<1>6. ASSUME NEW u \in Workers, NEW v \in Workers, Pending(u)', Pending(v)', u # v
      PROVE  job'[u].new # job'[v].new
  <2>1. \A x \in Workers : x # w /\ Pending(x)' => Pending(x) /\ job'[x].new \in taken
    BY DEF Pending, PathsInv
  <2>2. CASE u # w /\ v # w
    BY <1>6, <2>1, <2>2 DEF PathsInv
  <2>3. CASE u = w \/ v = w
    BY <1>6, <2>1, <2>3
  <2> QED BY <2>2, <2>3
<1> QED BY <1>3, <1>4, <1>5, <1>6 DEF PathsInv

\* After Leave a worker has nothing in hand but the deletions it was given.
LEMMA LeaveHand ==
  ASSUME TypeInv, NEW w \in Workers, NEW op, NEW batch, NEW del, Leave(w, op, batch, del)
  PROVE  /\ \A v \in Workers : v # w => pc'[v] = pc[v] /\ job'[v] = job[v]
         /\ ~ Pending(w)'
         /\ \A p : DoomedBy(w, p)' => p \in del
<1>1. job'[w].del = del
  <2>1. NoJob.del = {} /\ [NoJob EXCEPT !.op = op, !.batch = batch, !.del = del].del = del
    BY DEF NoJob
  <2> QED BY <2>1 DEF Leave, TypeInv, TypeOK
<1>2. pc'[w] \in {"enqueue", "idle", "repair", "purge"}
  BY DEF Leave, TypeInv, TypeOK
<1> QED BY <1>1, <1>2 DEF Leave, TypeInv, TypeOK, Pending, DoomedBy, At

LEMMA GoOnHand ==
  ASSUME TypeInv, NEW w \in Workers, GoOn(w)
  PROVE  /\ \A v \in Workers : v # w => pc'[v] = pc[v] /\ job'[v] = job[v]
         /\ ~ Pending(w)'
         /\ \A p : ~ DoomedBy(w, p)'
<1>1. Leave(w, job[w].op, job[w].batch, {})
  BY DEF GoOn
<1> QED BY <1>1, LeaveHand

LEMMA PendingPaths ==
  ASSUME TypeInv, NEW v \in Workers, Pending(v)
  PROVE  job[v].new \in Paths
BY DEF Pending, TypeInv, JobsShaped, JobShape

\* A worker that moves on to a step where it has no object of its own.
LEMMA MoveHand ==
  ASSUME TypeInv, NEW w \in Workers, NEW step \in Steps \ {"commit", "create", "reject"}, NEW j,
         pc' = [pc EXCEPT ![w] = step], job' = [job EXCEPT ![w] = j],
         j.del = {} \/ j.del = job[w].del
  PROVE  /\ \A v \in Workers : v # w => pc'[v] = pc[v] /\ job'[v] = job[v]
         /\ ~ Pending(w)'
         /\ \A p : DoomedBy(w, p)' => p \in job[w].del
BY DEF TypeInv, TypeOK, Pending, DoomedBy, At

\* A step that touches neither rows, objects nor deletions.
LEMMA QuietStep ==
  ASSUME TypeInv, PathsInv, NEW w \in Workers,
         \A v \in Workers : v # w => pc'[v] = pc[v] /\ job'[v] = job[v],
         ~ Pending(w)',
         \A p : DoomedBy(w, p)' => p \in job[w].del,
         \A p \in Paths : Row(p)' => Row(p),
         UNCHANGED <<objects, taken, delOrig>>
  PROVE  PathsInv'
<1>1. \A p \in Paths : p \in delOrig' \/ DoomedBy(w, p)' => Doomed(p)
  BY DEF Doomed
<1>2. \A v \in Workers : Pending(v) => job[v].new \in Paths
  BY PendingPaths
<1> QED BY <1>1, <1>2, HandOver

LEMMA SaveLookupPaths ==
  ASSUME TypeInv, PathsInv, NEW w \in Workers, NEW u, NEW h, NEW s, NEW x,
         SaveLookup(w, u, h, s, x)
  PROVE  PathsInv'
<1>1. PICK step \in {"put", "instant"}, j \in
          {[NoJob EXCEPT !.op = "save", !.user = u, !.hash = h, !.surf = s, !.exp = x]}
          \cup {[NoJob EXCEPT !.op = "save", !.user = u, !.hash = h, !.surf = s, !.exp = x,
                             !.file = p] : p \in FileAt(h, s)} :
        pc' = [pc EXCEPT ![w] = step] /\ job' = [job EXCEPT ![w] = j]
  BY DEF SaveLookup
<1>2. j.del = {} /\ step \in Steps \ {"commit", "create", "reject"}
  BY DEF NoJob, Steps
<1>3. UNCHANGED <<files, objects, taken, delOrig>>
  BY DEF SaveLookup
<1> QED BY <1>1, <1>2, <1>3, MoveHand, QuietStep DEF Row

LEMMA SaveInstantPaths ==
  ASSUME TypeInv, PathsInv, NEW w \in Workers, SaveInstant(w)
  PROVE  PathsInv'
<1>1. \A p \in Paths : Row(p)' => Row(p)
  BY DEF SaveInstant, Row, TypeInv, TypeOK, FileRecords
<1>2. GoOn(w) /\ UNCHANGED <<objects, taken, delOrig>>
  BY DEF SaveInstant
<1> QED BY <1>1, <1>2, GoOnHand, QuietStep

LEMMA SavePutPaths ==
  ASSUME TypeInv, PathsInv, NEW w \in Workers, SavePut(w)
  PROVE  PathsInv'
<1>1. UNCHANGED <<files, delOrig>>
  BY DEF SavePut
<1>2. CASE GoOn(w) /\ UNCHANGED <<objects, taken>>
  BY <1>1, <1>2, GoOnHand, QuietStep DEF Row
<1>3. CASE \E p \in Paths \ taken :
             /\ objects' = objects \cup {p}
             /\ taken' = taken \cup {p}
             /\ pc' = [pc EXCEPT ![w] = "commit"]
             /\ job' = [job EXCEPT ![w].new = p]
  <2>1. PICK p \in Paths \ taken :
             /\ objects' = objects \cup {p}
             /\ taken' = taken \cup {p}
             /\ pc' = [pc EXCEPT ![w] = "commit"]
             /\ job' = [job EXCEPT ![w].new = p]
    BY <1>3
  <2>2. /\ \A v \in Workers : v # w => pc'[v] = pc[v] /\ job'[v] = job[v]
        /\ job'[w].new = p /\ job'[w].del = job[w].del /\ pc'[w] = "commit"
    BY <2>1 DEF TypeInv, TypeOK, Jobs
  <2>3. \A q \in Paths : q \in delOrig' \/ DoomedBy(w, q)' => Doomed(q)
    BY <1>1, <2>2 DEF Doomed, DoomedBy, At
  <2>4. \A v \in Workers : Pending(v) => job[v].new \in Paths
    BY PendingPaths
  <2> QED BY <1>1, <2>1, <2>2, <2>3, <2>4, HandOver DEF Row
<1> QED BY <1>2, <1>3 DEF SavePut

LEMMA SaveCommitPaths ==
  ASSUME TypeInv, PathsInv, NEW w \in Workers, SaveCommit(w)
  PROVE  PathsInv'
<1> DEFINE j == job[w]
<1>1. Pending(w) /\ j.new \in Paths /\ ~ Row(j.new)
  BY PendingPaths DEF SaveCommit, At, Pending, PathsInv
<1>2. /\ UNCHANGED <<objects, taken, delOrig, job>>
      /\ \A v \in Workers : v # w => pc'[v] = pc[v]
  BY DEF SaveCommit, TypeInv, TypeOK
<1>3. \A v \in Workers : Pending(v) => job[v].new \in Paths
  BY PendingPaths
<1>4. CASE /\ pc' = [pc EXCEPT ![w] = "reject"]
           /\ UNCHANGED files
  <2>1. pc'[w] = "reject" /\ ~ Pending(w)'
    BY <1>4 DEF Pending, TypeInv, TypeOK
  <2>2. \A q \in Paths : q \in delOrig' \/ DoomedBy(w, q)' => Doomed(q) \/ q = j.new
    BY <1>2 DEF Doomed, DoomedBy, At
  <2> QED BY <1>1, <1>2, <1>3, <1>4, <2>1, <2>2, HandOver DEF Row
<1>5. CASE /\ pc' = [pc EXCEPT ![w] = "thumb"]
           /\ files' = [files EXCEPT ![j.new] =
                          [row |-> TRUE, hash |-> j.hash, surf |-> j.surf, ref |-> 1]]
  <2>1. pc'[w] = "thumb" /\ ~ Pending(w)'
    BY <1>5 DEF Pending, TypeInv, TypeOK
  <2>2. \A q \in Paths : q \in delOrig' \/ DoomedBy(w, q)' => Doomed(q)
    BY <1>2, <2>1 DEF Doomed, DoomedBy, At
  <2>3. \A q \in Paths : Row(q)' => Row(q) \/ q = j.new
    BY <1>5 DEF Row, TypeInv, TypeOK
  <2> QED BY <1>1, <1>2, <1>3, <2>1, <2>2, <2>3, HandOver
<1> QED BY <1>4, <1>5 DEF SaveCommit

LEMMA SaveRejectPaths ==
  ASSUME TypeInv, PathsInv, NEW w \in Workers, SaveReject(w)
  PROVE  PathsInv'
<1>1. GoOn(w) /\ UNCHANGED <<files, objects, taken>>
  BY DEF SaveReject
<1>2. \A q \in Paths : q \in delOrig' \/ DoomedBy(w, q)' => Doomed(q)
  BY <1>1, GoOnHand DEF SaveReject, Leftover, Doomed
<1>3. \A v \in Workers : Pending(v) => job[v].new \in Paths
  BY PendingPaths
<1> QED BY <1>1, <1>2, <1>3, GoOnHand, HandOver DEF Row

LEMMA SaveThumbPaths ==
  ASSUME TypeInv, PathsInv, NEW w \in Workers, SaveThumb(w)
  PROVE  PathsInv'
<1>1. GoOn(w) /\ UNCHANGED <<files, objects, taken, delOrig>>
  BY DEF SaveThumb
<1> QED BY <1>1, GoOnHand, QuietStep DEF Row

\* A purge dooms exactly the files it takes out.
LEMMA PurgeStep ==
  ASSUME TypeInv, PathsInv, NEW w \in Workers, NEW op, NEW rest, NEW batch,
         Purge(batch), Leave(w, op, rest, Dropped(batch)),
         UNCHANGED <<objects, taken, delOrig>>
  PROVE  PathsInv'
<1>1. \A p \in Paths : p \in Dropped(batch) => Row(p) /\ ~ Row(p)'
  BY DEF Purge, RefLeft, Dropped, Row, TypeInv, TypeOK, FileRecords
<1>2. \A p \in Paths : Row(p)' => Row(p)
  BY DEF Purge, RefLeft, Dropped, Row, TypeInv, TypeOK, FileRecords
<1>3. /\ \A v \in Workers : v # w => pc'[v] = pc[v] /\ job'[v] = job[v]
      /\ ~ Pending(w)'
      /\ \A p : DoomedBy(w, p)' => p \in Dropped(batch)
  BY LeaveHand
<1>4. \A p \in Paths : p \in delOrig' \/ DoomedBy(w, p)' => Doomed(p) \/ (Row(p) /\ ~ Row(p)')
  BY <1>1, <1>3 DEF Doomed
<1>5. \A v \in Workers : Pending(v) => job[v].new \in Paths
  BY PendingPaths
<1> QED BY <1>2, <1>3, <1>4, <1>5, HandOver

LEMMA PurgeFindPaths ==
  ASSUME TypeInv, PathsInv, NEW w \in Workers, PurgeFind(w)
  PROVE  PathsInv'
<1>1. PICK op, S : Snapshot(w, op, S)
  BY DEF PurgeFind
<1> DEFINE j == [NoJob EXCEPT !.op = op, !.batch = {<<i, images[i].file>> : i \in S}]
<1>2. pc' = [pc EXCEPT ![w] = "purge"] /\ job' = [job EXCEPT ![w] = j]
  BY <1>1 DEF Snapshot
<1>3. j.del = {} /\ "purge" \in Steps \ {"commit", "create", "reject"}
  BY DEF NoJob, Steps
<1>4. UNCHANGED <<files, objects, taken, delOrig>>
  BY DEF PurgeFind
<1> HIDE DEF j
<1> QED BY <1>2, <1>3, <1>4, MoveHand, QuietStep DEF Row

LEMMA PurgeTxPaths ==
  ASSUME TypeInv, PathsInv, NEW w \in Workers, PurgeTx(w)
  PROVE  PathsInv'
<1> DEFINE op == job[w].op
           sweep == op \in {"force", "sweepTrash", "sweepExpired"}
           rest(T) == IF sweep THEN job[w].batch \ T ELSE {}
<1>1. PICK T \in SUBSET job[w].batch :
        \/ Purge(Passing(op, T)) /\ Leave(w, op, rest(T), Dropped(Passing(op, T)))
        \/ Leave(w, op, rest(T), {}) /\ UNCHANGED files
  BY DEF PurgeTx
<1>2. UNCHANGED <<objects, taken, delOrig>>
  BY DEF PurgeTx
<1>3. CASE Purge(Passing(op, T)) /\ Leave(w, op, rest(T), Dropped(Passing(op, T)))
  BY <1>2, <1>3, PurgeStep
<1>4. CASE Leave(w, op, rest(T), {}) /\ UNCHANGED files
  <2>1. /\ \A v \in Workers : v # w => pc'[v] = pc[v] /\ job'[v] = job[v]
        /\ ~ Pending(w)'
        /\ \A p : DoomedBy(w, p)' => p \in {}
    BY <1>4, LeaveHand
  <2> QED BY <1>2, <1>4, <2>1, QuietStep DEF Row
<1> QED BY <1>1, <1>3, <1>4

LEMMA DeleteAccountPaths ==
  ASSUME TypeInv, PathsInv, NEW w \in Workers, NEW u, DeleteAccount(w, u)
  PROVE  PathsInv'
<1> DEFINE B == {<<i, images[i].file>> : i \in Owned(u)}
<1>1. Purge(B) /\ Leave(w, "account", {}, Dropped(B)) /\ UNCHANGED <<objects, taken, delOrig>>
  BY DEF DeleteAccount
<1> HIDE DEF B
<1> QED BY <1>1, PurgeStep

\* A deletion on its way from a worker to the task table, arriving or not.
LEMMA EnqueueStep ==
  ASSUME TypeInv, PathsInv, NEW w \in Workers, NEW p \in job[w].del,
         Leave(w, job[w].op, job[w].batch, job[w].del \ {p}),
         delOrig' \in {delOrig, delOrig \cup {p}},
         UNCHANGED <<files, objects, taken>>
  PROVE  PathsInv'
<1>1. /\ \A v \in Workers : v # w => pc'[v] = pc[v] /\ job'[v] = job[v]
      /\ ~ Pending(w)'
      /\ \A q : DoomedBy(w, q)' => q \in job[w].del
  BY LeaveHand
<1>2. \A q \in Paths : q \in delOrig' \/ DoomedBy(w, q)' => Doomed(q)
  BY <1>1 DEF Doomed
<1>3. \A v \in Workers : Pending(v) => job[v].new \in Paths
  BY PendingPaths
<1> QED BY <1>1, <1>2, <1>3, HandOver DEF Row

LEMMA EnqueuePhysicalPaths ==
  ASSUME TypeInv, PathsInv, NEW w \in Workers, EnqueuePhysical(w)
  PROVE  PathsInv'
BY EnqueueStep DEF EnqueuePhysical

LEMMA UpdateReadPaths ==
  ASSUME TypeInv, PathsInv, NEW w \in Workers, NEW i, NEW s, UpdateRead(w, i, s)
  PROVE  PathsInv'
<1> DEFINE p == images[i].file
           j == [NoJob EXCEPT !.op = "update", !.img = i, !.surf = s,
                              !.hash = files[p].hash, !.file = p]
           step == IF files[p].surf = s THEN "plain" ELSE "resolve"
<1>1. pc' = [pc EXCEPT ![w] = step] /\ job' = [job EXCEPT ![w] = j]
  BY DEF UpdateRead
<1>2. j.del = {} /\ step \in Steps \ {"commit", "create", "reject"}
  BY DEF NoJob, Steps
<1>3. UNCHANGED <<files, objects, taken, delOrig>>
  BY DEF UpdateRead
<1> HIDE DEF j, step
<1> QED BY <1>1, <1>2, <1>3, MoveHand, QuietStep DEF Row

LEMMA UpdatePlainPaths ==
  ASSUME TypeInv, PathsInv, NEW w \in Workers, UpdatePlain(w)
  PROVE  PathsInv'
<1>1. GoOn(w) /\ UNCHANGED <<files, objects, taken, delOrig>>
  BY DEF UpdatePlain
<1> QED BY <1>1, GoOnHand, QuietStep DEF Row

LEMMA RepairFindPaths ==
  ASSUME TypeInv, PathsInv, NEW w \in Workers, RepairFind(w)
  PROVE  PathsInv'
<1>1. PICK B : Leave(w, "repair", B, {})
  BY DEF RepairFind
<1>2. UNCHANGED <<files, objects, taken, delOrig>>
  BY DEF RepairFind
<1>3. /\ \A v \in Workers : v # w => pc'[v] = pc[v] /\ job'[v] = job[v]
      /\ ~ Pending(w)'
      /\ \A p : DoomedBy(w, p)' => p \in {}
  BY <1>1, LeaveHand
<1> QED BY <1>2, <1>3, QuietStep DEF Row

LEMMA RepairNextPaths ==
  ASSUME TypeInv, PathsInv, NEW w \in Workers, RepairNext(w)
  PROVE  PathsInv'
<1>1. UNCHANGED <<files, objects, taken, delOrig>>
  BY DEF RepairNext
<1>2. PICK b \in job[w].batch :
        \/ /\ pc' = [pc EXCEPT ![w] = "resolve"]
           /\ job' = [job EXCEPT ![w] =
                        [NoJob EXCEPT !.op = "repair", !.img = b[1], !.file = b[2],
                                      !.surf = Other(files[b[2]].surf),
                                      !.hash = files[b[2]].hash,
                                      !.batch = job[w].batch \ {b}]]
        \/ Leave(w, "repair", job[w].batch \ {b}, {})
  BY DEF RepairNext
<1> DEFINE j == [NoJob EXCEPT !.op = "repair", !.img = b[1], !.file = b[2],
                              !.surf = Other(files[b[2]].surf), !.hash = files[b[2]].hash,
                              !.batch = job[w].batch \ {b}]
<1>3. CASE pc' = [pc EXCEPT ![w] = "resolve"] /\ job' = [job EXCEPT ![w] = j]
  <2>1. j.del = {} /\ "resolve" \in Steps \ {"commit", "create", "reject"}
    BY DEF NoJob, Steps
  <2> HIDE DEF j
  <2> QED BY <1>1, <1>3, <2>1, MoveHand, QuietStep DEF Row
<1>4. CASE Leave(w, "repair", job[w].batch \ {b}, {})
  <2>1. /\ \A v \in Workers : v # w => pc'[v] = pc[v] /\ job'[v] = job[v]
        /\ ~ Pending(w)'
        /\ \A p : DoomedBy(w, p)' => p \in {}
    BY <1>4, LeaveHand
  <2> QED BY <1>1, <2>1, QuietStep DEF Row
<1> QED BY <1>2, <1>3, <1>4

LEMMA ResolvePaths ==
  ASSUME TypeInv, PathsInv, NEW w \in Workers, Resolve(w)
  PROVE  PathsInv'
<1> DEFINE j == job[w]
<1>1. UNCHANGED <<files, delOrig>>
  BY DEF Resolve
<1>2. CASE GoOn(w) /\ UNCHANGED <<objects, taken>>
  BY <1>1, <1>2, GoOnHand, QuietStep DEF Row
<1>3. ASSUME NEW p \in FileAt(j.hash, j.surf), job' = [job EXCEPT ![w].new = p],
             pc' = [pc EXCEPT ![w] = "cas"], UNCHANGED <<objects, taken>>
      PROVE  PathsInv'
  <2> DEFINE k == [job[w] EXCEPT !.new = p]
  <2>1. job' = [job EXCEPT ![w] = k] /\ k.del = job[w].del
    BY <1>3 DEF TypeInv, TypeOK, Jobs
  <2>2. "cas" \in Steps \ {"commit", "create", "reject"}
    BY DEF Steps
  <2> HIDE DEF k
  <2> QED BY <1>1, <1>3, <2>1, <2>2, MoveHand, QuietStep DEF Row
<1>4. ASSUME NEW p \in Paths \ taken, objects' = objects \cup {p}, taken' = taken \cup {p},
             job' = [job EXCEPT ![w].new = p], pc' = [pc EXCEPT ![w] = "create"]
      PROVE  PathsInv'
  <2>1. /\ \A v \in Workers : v # w => pc'[v] = pc[v] /\ job'[v] = job[v]
        /\ job'[w].new = p /\ job'[w].del = job[w].del /\ pc'[w] = "create"
    BY <1>4 DEF TypeInv, TypeOK, Jobs
  <2>2. \A q \in Paths : q \in delOrig' \/ DoomedBy(w, q)' => Doomed(q)
    BY <1>1, <2>1 DEF Doomed, DoomedBy, At
  <2>3. \A v \in Workers : Pending(v) => job[v].new \in Paths
    BY PendingPaths
  <2> QED BY <1>1, <1>4, <2>1, <2>2, <2>3, HandOver DEF Row
<1> QED BY <1>2, <1>3, <1>4 DEF Resolve

LEMMA CreateForSurfacePaths ==
  ASSUME TypeInv, PathsInv, NEW w \in Workers, CreateForSurface(w)
  PROVE  PathsInv'
<1> DEFINE j == job[w]
<1>1. Pending(w) /\ j.new \in Paths /\ ~ Row(j.new)
  BY PendingPaths DEF CreateForSurface, At, Pending, PathsInv
<1>2. pc'[w] = "cas" /\ \A v \in Workers : v # w => pc'[v] = pc[v]
  BY DEF CreateForSurface, TypeInv, TypeOK
<1>3. UNCHANGED <<taken, delOrig>> /\ ~ Pending(w)'
  BY <1>2 DEF CreateForSurface, Pending
<1>4. \A v \in Workers : Pending(v) => job[v].new \in Paths
  BY PendingPaths
<1>5. ASSUME NEW p \in FileAt(j.hash, j.surf), job' = [job EXCEPT ![w].new = p],
             objects' = objects \ {j.new}, UNCHANGED files
      PROVE  PathsInv'
  <2>1. job'[w].del = job[w].del /\ \A v \in Workers : v # w => job'[v] = job[v]
    BY <1>5 DEF TypeInv, TypeOK, Jobs
  <2>2. \A q \in Paths : q \in delOrig' \/ DoomedBy(w, q)' => Doomed(q)
    BY <1>2, <1>3, <2>1 DEF Doomed, DoomedBy, At
  <2>3. \A q \in Paths : (Row(q)' <=> Row(q)) /\ (q \in objects => q \in objects' \/ q = j.new)
    BY <1>5 DEF Row
  <2> QED BY <1>1, <1>2, <1>3, <1>4, <2>1, <2>2, <2>3, HandOver
<1>6. ASSUME files' = [files EXCEPT ![j.new] =
                         [row |-> TRUE, hash |-> j.hash, surf |-> j.surf, ref |-> 0]],
             UNCHANGED <<job, objects>>
      PROVE  PathsInv'
  <2>1. \A q \in Paths : q \in delOrig' \/ DoomedBy(w, q)' => Doomed(q)
    BY <1>2, <1>3, <1>6 DEF Doomed, DoomedBy, At
  <2>2. \A q \in Paths : Row(q)' => Row(q) \/ q = j.new
    BY <1>6 DEF Row, TypeInv, TypeOK
  <2> QED BY <1>1, <1>2, <1>3, <1>4, <1>6, <2>1, <2>2, HandOver
<1> QED BY <1>5, <1>6 DEF CreateForSurface

LEMMA RehomePaths ==
  ASSUME TypeInv, PathsInv, NEW w \in Workers, Rehome(w)
  PROVE  PathsInv'
<1> DEFINE j == job[w]
           old == files[j.file]
           left == IF OldDropped(j.file) THEN [old EXCEPT !.row = FALSE, !.ref = 0]
                   ELSE IF Row(j.file) THEN [old EXCEPT !.ref = @ - 1] ELSE old
<1>1. UNCHANGED <<objects, taken, delOrig>>
  BY DEF Rehome
<1>2. CASE GoOn(w) /\ UNCHANGED files
  BY <1>1, <1>2, GoOnHand, QuietStep DEF Row
<1>3. CASE /\ files' = [files EXCEPT ![j.new].ref = @ + 1, ![j.file] = left]
           /\ Leave(w, j.op, j.batch, OldDeleted(j.file))
  <2>1. j.file \in Paths /\ j.new \in Paths
    BY DEF Rehome, At, TypeInv, JobsShaped, JobShape
  <2>2. (left.row => old.row) /\ (OldDropped(j.file) => left.row = FALSE)
    BY <2>1 DEF TypeInv, TypeOK, FileRecords
  <2>3. files'[j.file] = left
    BY <1>3, <2>1 DEF TypeInv, TypeOK
  <2>4. \A p \in Paths : p # j.file => files'[p].row = files[p].row
    BY <1>3, <2>1 DEF TypeInv, TypeOK, FileRecords
  <2> HIDE DEF left
  <2>5. \A p \in Paths : Row(p)' => Row(p)
    BY <2>2, <2>3, <2>4 DEF Row
  <2>6. \A p \in OldDeleted(j.file) : Row(p) /\ ~ Row(p)'
    BY <2>1, <2>2, <2>3 DEF OldDeleted, OldDropped, Row
  <2>7. /\ \A v \in Workers : v # w => pc'[v] = pc[v] /\ job'[v] = job[v]
        /\ ~ Pending(w)'
        /\ \A p : DoomedBy(w, p)' => p \in OldDeleted(j.file)
    BY <1>3, LeaveHand
  <2>8. \A p \in Paths : p \in delOrig' \/ DoomedBy(w, p)' =>
                           Doomed(p) \/ (Row(p) /\ ~ Row(p)')
    BY <1>1, <2>6, <2>7 DEF Doomed
  <2>9. \A v \in Workers : Pending(v) => job[v].new \in Paths
    BY PendingPaths
  <2> QED BY <1>1, <2>5, <2>7, <2>8, <2>9, HandOver
<1> QED BY <1>2, <1>3 DEF Rehome

LEMMA WorkerPaths ==
  ASSUME TypeInv, PathsInv, NEW w \in Workers, Begin(w) \/ Continue(w)
  PROVE  PathsInv'
<1>1. CASE Begin(w)
  BY <1>1, SaveLookupPaths, PurgeFindPaths, DeleteAccountPaths, UpdateReadPaths,
     RepairFindPaths DEF Begin
<1>2. CASE Continue(w)
  BY <1>2, SaveInstantPaths, SavePutPaths, SaveCommitPaths, SaveRejectPaths, SaveThumbPaths,
     PurgeTxPaths, EnqueuePhysicalPaths, UpdatePlainPaths, RepairNextPaths, ResolvePaths,
     CreateForSurfacePaths, RehomePaths
     DEF Continue
<1> QED BY <1>1, <1>2

\* Nothing about paths changes with the rows of images.
LEMMA SamePaths ==
  ASSUME PathsInv, UNCHANGED <<files, objects, taken, delOrig, pc, job>>
  PROVE  PathsInv'
BY DEF PathsInv, Row, Doomed, At, Pending

LEMMA TasksPaths ==
  ASSUME TypeInv, PathsInv, RunTasks
  PROVE  PathsInv'
<1>1. ASSUME NEW p \in Paths, DeleteOriginal(p)
      PROVE  PathsInv'
  <2>1. Doomed(p)
    BY <1>1 DEF DeleteOriginal, Doomed
  <2>2. \A q : Doomed(q)' => Doomed(q)
    BY <1>1 DEF DeleteOriginal, Doomed, At
  <2>3. \A q : q \in objects /\ q # p => q \in objects'
    BY <1>1 DEF DeleteOriginal
  <2>4. UNCHANGED <<files, taken, pc, job>>
    BY <1>1 DEF DeleteOriginal
  <2> QED BY <2>1, <2>2, <2>3, <2>4 DEF PathsInv, Row, Pending
<1>2. ASSUME NEW k, DeleteThumb(k)
      PROVE  PathsInv'
  BY <1>2, SamePaths DEF DeleteThumb
<1> QED BY <1>1, <1>2 DEF RunTasks

LEMMA FaultPaths ==
  ASSUME TypeInv, PathsInv, Fault
  PROVE  PathsInv'
<1>1. ASSUME NEW w \in Workers, EnqueueLost(w)
      PROVE  PathsInv'
  <2>1. UNCHANGED <<files, objects, taken>>
    BY <1>1 DEF EnqueueLost
  <2>2. CASE GoOn(w) /\ UNCHANGED delOrig
    BY <2>1, <2>2, GoOnHand, QuietStep DEF Row
  <2>3. CASE \E p \in job[w].del :
               /\ delOrig' \in {delOrig, delOrig \cup {p}}
               /\ Leave(w, job[w].op, job[w].batch, job[w].del \ {p})
    BY <2>1, <2>3, EnqueueStep
  <2> QED BY <1>1, <2>2, <2>3 DEF EnqueueLost
<1>2. ASSUME NEW p \in Paths, DeleteAbandoned(p)
      PROVE  PathsInv'
  <2>1. \A q : Doomed(q)' => Doomed(q)
    BY <1>2 DEF DeleteAbandoned, Doomed, At
  <2>2. UNCHANGED <<files, objects, taken, pc, job>>
    BY <1>2 DEF DeleteAbandoned
  <2> QED BY <2>1, <2>2 DEF PathsInv, Row, Pending
<1>3. CASE Crash
  <2>1. \A w \in Workers : ~ Pending(w)' /\ pc'[w] = "idle" /\ job'[w].del = {}
    BY <1>3 DEF Crash, Pending, NoJob
  <2>2. \A q : Doomed(q)' => Doomed(q)
    BY <1>3, <2>1 DEF Crash, Doomed, At
  <2>3. UNCHANGED <<files, objects, taken>>
    BY <1>3 DEF Crash
  <2> QED BY <2>1, <2>2, <2>3 DEF PathsInv, Row
<1> QED BY <1>1, <1>2, <1>3 DEF Fault

LEMMA NextPaths == TypeInv /\ PathsInv /\ [Next]_vars => PathsInv'
<1> SUFFICES ASSUME TypeInv, PathsInv, [Next]_vars PROVE PathsInv'
  OBVIOUS
<1>1. CASE UNCHANGED vars
  BY <1>1, SamePaths DEF vars
<1>2. CASE Environment
  BY <1>2, SamePaths DEF Environment, SoftDelete, Restore, Lapse, Extend
<1> QED BY <1>1, <1>2, WorkerPaths, TasksPaths, FaultPaths DEF Next

LEMMA InitPaths == Init => PathsInv
BY DEF Init, PathsInv, Row, NoFile, Doomed, At, NoJob, Pending

\* Every object put in storage is always in exactly one hand.
THEOREM PathsCorrect == Spec => []PathsInv
BY InitPaths, TypeCorrect, NextPaths, PTL DEF Spec

\* A pending deletion never names the original of a file that exists.
THEOREM DeletionsAreSafe == Spec => []DeletionsAreDead
<1>1. PathsInv => DeletionsAreDead
  BY DEF PathsInv, DeletionsAreDead
<1> QED BY <1>1, PathsCorrect, PTL

\* Every file row has its original in storage, with or without foreign keys, and
\* even where a purge has worked from an out-of-date FileID.
THEOREM RowsStayServable == Spec => []RowsKeepObjects
<1>1. PathsInv => RowsKeepObjects
  BY DEF PathsInv, RowsKeepObjects
<1> QED BY <1>1, PathsCorrect, PTL

-----------------------------------------------------------------------------
(* Live images leave only when they are due.                               *)

\* A live image is gone with this step, for one of the reasons there are.
LeavesWhenDue(i) ==
  images[i].st = "live" /\ images'[i].st = "purged" =>
    \/ images[i].exp = "past"
    \/ images[i].owner \notin users'
    \/ \E w \in Workers : At(w, "purge") /\ job[w].op \in {"admin", "force"} /\ job'[w] # job[w]

\* A step that makes no image "purged".
SparesImages == \A i \in Images : images[i].st = "live" => images'[i].st # "purged"

LEMMA PurgedAre ==
  ASSUME NEW B, Purge(B), NEW i \in Images, images[i].st = "live", images'[i].st = "purged"
  PROVE  i \in Gone(B)
BY DEF Purge

LEMMA PurgeTxDue ==
  ASSUME TypeInv, NEW w \in Workers, PurgeTx(w), NEW i \in Images
  PROVE  LeavesWhenDue(i)
<1> SUFFICES ASSUME images[i].st = "live", images'[i].st = "purged" PROVE LeavesWhenDue(i)
  BY DEF LeavesWhenDue
<1> DEFINE op == job[w].op
           sweep == op \in {"force", "sweepTrash", "sweepExpired"}
<1>1. PICK T \in SUBSET job[w].batch :
        /\ IF sweep THEN Cardinality(T) = 1 ELSE T = job[w].batch
        /\ \/ /\ Purge(Passing(op, T))
              /\ Leave(w, op, IF sweep THEN job[w].batch \ T ELSE {}, Dropped(Passing(op, T)))
           \/ UNCHANGED images
  BY DEF PurgeTx
<1>2. At(w, "purge")
  BY DEF PurgeTx
<1>3. /\ Purge(Passing(op, T))
      /\ Leave(w, op, IF sweep THEN job[w].batch \ T ELSE {}, Dropped(Passing(op, T)))
  BY <1>1
<1>4. i \in Gone(Passing(op, T))
  BY <1>3, PurgedAre
<1>5. PICK b \in T : StillPurgeable(op, i)
  BY <1>4 DEF Gone, Passing
<1>6. CASE op = "sweepExpired"
  BY <1>5, <1>6 DEF StillPurgeable, Expired, LeavesWhenDue
<1>7. CASE op \in {"admin", "force"}
  <2>1. b \in job[w].batch /\ b \notin (IF sweep THEN job[w].batch \ T ELSE {})
    BY <1>1, <1>5
  <2>2. job'[w].batch = (IF sweep THEN job[w].batch \ T ELSE {}) \/ job'[w].batch = {}
    BY <1>3 DEF Leave, NoJob, TypeInv, TypeOK
  <2>3. job'[w] # job[w]
    BY <2>1, <2>2
  <2> QED BY <1>2, <1>7, <2>3 DEF LeavesWhenDue
<1>8. CASE op \notin {"admin", "force", "sweepExpired"}
  BY <1>5, <1>8 DEF StillPurgeable, InTrash
<1> QED BY <1>6, <1>7, <1>8

LEMMA DeleteAccountDue ==
  ASSUME NEW w \in Workers, NEW u \in Users, DeleteAccount(w, u), NEW i \in Images
  PROVE  LeavesWhenDue(i)
<1> SUFFICES ASSUME images[i].st = "live", images'[i].st = "purged" PROVE LeavesWhenDue(i)
  BY DEF LeavesWhenDue
<1>1. PICK B : B = {<<j, images[j].file>> : j \in Owned(u)} /\ Purge(B)
  BY DEF DeleteAccount
<1>2. i \in Gone(B)
  BY <1>1, PurgedAre
<1>3. images[i].owner = u
  BY <1>1, <1>2 DEF Gone, Owned
<1>4. users' = users \ {u}
  BY DEF DeleteAccount
<1> QED BY <1>3, <1>4 DEF LeavesWhenDue

\* An image of which one field changes.
LEMMA OthersSpare ==
  ASSUME TypeInv, NEW j, NEW r, images' = [images EXCEPT ![j] = r], r.st # "purged"
  PROVE  SparesImages
BY DEF SparesImages, TypeInv, TypeOK

LEMMA UploadSpares ==
  ASSUME TypeInv, NEW w \in Workers, SaveInstant(w) \/ SaveCommit(w)
  PROVE  SparesImages
<1>1. UNCHANGED images \/ \E i \in Fresh : \E u, p, s, x : images' = [images EXCEPT ![i] = NewImage(u, p, s, x)]
  BY DEF SaveInstant, SaveCommit
<1>2. \A u, p, s, x : NewImage(u, p, s, x).st = "live"
  BY DEF NewImage
<1> QED BY <1>1, <1>2, OthersSpare DEF SparesImages

LEMMA EnvironmentSpares ==
  ASSUME TypeInv, Environment
  PROVE  SparesImages
<1> images \in [Images -> ImageRecords]
  BY DEF TypeInv, TypeOK
<1>1. ASSUME NEW j \in Images, SoftDelete(j) \/ Restore(j) PROVE SparesImages
  BY <1>1 DEF SoftDelete, Restore, SparesImages, ImageRecords
<1>2. ASSUME NEW j \in Images, Lapse(j) PROVE SparesImages
  BY <1>2 DEF Lapse, SparesImages, ImageRecords
<1>3. ASSUME NEW j \in Images, NEW x \in Expiries, Extend(j, x) PROVE SparesImages
  BY <1>3 DEF Extend, SparesImages, ImageRecords
<1> QED BY <1>1, <1>2, <1>3 DEF Environment

LEMMA SwitchSpares ==
  ASSUME TypeInv, NEW w \in Workers, UpdatePlain(w) \/ Rehome(w)
  PROVE  SparesImages
<1> images \in [Images -> ImageRecords]
  BY DEF TypeInv, TypeOK
<1>1. CASE UpdatePlain(w)
  BY <1>1 DEF UpdatePlain, SparesImages, ImageRecords
<1>2. CASE Rehome(w)
  <2>1. CASE Rehomeable(job[w])
    <3>1. images[job[w].img].st = "live"
      BY <2>1 DEF Rehomeable, StillHome
    <3>2. PICK v : images' = [images EXCEPT ![job[w].img] = [@ EXCEPT !.file = job[w].new, !.vis = v]]
      BY <1>2, <2>1, Zenon DEF Rehome
    <3> QED BY <3>1, <3>2 DEF SparesImages, ImageRecords
  <2>2. CASE ~ Rehomeable(job[w])
    BY <1>2, <2>2 DEF Rehome, SparesImages
  <2> QED BY <2>1, <2>2
<1> QED BY <1>1, <1>2

\* A live image goes for good only when it has expired at that very moment, by an
\* operator or a forced age limit, or with its account: no sweep purges an image
\* whose expiry was moved after the sweep had read it.
THEOREM LiveImagesLeaveWhenDue == Spec => LiveImagePurgedOnlyWhenDue
<1> DEFINE Step == \A i \in Images :
        images[i].st = "live" /\ images'[i].st = "purged" =>
          \/ images[i].exp = "past"
          \/ images[i].owner \notin users'
          \/ \E w \in Workers : At(w, "purge") /\ job[w].op \in {"admin", "force"}
                                /\ job'[w] # job[w]
<1>1. TypeInv /\ [Next]_vars => [Step]_vars
  <2> SUFFICES ASSUME TypeInv, Next PROVE Step
    OBVIOUS
  <2>1. (\A i \in Images : LeavesWhenDue(i)) => Step
    BY DEF LeavesWhenDue
  <2>2. SparesImages => Step
    BY DEF SparesImages
  <2> HIDE DEF Step
  <2>3. ASSUME NEW w \in Workers, Continue(w) PROVE Step
    <3>1. CASE PurgeTx(w)
      BY <2>1, <3>1, PurgeTxDue
    <3>2. CASE SaveInstant(w) \/ SaveCommit(w) \/ UpdatePlain(w) \/ Rehome(w)
      BY <2>2, <3>2, UploadSpares, SwitchSpares
    <3>3. CASE SavePut(w) \/ SaveReject(w) \/ SaveThumb(w) \/ EnqueuePhysical(w) \/ RepairNext(w)
                 \/ Resolve(w) \/ CreateForSurface(w)
      <4>1. UNCHANGED images
        BY <3>3, Zenon DEF SavePut, SaveReject, SaveThumb, EnqueuePhysical, RepairNext, Resolve, CreateForSurface
      <4> QED BY <2>2, <4>1 DEF SparesImages
    <3> QED BY <2>3, <3>1, <3>2, <3>3 DEF Continue
  <2>4. ASSUME NEW w \in Workers, Begin(w) PROVE Step
    <3>1. CASE \E u \in Users : DeleteAccount(w, u)
      BY <2>1, <3>1, DeleteAccountDue
    <3>2. CASE ~ \E u \in Users : DeleteAccount(w, u)
      <4>1. UNCHANGED images
        BY ZenonT(60), <2>4, <3>2 DEF Begin, SaveLookup, PurgeFind, UpdateRead, RepairFind
      <4> QED BY <2>2, <4>1 DEF SparesImages
    <3> QED BY <3>1, <3>2
  <2>5. CASE Environment
    BY <2>2, <2>5, EnvironmentSpares
  <2>6. CASE RunTasks \/ Fault
    <3>1. UNCHANGED images
      BY <2>6, Zenon DEF RunTasks, DeleteOriginal, DeleteThumb, Fault, EnqueueLost, DeleteAbandoned, Crash
    <3> QED BY <2>2, <3>1 DEF SparesImages
  <2> QED BY <2>3, <2>4, <2>5, <2>6 DEF Next
<1> QED BY <1>1, TypeCorrect, PTL DEF Spec, LiveImagePurgedOnlyWhenDue

-----------------------------------------------------------------------------
(* The two counters, users.used_storage and files.ref_count, against the    *)
(* images they count.                                                       *)


LEMMA FiniteImages ==
  ASSUME NEW S \in SUBSET Images
  PROVE  IsFiniteSet(S) /\ Cardinality(S) \in Nat
BY FS_Subset, FS_CardinalityType, ImageStoreAssumption DEF ImageStoreAssumption

\* One image more, or some images less.
LEMMA OneMore ==
  ASSUME NEW S \in SUBSET Images, NEW i \in Images \ S
  PROVE  Cardinality(S \cup {i}) = Cardinality(S) + 1
BY FiniteImages, FS_AddElement

LEMMA OneLess ==
  ASSUME NEW S \in SUBSET Images, NEW i \in S
  PROVE  Cardinality(S \ {i}) = Cardinality(S) - 1
BY FiniteImages, FS_RemoveElement

LEMMA SomeLess ==
  ASSUME NEW S \in SUBSET Images, NEW G
  PROVE  /\ Cardinality(S \ G) = Cardinality(S) - Cardinality(S \cap G)
         /\ Cardinality(S \cap G) \in Nat
         /\ Cardinality(S \cap G) <= Cardinality(S)
         /\ Cardinality(S) <= Cardinality(S \cap G) => S \subseteq G
<1>1. IsFiniteSet(S) /\ S \cap G \in SUBSET S
  BY FiniteImages
<1>2. Cardinality(S \cap G) \in Nat /\ Cardinality(S) \in Nat
  BY FiniteImages
<1>3. Cardinality(S \ G) = Cardinality(S) - Cardinality(S \cap G)
  BY <1>1, FS_Difference
<1>4. /\ Cardinality(S \cap G) <= Cardinality(S)
      /\ Cardinality(S) = Cardinality(S \cap G) => S = S \cap G
  BY <1>1, FS_Subset
<1> QED BY <1>2, <1>3, <1>4

LEMMA NothingLess == Cardinality({}) = 0
BY FS_EmptySet

-----------------------------------------------------------------------------
(* What a purging transaction takes out was held: the gate re-read inside    *)
(* the transaction sees to it.                                             *)

\* The batch a transaction purges: pairs of a held image and a path.
LEMMA PassingHeld ==
  ASSUME TypeInv, NEW w \in Workers, NEW T \in SUBSET job[w].batch, NEW op
  PROVE  \A b \in Passing(op, T) :
            b[1] \in Images /\ Held(b[1]) /\ b = <<b[1], b[2]>>
<1>1. T \subseteq Images \X Paths
  BY DEF TypeInv, TypeOK, Jobs
<1>2. \A i : StillPurgeable(op, i) => Held(i)
  BY DEF StillPurgeable, InTrash, Expired, Held
<1> QED BY <1>1, <1>2 DEF Passing

LEMMA AccountHeld ==
  ASSUME NEW u
  PROVE  \A b \in {<<i, images[i].file>> : i \in Owned(u)} :
            b[1] \in Images /\ Held(b[1]) /\ b = <<b[1], b[2]>>
BY DEF Owned

-----------------------------------------------------------------------------
(* used_storage.                                                            *)

\* The images change hands for good: what an account owns afterwards.
LEMMA UsedPurge ==
  ASSUME TypeInv, UsedExact, NEW batch, Purge(batch),
         \A b \in batch : b[1] \in Images /\ Held(b[1])
  PROVE  UsedExact'
<1> SUFFICES ASSUME NEW u \in Users PROVE used'[u] = Cardinality(Owned(u)')
  BY DEF UsedExact
<1> DEFINE G == Gone(batch)
<1>1. G \subseteq {i \in Images : Held(i)}
  BY DEF Gone
<1>2. Returning(u, batch) = Owned(u) \cap G
  BY <1>1 DEF Returning, Owned
<1>3. Owned(u)' = Owned(u) \ G
  <2>1. \A i \in Images : i \in G => ~ Held(i)'
    BY DEF Purge, Purged, Held, Unborn
  <2>2. \A i \in Images : i \notin G => images'[i] = images[i]
    BY DEF Purge
  <2> QED BY <2>1, <2>2 DEF Owned, Held
<1>4. Owned(u) \in SUBSET Images
  BY DEF Owned
<1>5. used[u] = Cardinality(Owned(u)) /\ used[u] \in Nat
  BY DEF UsedExact, TypeInv, TypeOK
<1>6. used'[u] = Refunded(u, batch)
  BY DEF Purge
<1> HIDE DEF G
<1>7. /\ Cardinality(Owned(u) \ G) = Cardinality(Owned(u)) - Cardinality(Owned(u) \cap G)
      /\ Cardinality(Owned(u) \cap G) \in Nat
      /\ Cardinality(Owned(u) \cap G) <= Cardinality(Owned(u))
  BY <1>4, SomeLess
<1> QED BY <1>2, <1>3, <1>5, <1>6, <1>7 DEF Refunded

\* An image is created and charged to its owner.
LEMMA UsedCharge ==
  ASSUME TypeInv, UsedExact, NEW u \in Users \cup {Guest}, NEW i \in Fresh, NEW p, NEW s, NEW x,
         Charge(u), images' = [images EXCEPT ![i] = NewImage(u, p, s, x)]
  PROVE  UsedExact'
<1> SUFFICES ASSUME NEW v \in Users PROVE used'[v] = Cardinality(Owned(v)')
  BY DEF UsedExact
<1>1. i \in Images /\ ~ Held(i) /\ i \notin Owned(v)
  BY DEF Fresh, Held, Owned
<1>2. Owned(v)' = IF v = u THEN Owned(v) \cup {i} ELSE Owned(v)
  BY <1>1 DEF Owned, Held, NewImage, TypeInv, TypeOK
<1>3. used'[v] = IF v = u THEN used[v] + 1 ELSE used[v]
  BY ImageStoreAssumption DEF Charge, ImageStoreAssumption, TypeInv, TypeOK
<1>4. Owned(v) \in SUBSET Images /\ used[v] = Cardinality(Owned(v))
  BY DEF Owned, UsedExact
<1> QED BY <1>1, <1>2, <1>3, <1>4, OneMore

LEMMA UsedSame ==
  ASSUME UsedExact, UNCHANGED used,
         \A i \in Images : (Held(i)' <=> Held(i)) /\ images'[i].owner = images[i].owner
  PROVE  UsedExact'
BY DEF UsedExact, Owned

\* The actions that neither create nor purge an image leave every image held or
\* not, and whose it is.
LEMMA ImagesStay ==
  ASSUME TypeInv, UNCHANGED images \/ Environment
            \/ \E w \in Workers : UpdatePlain(w) \/ Rehome(w)
  PROVE  \A i \in Images : (Held(i)' <=> Held(i)) /\ images'[i].owner = images[i].owner
<1>1. CASE UNCHANGED images
  BY <1>1 DEF Held
<1>2. CASE Environment
  <2> DEFINE Same == \A i \in Images : (Held(i)' <=> Held(i)) /\ images'[i].owner = images[i].owner
  <2>1. ASSUME NEW i \in Images, SoftDelete(i) PROVE Same
    BY <2>1 DEF SoftDelete, Held, TypeInv, TypeOK, ImageRecords
  <2>2. ASSUME NEW i \in Images, Restore(i) PROVE Same
    BY <2>2 DEF Restore, Held, TypeInv, TypeOK, ImageRecords
  <2>3. ASSUME NEW i \in Images, Lapse(i) PROVE Same
    <3>1. CASE images' = [images EXCEPT ![i].exp = "past"]
      BY <3>1 DEF Held, TypeInv, TypeOK, ImageRecords
    <3>2. CASE images' = [images EXCEPT ![i].aged = TRUE]
      BY <3>2 DEF Held, TypeInv, TypeOK, ImageRecords
    <3> QED BY <2>3, <3>1, <3>2 DEF Lapse
  <2>4. ASSUME NEW i \in Images, NEW x, Extend(i, x) PROVE Same
    BY <2>4 DEF Extend, Held, TypeInv, TypeOK, ImageRecords
  <2> QED BY <1>2, <2>1, <2>2, <2>3, <2>4 DEF Environment
<1>3. ASSUME NEW w \in Workers, UpdatePlain(w)
      PROVE  \A i \in Images : (Held(i)' <=> Held(i)) /\ images'[i].owner = images[i].owner
  BY <1>3 DEF UpdatePlain, Held, TypeInv, TypeOK, ImageRecords
<1>4. ASSUME NEW w \in Workers, Rehome(w)
      PROVE  \A i \in Images : (Held(i)' <=> Held(i)) /\ images'[i].owner = images[i].owner
  <2>1. CASE UNCHANGED images
    BY <2>1 DEF Held
  <2>2. ASSUME NEW vis, images' = [images EXCEPT ![job[w].img] =
                                     [@ EXCEPT !.file = job[w].new, !.vis = vis]]
        PROVE  \A i \in Images : (Held(i)' <=> Held(i)) /\ images'[i].owner = images[i].owner
    BY <2>2 DEF Held, TypeInv, TypeOK, ImageRecords
  <2> QED BY <1>4, <2>1, <2>2 DEF Rehome
<1> QED BY <1>1, <1>2, <1>3, <1>4

LEMMA NextUsed == TypeInv /\ UsedExact /\ [Next]_vars => UsedExact'
<1> SUFFICES ASSUME TypeInv, UsedExact, [Next]_vars PROVE UsedExact'
  OBVIOUS
<1>1. ASSUME NEW w \in Workers, SaveInstant(w) \/ SaveCommit(w) PROVE UsedExact'
  <2>1. job[w].user \in Users \cup {Guest}
    BY DEF TypeInv, TypeOK, Jobs
  <2>2. \/ /\ Charge(job[w].user)
           /\ \E i \in Fresh, p \in {job[w].file, job[w].new} :
                images' = [images EXCEPT ![i] = NewImage(job[w].user, p, job[w].surf, job[w].exp)]
        \/ UNCHANGED <<images, used>>
    BY <1>1 DEF SaveInstant, SaveCommit
  <2>3. CASE UNCHANGED <<images, used>>
    BY <2>3, ImagesStay, UsedSame
  <2> QED BY <2>1, <2>2, <2>3, UsedCharge
<1>2. ASSUME NEW w \in Workers, PurgeTx(w) PROVE UsedExact'
  <2>1. PICK T \in SUBSET job[w].batch :
          Purge(Passing(job[w].op, T)) \/ UNCHANGED <<images, used>>
    BY <1>2 DEF PurgeTx
  <2>2. CASE UNCHANGED <<images, used>>
    BY <2>2, ImagesStay, UsedSame
  <2> QED BY <2>1, <2>2, PassingHeld, UsedPurge
<1>3. ASSUME NEW w \in Workers, NEW u \in Users, DeleteAccount(w, u) PROVE UsedExact'
  <2>1. Purge({<<i, images[i].file>> : i \in Owned(u)})
    BY <1>3 DEF DeleteAccount
  <2> QED BY <2>1, AccountHeld, UsedPurge
<1>4. ASSUME NEW w \in Workers, Begin(w) PROVE UsedExact'
  <2>1. CASE \E u \in Users : DeleteAccount(w, u)
    BY <1>3, <2>1
  <2>2. CASE ~ \E u \in Users : DeleteAccount(w, u)
    <3>1. UNCHANGED <<images, used>>
      BY ZenonT(60), <1>4, <2>2 DEF Begin, SaveLookup, PurgeFind, UpdateRead, RepairFind
    <3> QED BY <3>1, ImagesStay, UsedSame
  <2> QED BY <2>1, <2>2
<1>5. ASSUME NEW w \in Workers, Continue(w) PROVE UsedExact'
  <2>1. CASE SaveInstant(w) \/ SaveCommit(w) \/ PurgeTx(w)
    BY <1>1, <1>2, <2>1
  <2>2. CASE UpdatePlain(w) \/ Rehome(w)
    <3>1. UNCHANGED used
      BY <2>2 DEF UpdatePlain, Rehome
    <3> QED BY <2>2, <3>1, ImagesStay, UsedSame
  <2>3. CASE SavePut(w) \/ SaveReject(w) \/ SaveThumb(w) \/ EnqueuePhysical(w)
               \/ RepairNext(w) \/ Resolve(w) \/ CreateForSurface(w)
    <3>1. UNCHANGED <<images, used>>
      BY <2>3 DEF SavePut, SaveReject, SaveThumb, EnqueuePhysical, RepairNext, Resolve,
         CreateForSurface
    <3> QED BY <3>1, ImagesStay, UsedSame
  <2> QED BY <1>5, <2>1, <2>2, <2>3 DEF Continue
<1>6. CASE Environment
  <2>1. UNCHANGED used
    BY <1>6 DEF Environment, SoftDelete, Restore, Lapse, Extend
  <2> QED BY <1>6, <2>1, ImagesStay, UsedSame
<1>7. CASE RunTasks \/ Fault \/ UNCHANGED vars
  <2>1. UNCHANGED <<images, used>>
    BY <1>7 DEF RunTasks, DeleteOriginal, DeleteThumb, Fault, EnqueueLost, DeleteAbandoned,
       Crash, vars
  <2> QED BY <2>1, ImagesStay, UsedSame
<1> QED BY <1>4, <1>5, <1>6, <1>7 DEF Next

\* used_storage is what the account's images hold, trash included, however
\* uploads, purges, retries and deletions of accounts interleave.
THEOREM UsedIsExact == Spec => []UsedExact
<1>1. Init => UsedExact
  <2> SUFFICES ASSUME Init, NEW u \in Users PROVE used[u] = Cardinality(Owned(u))
    BY DEF UsedExact
  <2>1. Owned(u) = {}
    BY DEF Init, Owned, Held, Unborn
  <2> QED BY <2>1, NothingLess DEF Init
<1> QED BY <1>1, TypeCorrect, NextUsed, PTL DEF Spec

-----------------------------------------------------------------------------
(* A switch moves an image between two different files.  That is not obvious *)
(* where it happens: the old file and the new one were read at different     *)
(* times.  What keeps them apart is the surface, which a row keeps for life  *)
(* and a path has none of before its row exists.                           *)

\* What a worker has found out about the files it carries.
Apart(w) ==
  /\ Pending(w) => files[job[w].new].surf = None
  /\ pc[w] \in {"resolve", "create"} => files[job[w].file].surf \in Surfaces \ {job[w].surf}
  /\ At(w, "cas") => job[w].new # job[w].file

SurfInv ==
  /\ \A p \in Paths \ taken : files[p].surf = None
  /\ \A w \in Workers : Apart(w)

\* A worker's step writes no surface but that of its own new row.
LEMMA SurfStep ==
  ASSUME TypeInv, PathsInv, SurfInv, NEW w \in Workers,
         \A v \in Workers : v # w => pc'[v] = pc[v] /\ job'[v] = job[v],
         taken \subseteq taken',
         \A p \in Paths : files'[p].surf = files[p].surf \/ (Pending(w) /\ p = job[w].new),
         Apart(w)'
  PROVE  SurfInv'
<1>1. Pending(w) => job[w].new \in taken
  BY PendingPaths DEF PathsInv
<1>2. ASSUME NEW p \in Paths \ taken' PROVE files'[p].surf = None
  BY <1>1, <1>2 DEF SurfInv
<1>3. ASSUME NEW v \in Workers PROVE Apart(v)'
  <2>1. CASE v = w
    BY <2>1
  <2>2. CASE v # w
    <3>1. pc'[v] = pc[v] /\ job'[v] = job[v] /\ Apart(v)
      BY <2>2 DEF SurfInv
    <3>2. Pending(v) => files'[job[v].new].surf = None
      <4> SUFFICES ASSUME Pending(v) PROVE files'[job[v].new].surf = None
        OBVIOUS
      <4>1. job[v].new \in Paths /\ (Pending(w) => job[v].new # job[w].new)
        BY <2>2, PendingPaths DEF PathsInv
      <4> QED BY <3>1, <4>1 DEF Apart
    <3>3. pc[v] \in {"resolve", "create"} =>
            files'[job[v].file].surf \in Surfaces \ {job[v].surf}
      <4> SUFFICES ASSUME pc[v] \in {"resolve", "create"}
                   PROVE  files'[job[v].file].surf \in Surfaces \ {job[v].surf}
        OBVIOUS
      <4>1. job[v].file \in Paths /\ files[job[v].file].surf \in Surfaces \ {job[v].surf}
        BY <3>1 DEF Apart, TypeInv, JobsShaped, JobShape
      <4>2. Pending(w) => files[job[w].new].surf = None
        BY DEF SurfInv, Apart
      <4>3. None \notin Surfaces
        BY ImageStoreAssumption DEF ImageStoreAssumption
      <4> QED BY <4>1, <4>2, <4>3
    <3> QED BY <3>1, <3>2, <3>3 DEF Apart, Pending, At
  <2> QED BY <2>1, <2>2
<1> QED BY <1>2, <1>3 DEF SurfInv

\* A worker that is done with files, for now, has nothing to keep apart.
LEMMA SurfLeave ==
  ASSUME TypeInv, PathsInv, SurfInv, NEW w \in Workers, NEW op, NEW batch, NEW del,
         Leave(w, op, batch, del), taken \subseteq taken',
         \A p \in Paths : files'[p].surf = files[p].surf
  PROVE  SurfInv'
<1>1. /\ \A v \in Workers : v # w => pc'[v] = pc[v] /\ job'[v] = job[v]
      /\ pc'[w] \in {"enqueue", "idle", "repair", "purge"}
  BY DEF Leave, TypeInv, TypeOK
<1>2. Apart(w)'
  BY <1>1 DEF Apart, Pending, At
<1> QED BY <1>1, <1>2, SurfStep

LEMMA SurfMove ==
  ASSUME TypeInv, PathsInv, SurfInv, NEW w \in Workers, NEW step, NEW j,
         pc' = [pc EXCEPT ![w] = step], job' = [job EXCEPT ![w] = j],
         UNCHANGED files, taken \subseteq taken',
         step \in {"commit", "create"} => files[j.new].surf = None,
         step \in {"resolve", "create"} => files[j.file].surf \in Surfaces \ {j.surf},
         step = "cas" => j.new # j.file
  PROVE  SurfInv'
<1>1. /\ \A v \in Workers : v # w => pc'[v] = pc[v] /\ job'[v] = job[v]
      /\ pc'[w] = step /\ job'[w] = j
  BY DEF TypeInv, TypeOK
<1>2. Apart(w)'
  BY <1>1 DEF Apart, Pending, At
<1> QED BY <1>1, <1>2, SurfStep

LEMMA PurgeSurf ==
  ASSUME TypeInv, NEW batch, Purge(batch)
  PROVE  \A p \in Paths : files'[p].surf = files[p].surf
<1> SUFFICES ASSUME NEW p \in Paths PROVE files'[p].surf = files[p].surf
  OBVIOUS
<1>1. files[p] \in FileRecords
  BY DEF TypeInv, TypeOK
<1> QED BY <1>1 DEF Purge, FileRecords

LEMMA BeginSurf ==
  ASSUME TypeInv, PathsInv, SurfInv, NEW w \in Workers, Begin(w)
  PROVE  SurfInv'
<1>1. ASSUME NEW u, NEW h, NEW s, NEW x, SaveLookup(w, u, h, s, x) PROVE SurfInv'
  <2>1. UNCHANGED <<files, taken>>
    BY <1>1 DEF SaveLookup
  <2>2. PICK step, j :
          step \in {"put", "instant"} /\ pc' = [pc EXCEPT ![w] = step] /\ job' = [job EXCEPT ![w] = j]
    BY <1>1 DEF SaveLookup
  <2> QED BY <2>1, <2>2, SurfMove
<1>2. ASSUME PurgeFind(w) PROVE SurfInv'
  <2>1. UNCHANGED <<files, taken>>
    BY <1>2 DEF PurgeFind
  <2>2. PICK op, S : Snapshot(w, op, S)
    BY <1>2 DEF PurgeFind
  <2>3. PICK j : pc' = [pc EXCEPT ![w] = "purge"] /\ job' = [job EXCEPT ![w] = j]
    BY <2>2 DEF Snapshot
  <2> QED BY <2>1, <2>3, SurfMove
<1>3. ASSUME NEW u, DeleteAccount(w, u) PROVE SurfInv'
  <2> DEFINE B == {<<i, images[i].file>> : i \in Owned(u)}
  <2>1. Purge(B) /\ Leave(w, "account", {}, Dropped(B)) /\ UNCHANGED taken
    BY <1>3 DEF DeleteAccount
  <2> HIDE DEF B
  <2> QED BY <2>1, PurgeSurf, SurfLeave
<1>4. ASSUME NEW i \in Images, NEW s \in Surfaces, UpdateRead(w, i, s) PROVE SurfInv'
  <2> DEFINE p == images[i].file
             j == [NoJob EXCEPT !.op = "update", !.img = i, !.surf = s,
                                !.hash = files[p].hash, !.file = p]
  <2>1. UNCHANGED <<files, taken>>
    BY <1>4 DEF UpdateRead
  <2>2. /\ pc' = [pc EXCEPT ![w] = IF files[p].surf = s THEN "plain" ELSE "resolve"]
        /\ job' = [job EXCEPT ![w] = j]
    BY <1>4 DEF UpdateRead
  <2>3. j.file = p /\ j.surf = s
    BY DEF NoJob
  <2>4. p \in Paths /\ files[p].surf \in Surfaces
    BY <1>4 DEF UpdateRead, Held, TypeInv, ImagesPlaced, FilesTyped
  <2> HIDE DEF j
  <2> QED BY <2>1, <2>2, <2>3, <2>4, SurfMove
<1>5. ASSUME RepairFind(w) PROVE SurfInv'
  <2>1. UNCHANGED <<files, taken>> /\ \E B : Leave(w, "repair", B, {})
    BY <1>5 DEF RepairFind
  <2> QED BY <2>1, SurfLeave
<1> QED BY <1>1, <1>2, <1>3, <1>4, <1>5 DEF Begin

\* The steps of a handler that does not switch an image.
LEMMA ContinueSurf ==
  ASSUME TypeInv, PathsInv, SurfInv, NEW w \in Workers,
         \/ SaveInstant(w) \/ SavePut(w) \/ SaveCommit(w) \/ SaveReject(w) \/ SaveThumb(w)
         \/ PurgeTx(w) \/ EnqueuePhysical(w) \/ UpdatePlain(w) \/ EnqueueLost(w)
  PROVE  SurfInv'
<1>1. CASE SaveInstant(w)
  <2>1. UNCHANGED files \/ files' = [files EXCEPT ![job[w].file].ref = @ + 1]
    BY <1>1 DEF SaveInstant
  <2>2. \A p \in Paths : files'[p].surf = files[p].surf
    BY <2>1 DEF TypeInv, TypeOK, FileRecords
  <2>3. Leave(w, job[w].op, job[w].batch, {}) /\ UNCHANGED taken
    BY <1>1 DEF SaveInstant, GoOn
  <2> QED BY <2>2, <2>3, SurfLeave
<1>2. CASE SavePut(w)
  <2>1. CASE GoOn(w) /\ UNCHANGED taken
    BY <1>2, <2>1, SurfLeave DEF SavePut, GoOn
  <2>2. ASSUME NEW p \in Paths \ taken, taken' = taken \cup {p},
               pc' = [pc EXCEPT ![w] = "commit"], job' = [job EXCEPT ![w].new = p]
        PROVE  SurfInv'
    <3> DEFINE j == [job[w] EXCEPT !.new = p]
    <3>1. j.new = p /\ job' = [job EXCEPT ![w] = j]
      BY <2>2 DEF TypeInv, TypeOK, Jobs
    <3>2. files[p].surf = None /\ UNCHANGED files
      BY <1>2 DEF SurfInv, SavePut
    <3> HIDE DEF j
    <3> QED BY <2>2, <3>1, <3>2, SurfMove
  <2> QED BY <1>2, <2>1, <2>2 DEF SavePut
<1>3. CASE SaveCommit(w)
  <2>1. Pending(w) /\ UNCHANGED <<job, taken>>
    BY <1>3 DEF SaveCommit, At, Pending
  <2>2. \E step \in {"thumb", "reject"} : pc' = [pc EXCEPT ![w] = step]
    BY <1>3 DEF SaveCommit
  <2>3. \A v \in Workers : v # w => pc'[v] = pc[v] /\ job'[v] = job[v]
    BY <2>1, <2>2 DEF TypeInv, TypeOK
  <2>4. pc'[w] \in {"thumb", "reject"}
    BY <2>2 DEF TypeInv, TypeOK
  <2>5. \A p \in Paths : p # job[w].new => files'[p] = files[p]
    BY <1>3 DEF SaveCommit, TypeInv, TypeOK
  <2>6. Apart(w)'
    BY <2>4 DEF Apart, Pending, At
  <2> QED BY <2>1, <2>3, <2>5, <2>6, SurfStep
<1>4. CASE SaveReject(w) \/ SaveThumb(w) \/ UpdatePlain(w)
  BY <1>4, SurfLeave DEF SaveReject, SaveThumb, UpdatePlain, GoOn
<1>5. CASE PurgeTx(w)
  <2>1. PICK B, rest, del : /\ Leave(w, job[w].op, rest, del)
                            /\ Purge(B) \/ UNCHANGED files
    BY <1>5 DEF PurgeTx
  <2>2. UNCHANGED taken
    BY <1>5 DEF PurgeTx
  <2> QED BY <2>1, <2>2, PurgeSurf, SurfLeave
<1>6. CASE EnqueuePhysical(w) \/ EnqueueLost(w)
  <2>1. UNCHANGED <<files, taken>>
    BY <1>6 DEF EnqueuePhysical, EnqueueLost
  <2>2. \E batch, del : Leave(w, job[w].op, batch, del)
    BY <1>6 DEF EnqueuePhysical, EnqueueLost, GoOn
  <2> QED BY <2>1, <2>2, SurfLeave
<1> QED BY <1>1, <1>2, <1>3, <1>4, <1>5, <1>6

LEMMA SwitchSurf ==
  ASSUME TypeInv, PathsInv, SurfInv, NEW w \in Workers,
         RepairNext(w) \/ Resolve(w) \/ CreateForSurface(w) \/ Rehome(w)
  PROVE  SurfInv'
<1> DEFINE j == job[w]
<1>1. CASE RepairNext(w)
  <2>1. UNCHANGED <<files, taken>>
    BY <1>1 DEF RepairNext
  <2>2. PICK b \in job[w].batch :
          \/ /\ Row(b[2])
             /\ pc' = [pc EXCEPT ![w] = "resolve"]
             /\ job' = [job EXCEPT ![w] =
                          [NoJob EXCEPT !.op = "repair", !.img = b[1], !.file = b[2],
                                        !.surf = Other(files[b[2]].surf),
                                        !.hash = files[b[2]].hash,
                                        !.batch = job[w].batch \ {b}]]
          \/ Leave(w, "repair", job[w].batch \ {b}, {})
    BY <1>1 DEF RepairNext
  <2> DEFINE k == [NoJob EXCEPT !.op = "repair", !.img = b[1], !.file = b[2],
                                !.surf = Other(files[b[2]].surf),
                                !.hash = files[b[2]].hash, !.batch = job[w].batch \ {b}]
  <2>3. CASE Leave(w, "repair", job[w].batch \ {b}, {})
    BY <2>1, <2>3, SurfLeave
  <2>4. CASE /\ Row(b[2])
             /\ pc' = [pc EXCEPT ![w] = "resolve"]
             /\ job' = [job EXCEPT ![w] = k]
    <3>1. k.file = b[2] /\ k.surf = Other(files[b[2]].surf)
      BY DEF NoJob
    <3>2. b[2] \in Paths
      BY DEF TypeInv, TypeOK, Jobs
    <3>3. files[b[2]].surf \in Surfaces \ {k.surf}
      BY <2>4, <3>1, <3>2 DEF TypeInv, FilesTyped, Other, Surfaces
    <3> HIDE DEF k
    <3> QED BY <2>1, <2>4, <3>1, <3>3, SurfMove
  <2> QED BY <2>2, <2>3, <2>4
<1>2. CASE Resolve(w)
  <2>1. UNCHANGED files /\ files[j.file].surf \in Surfaces \ {j.surf}
    BY <1>2 DEF Resolve, At, SurfInv, Apart
  <2>2. CASE GoOn(w) /\ UNCHANGED taken
    BY <2>1, <2>2, SurfLeave DEF GoOn
  <2>3. ASSUME NEW p \in Paths, NEW step,
               pc' = [pc EXCEPT ![w] = step], job' = [job EXCEPT ![w].new = p],
               taken \subseteq taken',
               \/ step = "cas" /\ files[p].surf = j.surf
               \/ step = "create" /\ p \notin taken
        PROVE  SurfInv'
    <3> DEFINE k == [job[w] EXCEPT !.new = p]
    <3>1. /\ k.new = p /\ k.file = j.file /\ k.surf = j.surf
          /\ job' = [job EXCEPT ![w] = k]
      BY <2>3 DEF TypeInv, TypeOK, Jobs
    <3>2. step = "create" => files[p].surf = None
      BY <2>3 DEF SurfInv
    <3> HIDE DEF k
    <3> QED BY <2>1, <2>3, <3>1, <3>2, SurfMove
  <2>4. CASE \E p \in FileAt(j.hash, j.surf) :
               /\ job' = [job EXCEPT ![w].new = p]
               /\ pc' = [pc EXCEPT ![w] = "cas"]
               /\ UNCHANGED taken
    BY <2>3, <2>4 DEF FileAt
  <2>5. CASE \E p \in Paths \ taken : /\ taken' = taken \cup {p}
                                      /\ job' = [job EXCEPT ![w].new = p]
                                      /\ pc' = [pc EXCEPT ![w] = "create"]
    BY <2>3, <2>5
  <2> QED BY <1>2, <2>2, <2>4, <2>5 DEF Resolve
<1>3. CASE CreateForSurface(w)
  <2>1. /\ Pending(w) /\ UNCHANGED taken
        /\ files[j.new].surf = None /\ files[j.file].surf \in Surfaces \ {j.surf}
    BY <1>3 DEF CreateForSurface, At, Pending, SurfInv, Apart
  <2>2. pc' = [pc EXCEPT ![w] = "cas"]
    BY <1>3 DEF CreateForSurface
  <2>3. ASSUME NEW p, p # j.file, job' = [job EXCEPT ![w].new = p],
               \A q \in Paths : q # j.new => files'[q] = files[q]
        PROVE  SurfInv'
    <3>1. /\ \A v \in Workers : v # w => pc'[v] = pc[v] /\ job'[v] = job[v]
          /\ pc'[w] = "cas" /\ job'[w].new = p /\ job'[w].file = j.file
      BY <2>2, <2>3 DEF TypeInv, TypeOK, Jobs
    <3>2. Apart(w)'
      BY <2>3, <3>1 DEF Apart, Pending, At
    <3> QED BY <2>1, <2>3, <3>1, <3>2, SurfStep
  <2>4. CASE (\E p \in FileAt(j.hash, j.surf) : job' = [job EXCEPT ![w].new = p])
             /\ UNCHANGED files
    BY <2>1, <2>3, <2>4 DEF FileAt
  <2>5. CASE /\ files' = [files EXCEPT ![j.new] =
                            [row |-> TRUE, hash |-> j.hash, surf |-> j.surf, ref |-> 0]]
             /\ UNCHANGED job
    <3>1. j.new # j.file
      BY <2>1, ImageStoreAssumption DEF ImageStoreAssumption
    <3>2. job' = [job EXCEPT ![w].new = j.new]
      BY <2>5 DEF TypeInv, TypeOK, Jobs
    <3>3. \A q \in Paths : q # j.new => files'[q] = files[q]
      BY <2>5 DEF TypeInv, TypeOK
    <3> QED BY <2>3, <3>1, <3>2, <3>3
  <2> QED BY <1>3, <2>4, <2>5 DEF CreateForSurface
<1>4. CASE Rehome(w)
  <2> DEFINE old == files[j.file]
             left == IF OldDropped(j.file) THEN [old EXCEPT !.row = FALSE, !.ref = 0]
                     ELSE IF Row(j.file) THEN [old EXCEPT !.ref = @ - 1] ELSE old
  <2>1. UNCHANGED files \/ files' = [files EXCEPT ![j.new].ref = @ + 1, ![j.file] = left]
    BY <1>4 DEF Rehome
  <2>2. j.file \in Paths /\ left.surf = old.surf
    BY <1>4 DEF Rehome, At, TypeInv, TypeOK, FileRecords, JobsShaped, JobShape
  <2> HIDE DEF left
  <2>3. \A p \in Paths : files'[p].surf = files[p].surf
    BY <2>1, <2>2 DEF TypeInv, TypeOK, FileRecords
  <2>4. \E batch, del : Leave(w, j.op, batch, del)
    BY <1>4 DEF Rehome, GoOn
  <2>5. UNCHANGED taken
    BY <1>4 DEF Rehome
  <2> QED BY <2>3, <2>4, <2>5, SurfLeave
<1> QED BY <1>1, <1>2, <1>3, <1>4

LEMMA NextSurf == TypeInv /\ PathsInv /\ SurfInv /\ [Next]_vars => SurfInv'
<1> SUFFICES ASSUME TypeInv, PathsInv, SurfInv, [Next]_vars PROVE SurfInv'
  OBVIOUS
<1>1. ASSUME UNCHANGED <<files, taken, pc, job>> PROVE SurfInv'
  BY <1>1 DEF SurfInv, Apart, Pending, At
<1>2. CASE Environment \/ RunTasks \/ UNCHANGED vars \/ \E p \in Paths : DeleteAbandoned(p)
  <2>1. UNCHANGED <<files, taken, pc, job>>
    BY <1>2 DEF Environment, SoftDelete, Restore, Lapse, Extend, RunTasks, DeleteOriginal,
       DeleteThumb, DeleteAbandoned, vars
  <2> QED BY <1>1, <2>1
<1>3. CASE Crash
  BY <1>3 DEF Crash, SurfInv, Apart, Pending, At
<1> QED BY <1>2, <1>3, BeginSurf, ContinueSurf, SwitchSurf DEF Next, Continue, Fault

LEMMA InitSurf == Init => SurfInv
BY DEF Init, SurfInv, NoFile, Apart, Pending, At

-----------------------------------------------------------------------------
(* ref_count.  It counts the images that point to the row, and no held image *)
(* points nowhere, as long as no purge has used an out-of-date FileID.      *)

Counts ==
  /\ \A i \in Images : Held(i) => Row(images[i].file)
  /\ \A p \in Paths : Row(p) => files[p].ref = Cardinality(Refs(p))

CountsInv == ~ drift => Counts

\* The images a file is held by do not change, and neither does its row.
LEMMA CountsSame ==
  ASSUME CountsInv, UNCHANGED drift,
         \A i \in Images : (Held(i)' <=> Held(i)) /\ images'[i].file = images[i].file,
         \A p \in Paths : (Row(p)' <=> Row(p)) /\ files'[p].ref = files[p].ref,
         \A i \in Images : Held(i) => images[i].file \in Paths
  PROVE  CountsInv'
<1>1. \A p \in Paths : Refs(p)' = Refs(p)
  BY DEF Refs
<1> QED BY <1>1 DEF CountsInv, Counts

\* A new image on a row that exists, which counts one more, or on its own new row.
LEMMA CountsNew ==
  ASSUME TypeInv, CountsInv, UNCHANGED drift,
         NEW i \in Fresh, NEW q \in Paths, NEW u, NEW s, NEW x,
         images' = [images EXCEPT ![i] = NewImage(u, q, s, x)],
         Row(q)', files'[q].ref = IF Row(q) THEN files[q].ref + 1 ELSE 1,
         \A p \in Paths : p # q => files'[p] = files[p]
  PROVE  CountsInv'
<1> SUFFICES ASSUME ~ drift PROVE Counts'
  BY DEF CountsInv
<1>0. Counts
  BY DEF CountsInv
<1>1. i \in Images /\ ~ Held(i) /\ \A p : i \notin Refs(p)
  BY DEF Fresh, Held, Refs
<1>2. /\ Held(i)' /\ images'[i].file = q
      /\ \A k \in Images : k # i => images'[k] = images[k] /\ (Held(k)' <=> Held(k))
  BY <1>1 DEF NewImage, Held, TypeInv, TypeOK
<1>3. Refs(q)' = Refs(q) \cup {i} /\ \A p \in Paths : p # q => Refs(p)' = Refs(p)
  BY <1>1, <1>2 DEF Refs
<1>4. ASSUME NEW k \in Images, Held(k)' PROVE Row(images[k].file)'
  <2>1. CASE k = i
    BY <1>2, <2>1
  <2>2. CASE k # i
    BY <1>0, <1>2, <1>4, <2>2 DEF Counts, TypeInv, ImagesPlaced, Row
  <2> QED BY <2>1, <2>2
<1>5. ASSUME NEW p \in Paths, Row(p)' PROVE files'[p].ref = Cardinality(Refs(p)')
  <2>1. CASE p # q
    BY <1>0, <1>3, <1>5, <2>1 DEF Counts, Row
  <2>2. CASE p = q
    <3>1. Refs(q) \in SUBSET Images
      BY DEF Refs
    <3>2. Cardinality(Refs(q)') = Cardinality(Refs(q)) + 1
      BY <1>1, <1>3, <3>1, OneMore
    <3>3. ~ Row(q) => Refs(q) = {}
      BY <1>0 DEF Counts, Refs
    <3> QED BY <1>0, <2>2, <3>2, <3>3, NothingLess DEF Counts
  <2> QED BY <2>1, <2>2
<1> QED BY <1>4, <1>5 DEF Counts

\* A purge of held images under their present files counts each of them off the
\* file it points to, and drops the files that none is left on.
LEMMA CountsPurge ==
  ASSUME TypeInv, CountsInv, NEW batch, Purge(batch),
         \A b \in batch : b[1] \in Images /\ Held(b[1]) /\ b = <<b[1], b[2]>>
  PROVE  CountsInv'
<1> SUFFICES ASSUME ~ drift' PROVE Counts'
  BY DEF CountsInv
<1> DEFINE G == Gone(batch)
<1>1. ~ drift /\ Counts /\ \A b \in batch : images[b[1]].file = b[2]
  BY DEF Purge, CountsInv
<1>2. G \subseteq {i \in Images : Held(i)} /\ \A i \in G : <<i, images[i].file>> \in batch
  BY <1>1 DEF Gone
<1>3. \A i \in Images : IF i \in G THEN ~ Held(i)'
                        ELSE images'[i] = images[i] /\ (Held(i)' <=> Held(i))
  BY DEF Purge, Purged, Held, Unborn
<1>4. \A p : {i \in Images : <<i, p>> \in batch} = Refs(p) \cap G
  BY <1>1, <1>2 DEF Refs, Gone
<1>5. \A p : Refs(p)' = Refs(p) \ G
  BY <1>3 DEF Refs
<1> HIDE DEF G
<1>6. ASSUME NEW p \in Paths
      PROVE  /\ Cardinality(Refs(p)') = Cardinality(Refs(p)) - Charged(batch, p)
             /\ Charged(batch, p) \in Nat /\ Charged(batch, p) <= Cardinality(Refs(p))
             /\ Cardinality(Refs(p)) <= Charged(batch, p) => Refs(p) \subseteq G
  <2>1. Refs(p) \in SUBSET Images
    BY DEF Refs
  <2> QED BY <1>4, <1>5, <2>1, SomeLess DEF Charged
<1>7. ASSUME NEW p \in Paths, Row(p)' PROVE files'[p].ref = Cardinality(Refs(p)')
  <2>1. p \notin Dropped(batch) /\ Row(p)
    BY <1>7 DEF Purge, Row, TypeInv, TypeOK, FileRecords
  <2>2. files'[p].ref = files[p].ref - Charged(batch, p)
    BY <2>1 DEF Purge, RefLeft, TypeInv, TypeOK, FileRecords
  <2> QED BY <1>1, <1>6, <2>1, <2>2 DEF Counts
<1>8. ASSUME NEW i \in Images, Held(i)' PROVE Row(images[i].file)'
  <2> DEFINE p == images[i].file
  <2>1. i \notin G /\ images'[i] = images[i] /\ Held(i)
    BY <1>3, <1>8
  <2>2. p \in Paths /\ Row(p) /\ i \in Refs(p)
    BY <1>1, <2>1 DEF Counts, TypeInv, ImagesPlaced, Refs
  <2>3. files[p].ref = Cardinality(Refs(p)) /\ ~ (Refs(p) \subseteq G)
    BY <1>1, <2>1, <2>2 DEF Counts
  <2>4. p \notin Dropped(batch)
    BY <1>6, <2>2, <2>3 DEF Dropped, LastReference
  <2>5. \A q \in Paths : Row(q) /\ q \notin Dropped(batch) => Row(q)'
    BY DEF Purge, Row, TypeInv, TypeOK, FileRecords
  <2>6. p \in Paths /\ Row(p) /\ p \notin Dropped(batch) /\ images'[i].file = p
    BY <2>1, <2>2, <2>4
  <2> QED BY <2>5, <2>6 DEF Row
<1> QED BY <1>7, <1>8 DEF Counts

\* An image moves to another file: one reference more on the new file, one less on
\* the old, which is dropped if that was its last.
LEMMA CountsMove ==
  ASSUME TypeInv, CountsInv, UNCHANGED drift,
         NEW m \in Images, Held(m), images[m].file \in Paths,
         NEW a \in Paths, images[m].file = a, NEW b \in Paths, b # a, Row(b), NEW vis,
         images' = [images EXCEPT ![m] = [@ EXCEPT !.file = b, !.vis = vis]],
         files' = [files EXCEPT
           ![b].ref = @ + 1,
           ![a] = IF OldDropped(a) THEN [files[a] EXCEPT !.row = FALSE, !.ref = 0]
                  ELSE IF Row(a) THEN [files[a] EXCEPT !.ref = @ - 1] ELSE files[a]]
  PROVE  CountsInv'
<1> SUFFICES ASSUME ~ drift PROVE Counts'
  BY DEF CountsInv
<1>1. Counts /\ Row(a)
  BY DEF CountsInv, Counts
<1>2. /\ Held(m)' /\ images'[m].file = b
      /\ \A i \in Images : i # m => images'[i] = images[i] /\ (Held(i)' <=> Held(i))
  BY DEF Held, TypeInv, TypeOK, ImageRecords
<1>3. files[a] \in FileRecords /\ files[b] \in FileRecords
  BY DEF TypeInv, TypeOK
<1>4. /\ files'[b] = [files[b] EXCEPT !.ref = @ + 1]
      /\ \A p \in Paths : p # b /\ p # a => files'[p] = files[p]
      /\ OldDropped(a) => files'[a] = [files[a] EXCEPT !.row = FALSE, !.ref = 0]
      /\ ~ OldDropped(a) => files'[a] = [files[a] EXCEPT !.ref = @ - 1]
  BY <1>1 DEF TypeInv, TypeOK
<1>5. /\ Row(b)' /\ files'[b].ref = files[b].ref + 1
      /\ OldDropped(a) => ~ Row(a)'
      /\ ~ OldDropped(a) => Row(a)' /\ files'[a].ref = files[a].ref - 1
  <2>1. files'[b].row = files[b].row /\ files'[b].ref = files[b].ref + 1
    BY <1>3, <1>4 DEF FileRecords
  <2>2. OldDropped(a) => files'[a].row = FALSE
    <3>1. \A r \in FileRecords : [r EXCEPT !.row = FALSE, !.ref = 0].row = FALSE
      BY DEF FileRecords
    <3> QED BY <1>3, <1>4, <3>1
  <2>3. ~ OldDropped(a) => files'[a].row = files[a].row /\ files'[a].ref = files[a].ref - 1
    BY <1>3, <1>4 DEF FileRecords
  <2> QED BY <1>1, <2>1, <2>2, <2>3 DEF Row
<1>6. /\ Refs(b)' = Refs(b) \cup {m}
      /\ Refs(a)' = Refs(a) \ {m}
      /\ \A p \in Paths : p # b /\ p # a => Refs(p)' = Refs(p)
  BY <1>2 DEF Refs
<1>7. /\ m \in Refs(a) /\ m \notin Refs(b)
      /\ Refs(a) \in SUBSET Images /\ Refs(b) \in SUBSET Images
  BY DEF Refs
<1>8. /\ Cardinality(Refs(b)') = Cardinality(Refs(b)) + 1
      /\ Cardinality(Refs(a)') = Cardinality(Refs(a)) - 1
  BY <1>6, <1>7, OneMore, OneLess
<1>9. OldDropped(a) => Refs(a) \subseteq {m}
  <2> SUFFICES ASSUME OldDropped(a) PROVE Refs(a) \subseteq {m}
    OBVIOUS
  <2>1. Cardinality(Refs(a)) <= 1
    BY <1>1 DEF OldDropped, LastReference, Counts
  <2>2. Refs(a) \cap {m} = {m}
    BY <1>7
  <2>3. Cardinality({m}) = 1
    BY FS_Singleton
  <2>4. Cardinality(Refs(a)) <= Cardinality(Refs(a) \cap {m}) => Refs(a) \subseteq {m}
    BY <1>7, SomeLess
  <2> QED BY <2>1, <2>2, <2>3, <2>4
<1>10. ASSUME NEW p \in Paths, Row(p)' PROVE files'[p].ref = Cardinality(Refs(p)')
  BY ZenonT(60), <1>1, <1>4, <1>5, <1>6, <1>8, <1>10 DEF Counts, Row
<1>11. ASSUME NEW i \in Images, Held(i)' PROVE Row(images[i].file)'
  <2>1. CASE i = m
    BY <1>2, <1>5, <2>1 DEF Row
  <2>2. CASE i # m
    <3>1. /\ images'[i] = images[i] /\ Row(images[i].file) /\ images[i].file \in Paths
          /\ i \in Refs(images[i].file)
      BY <1>1, <1>2, <1>11, <2>2 DEF Counts, TypeInv, ImagesPlaced, Refs
    <3>2. images[i].file = a => ~ OldDropped(a)
      BY <1>9, <2>2, <3>1
    <3> QED BY ZenonT(60), <1>4, <1>5, <3>1, <3>2 DEF Row
  <2> QED BY <2>1, <2>2
<1> QED BY <1>10, <1>11 DEF Counts

\* A switch moves its image to another file, or nothing.
LEMMA CountsRehome ==
  ASSUME TypeInv, SurfInv, CountsInv, NEW w \in Workers, Rehome(w)
  PROVE  CountsInv'
<1> DEFINE j == job[w]
<1>1. UNCHANGED drift /\ \A i \in Images : Held(i) => images[i].file \in Paths
  BY DEF Rehome, TypeInv, ImagesPlaced
<1>2. CASE UNCHANGED <<images, files>>
  BY <1>1, <1>2, CountsSame DEF Held, Row
<1>3. CASE ~ UNCHANGED <<images, files>>
  <2>1. /\ j.file \in Paths /\ j.new \in Paths /\ j.img \in Images
        /\ j.new # j.file
    BY DEF Rehome, At, TypeInv, JobsShaped, JobShape, SurfInv, Apart
  <2>2. Held(j.img) /\ images[j.img].file = j.file /\ Row(j.new)
    BY <1>3 DEF Rehome, Rehomeable, StillHome, Held
  <2>3. PICK vis : images' = [images EXCEPT ![j.img] = [@ EXCEPT !.file = j.new, !.vis = vis]]
    BY <1>3 DEF Rehome
  <2>4. files' = [files EXCEPT
           ![j.new].ref = @ + 1,
           ![j.file] = IF OldDropped(j.file) THEN [files[j.file] EXCEPT !.row = FALSE, !.ref = 0]
                       ELSE IF Row(j.file) THEN [files[j.file] EXCEPT !.ref = @ - 1]
                       ELSE files[j.file]]
    BY <1>3 DEF Rehome
  <2> HIDE DEF j
  <2> QED BY <1>1, <2>1, <2>2, <2>3, <2>4, CountsMove
<1> QED BY <1>2, <1>3

\* A row is created for a path that had none, and no image points to it yet.
LEMMA CountsCreate ==
  ASSUME TypeInv, PathsInv, CountsInv, NEW w \in Workers, CreateForSurface(w)
  PROVE  CountsInv'
<1>1. UNCHANGED <<drift, images>> /\ \A i \in Images : Held(i) => images[i].file \in Paths
  BY DEF CreateForSurface, TypeInv, ImagesPlaced
<1>2. CASE UNCHANGED files
  BY <1>1, <1>2, CountsSame DEF Held, Row
<1>3. ASSUME NEW q \in Paths, ~ Row(q), NEW h, NEW s,
             files' = [files EXCEPT ![q] = [row |-> TRUE, hash |-> h, surf |-> s, ref |-> 0]]
      PROVE  CountsInv'
  <2> SUFFICES ASSUME ~ drift PROVE Counts'
    BY <1>1 DEF CountsInv
  <2>1. Counts
    BY DEF CountsInv
  <2>2. Row(q)' /\ files'[q].ref = 0 /\ \A p \in Paths : p # q => files'[p] = files[p]
    BY <1>3 DEF Row, TypeInv, TypeOK
  <2>3. \A p : Refs(p)' = Refs(p)
    BY <1>1 DEF Refs, Held
  <2>4. Refs(q) = {}
    BY <1>3, <2>1 DEF Counts, Refs
  <2>5. \A p \in Paths : Row(p) => Row(p)'
    BY <2>2 DEF Row
  <2>6. \A i \in Images : Held(i)' => Row(images[i].file)'
    BY <1>1, <2>1, <2>5 DEF Counts, Held, Row
  <2>7. ASSUME NEW p \in Paths, Row(p)' PROVE files'[p].ref = Cardinality(Refs(p)')
    BY <2>1, <2>2, <2>3, <2>4, <2>7, NothingLess DEF Counts, Row
  <2> QED BY <2>6, <2>7 DEF Counts
<1>4. job[w].new \in Paths /\ ~ Row(job[w].new)
  BY PendingPaths DEF CreateForSurface, At, Pending, PathsInv
<1> QED BY <1>2, <1>3, <1>4 DEF CreateForSurface

\* An upload: a reference to the row that was found, or a row of its own.
LEMMA CountsSave ==
  ASSUME TypeInv, PathsInv, CountsInv, NEW w \in Workers, SaveInstant(w) \/ SaveCommit(w)
  PROVE  CountsInv'
<1>1. UNCHANGED drift /\ \A i \in Images : Held(i) => images[i].file \in Paths
  BY DEF SaveInstant, SaveCommit, TypeInv, ImagesPlaced
<1>2. CASE UNCHANGED <<images, files>>
  BY <1>1, <1>2, CountsSame DEF Held, Row
<1>3. ASSUME SaveInstant(w), ~ UNCHANGED <<images, files>> PROVE CountsInv'
  <2>1. PICK i \in Fresh :
          images' = [images EXCEPT ![i] =
                       NewImage(job[w].user, job[w].file, job[w].surf, job[w].exp)]
    BY <1>3 DEF SaveInstant
  <2>2. Row(job[w].file) /\ files' = [files EXCEPT ![job[w].file].ref = @ + 1]
    BY <1>3 DEF SaveInstant, StillThere
  <2>3. job[w].file \in Paths
    BY <1>3 DEF SaveInstant, At, TypeInv, JobsShaped, JobShape
  <2>4. ASSUME NEW q \in Paths, Row(q), files' = [files EXCEPT ![q].ref = @ + 1]
        PROVE  /\ Row(q)' /\ files'[q].ref = files[q].ref + 1
               /\ \A p \in Paths : p # q => files'[p] = files[p]
    BY <2>4 DEF Row, TypeInv, TypeOK, FileRecords
  <2>5. ASSUME NEW q \in Paths, NEW u, NEW s, NEW x, Row(q),
               files' = [files EXCEPT ![q].ref = @ + 1],
               images' = [images EXCEPT ![i] = NewImage(u, q, s, x)]
        PROVE  CountsInv'
    BY <1>1, <2>4, <2>5, CountsNew
  <2> QED BY <2>1, <2>2, <2>3, <2>5
<1>4. ASSUME SaveCommit(w), ~ UNCHANGED <<images, files>> PROVE CountsInv'
  <2>1. PICK i \in Fresh :
          images' = [images EXCEPT ![i] =
                       NewImage(job[w].user, job[w].new, job[w].surf, job[w].exp)]
    BY <1>4 DEF SaveCommit
  <2>2. files' = [files EXCEPT ![job[w].new] =
                    [row |-> TRUE, hash |-> job[w].hash, surf |-> job[w].surf, ref |-> 1]]
    BY <1>4 DEF SaveCommit
  <2>3. job[w].new \in Paths /\ ~ Row(job[w].new)
    BY <1>4, PendingPaths DEF SaveCommit, At, Pending, PathsInv
  <2>4. ASSUME NEW q \in Paths, NEW h, NEW s,
               files' = [files EXCEPT ![q] =
                           [row |-> TRUE, hash |-> h, surf |-> s, ref |-> 1]]
        PROVE  /\ Row(q)' /\ files'[q].ref = 1
               /\ \A p \in Paths : p # q => files'[p] = files[p]
    BY <2>4 DEF Row, TypeInv, TypeOK
  <2>5. ASSUME NEW q \in Paths, NEW u, NEW h, NEW s, NEW x, ~ Row(q),
               files' = [files EXCEPT ![q] =
                           [row |-> TRUE, hash |-> h, surf |-> s, ref |-> 1]],
               images' = [images EXCEPT ![i] = NewImage(u, q, s, x)]
        PROVE  CountsInv'
    BY <1>1, <2>4, <2>5, CountsNew
  <2> QED BY <2>1, <2>2, <2>3, <2>5
<1> QED BY <1>2, <1>3, <1>4

LEMMA NextCounts == TypeInv /\ PathsInv /\ SurfInv /\ CountsInv /\ [Next]_vars => CountsInv'
<1> SUFFICES ASSUME TypeInv, PathsInv, SurfInv, CountsInv, [Next]_vars PROVE CountsInv'
  OBVIOUS
<1>1. ASSUME UNCHANGED <<images, files, drift>> PROVE CountsInv'
  BY <1>1, CountsSame DEF Held, Row, TypeInv, ImagesPlaced
<1>2. ASSUME NEW w \in Workers, PurgeTx(w) PROVE CountsInv'
  <2>1. PICK T \in SUBSET job[w].batch :
          Purge(Passing(job[w].op, T)) \/ UNCHANGED <<images, files, drift>>
    BY <1>2 DEF PurgeTx
  <2> QED BY <1>1, <2>1, PassingHeld, CountsPurge
<1>3. ASSUME NEW w \in Workers, NEW u \in Users, DeleteAccount(w, u) PROVE CountsInv'
  <2>1. Purge({<<i, images[i].file>> : i \in Owned(u)})
    BY <1>3 DEF DeleteAccount
  <2> QED BY <2>1, AccountHeld, CountsPurge
<1>4. ASSUME NEW w \in Workers, UpdatePlain(w) PROVE CountsInv'
  <2>1. UNCHANGED <<files, drift>>
    BY <1>4 DEF UpdatePlain
  <2>2. \A i \in Images : (Held(i)' <=> Held(i)) /\ images'[i].file = images[i].file
    BY <1>4 DEF UpdatePlain, Held, TypeInv, TypeOK, ImageRecords
  <2> QED BY <2>1, <2>2, CountsSame DEF Row, TypeInv, ImagesPlaced
<1>5. ASSUME NEW w \in Workers, Begin(w) PROVE CountsInv'
  <2>1. CASE \E u \in Users : DeleteAccount(w, u)
    BY <1>3, <2>1
  <2>2. CASE ~ \E u \in Users : DeleteAccount(w, u)
    <3>1. UNCHANGED <<images, files, drift>>
      BY ZenonT(60), <1>5, <2>2 DEF Begin, SaveLookup, PurgeFind, UpdateRead, RepairFind
    <3> QED BY <1>1, <3>1
  <2> QED BY <2>1, <2>2
<1>6. ASSUME NEW w \in Workers, Continue(w) PROVE CountsInv'
  <2>1. CASE SaveInstant(w) \/ SaveCommit(w) \/ PurgeTx(w) \/ UpdatePlain(w)
               \/ CreateForSurface(w) \/ Rehome(w)
    BY <1>2, <1>4, <2>1, CountsSave, CountsCreate, CountsRehome
  <2>2. CASE SavePut(w) \/ SaveReject(w) \/ SaveThumb(w) \/ EnqueuePhysical(w)
               \/ RepairNext(w) \/ Resolve(w)
    <3>1. UNCHANGED <<images, files, drift>>
      BY <2>2 DEF SavePut, SaveReject, SaveThumb, EnqueuePhysical, RepairNext, Resolve
    <3> QED BY <1>1, <3>1
  <2> QED BY <1>6, <2>1, <2>2 DEF Continue
<1>7. CASE Environment
  <2>1. UNCHANGED <<files, drift>>
    BY <1>7 DEF Environment, SoftDelete, Restore, Lapse, Extend
  <2>2. \A i \in Images : images'[i].file = images[i].file
    <3>1. ASSUME NEW i \in Images, SoftDelete(i) \/ Restore(i)
          PROVE  \A k \in Images : images'[k].file = images[k].file
      <4>1. \E st : images' = [images EXCEPT ![i] = [@ EXCEPT !.st = st, !.aged = FALSE]]
        BY <3>1 DEF SoftDelete, Restore
      <4>2. \A r \in ImageRecords : \A st :
              [r EXCEPT !.st = st, !.aged = FALSE].file = r.file
        BY DEF ImageRecords
      <4> QED BY <4>1, <4>2 DEF TypeInv, TypeOK
    <3>2. ASSUME NEW i \in Images, Lapse(i)
          PROVE  \A k \in Images : images'[k].file = images[k].file
      <4>1. CASE images' = [images EXCEPT ![i].exp = "past"]
        BY <4>1 DEF TypeInv, TypeOK, ImageRecords
      <4>2. CASE images' = [images EXCEPT ![i].aged = TRUE]
        BY <4>2 DEF TypeInv, TypeOK, ImageRecords
      <4> QED BY <3>2, <4>1, <4>2 DEF Lapse
    <3>3. ASSUME NEW i \in Images, NEW x, Extend(i, x)
          PROVE  \A k \in Images : images'[k].file = images[k].file
      BY <3>3 DEF Extend, TypeInv, TypeOK, ImageRecords
    <3> QED BY <1>7, <3>1, <3>2, <3>3 DEF Environment
  <2> QED BY <1>7, <2>1, <2>2, ImagesStay, CountsSame DEF Row, TypeInv, ImagesPlaced
<1>8. CASE RunTasks \/ Fault \/ UNCHANGED vars
  <2>1. UNCHANGED <<images, files, drift>>
    BY <1>8 DEF RunTasks, DeleteOriginal, DeleteThumb, Fault, EnqueueLost, DeleteAbandoned,
       Crash, vars
  <2> QED BY <1>1, <2>1
<1> QED BY <1>5, <1>6, <1>7, <1>8 DEF Next

LEMMA InitCounts == Init => CountsInv
BY DEF Init, CountsInv, Counts, Held, Unborn, Row, NoFile

\* The counting invariant, with what it rests on.
THEOREM CountsCorrect == Spec => [](SurfInv /\ CountsInv)
<1>1. Spec => []SurfInv
  BY InitSurf, TypeCorrect, PathsCorrect, NextSurf, PTL DEF Spec
<1>2. Spec => []CountsInv
  BY <1>1, InitCounts, TypeCorrect, PathsCorrect, NextCounts, PTL DEF Spec
<1> QED BY <1>1, <1>2, PTL

\* ref_count counts exactly the images, live or in the trash, that point to the
\* file, as long as no purge has worked from an out-of-date FileID.
THEOREM RefCountIsExact == Spec => []RefCountExact
<1>1. CountsInv => RefCountExact
  BY DEF CountsInv, Counts, RefCountExact
<1> QED BY <1>1, CountsCorrect, PTL

\* No image, live or restorable, loses its file row or its original, as long as no
\* purge has worked from an out-of-date FileID.
THEOREM OriginalsKept == Spec => []OriginalKeptUnlessDrift
<1>1. TypeInv /\ CountsInv /\ RowsKeepObjects => OriginalKeptUnlessDrift
  BY DEF CountsInv, Counts, RowsKeepObjects, OriginalKeptUnlessDrift, OriginalKept, TypeInv,
     ImagesPlaced
<1> QED BY <1>1, CountsCorrect, TypeCorrect, RowsStayServable, PTL

-----------------------------------------------------------------------------
(* The store implements the library.  A switch changes the row an image      *)
(* points to, and a row's bytes are what its hash says: so the proof is that  *)
(* hash and surface are given to a path once, and that a worker's copy of a   *)
(* hash is that of the rows it carries, however long ago it read them.       *)

\* A path whose row has been created, with these bytes.
Named(p, h) == p \in Paths /\ files[p].surf \in Surfaces /\ files[p].hash = h

Carries(w) ==
  /\ pc[w] \in {"instant", "resolve", "create", "cas"} => Named(job[w].file, job[w].hash)
  /\ pc[w] = "cas" => Named(job[w].new, job[w].hash)

HashInv == \A w \in Workers : Carries(w)

\* No step changes the hash or the surface of a row, nor of one that is gone.
NamesKept ==
  \A p \in Paths : files[p].surf \in Surfaces =>
    files'[p].surf = files[p].surf /\ files'[p].hash = files[p].hash

\* A row that only loses or gains a reference, or goes, keeps its name.
LEMMA PurgeNames ==
  ASSUME TypeInv, NEW batch, Purge(batch)
  PROVE  NamesKept
<1> SUFFICES ASSUME NEW p \in Paths
             PROVE  files'[p].surf = files[p].surf /\ files'[p].hash = files[p].hash
  BY DEF NamesKept
<1>1. files[p] \in FileRecords
  BY DEF TypeInv, TypeOK
<1> QED BY <1>1 DEF Purge, FileRecords

\* The rows that are written are of paths without a surface.
LEMMA CreateNames ==
  ASSUME TypeInv, SurfInv, NEW w \in Workers, SaveCommit(w) \/ CreateForSurface(w)
  PROVE  NamesKept
<1>1. files[job[w].new].surf \notin Surfaces
  BY ImageStoreAssumption DEF ImageStoreAssumption, SaveCommit, CreateForSurface, At, SurfInv,
     Apart, Pending
<1>2. \A p \in Paths : p # job[w].new => files'[p] = files[p]
  BY DEF SaveCommit, CreateForSurface, TypeInv, TypeOK
<1> QED BY <1>1, <1>2 DEF NamesKept

LEMMA RehomeNames ==
  ASSUME TypeInv, NEW w \in Workers, Rehome(w)
  PROVE  NamesKept
<1> DEFINE j == job[w]
           old == files[j.file]
           left == IF OldDropped(j.file) THEN [old EXCEPT !.row = FALSE, !.ref = 0]
                   ELSE IF Row(j.file) THEN [old EXCEPT !.ref = @ - 1] ELSE old
<1>1. UNCHANGED files \/ files' = [files EXCEPT ![j.new].ref = @ + 1, ![j.file] = left]
  BY DEF Rehome
<1>2. j.file \in Paths /\ left.surf = old.surf /\ left.hash = old.hash
  BY DEF Rehome, At, TypeInv, TypeOK, FileRecords, JobsShaped, JobShape
<1> HIDE DEF left
<1> QED BY <1>1, <1>2 DEF TypeInv, TypeOK, FileRecords, NamesKept

LEMMA NextNames == TypeInv /\ SurfInv /\ [Next]_vars => NamesKept
<1> SUFFICES ASSUME TypeInv, SurfInv, [Next]_vars PROVE NamesKept
  OBVIOUS
<1>1. ASSUME UNCHANGED files PROVE NamesKept
  BY <1>1 DEF NamesKept
<1>2. ASSUME NEW w \in Workers, Begin(w) PROVE NamesKept
  <2>1. CASE \E u \in Users : DeleteAccount(w, u)
    BY <2>1, PurgeNames DEF DeleteAccount
  <2>2. CASE ~ \E u \in Users : DeleteAccount(w, u)
    <3>1. UNCHANGED files
      BY ZenonT(60), <1>2, <2>2 DEF Begin, SaveLookup, PurgeFind, UpdateRead, RepairFind
    <3> QED BY <1>1, <3>1
  <2> QED BY <2>1, <2>2
<1>3. ASSUME NEW w \in Workers, Continue(w) PROVE NamesKept
  <2>1. CASE SaveInstant(w)
    <3>1. UNCHANGED files \/ files' = [files EXCEPT ![job[w].file].ref = @ + 1]
      BY <2>1 DEF SaveInstant
    <3> QED BY <3>1 DEF TypeInv, TypeOK, FileRecords, NamesKept
  <2>2. CASE PurgeTx(w)
    <3>1. (\E B : Purge(B)) \/ UNCHANGED files
      BY <2>2 DEF PurgeTx
    <3> QED BY <1>1, <3>1, PurgeNames
  <2>3. CASE SavePut(w) \/ SaveReject(w) \/ SaveThumb(w) \/ EnqueuePhysical(w)
               \/ UpdatePlain(w) \/ RepairNext(w) \/ Resolve(w)
    <3>1. UNCHANGED files
      BY <2>3 DEF SavePut, SaveReject, SaveThumb, EnqueuePhysical, UpdatePlain, RepairNext, Resolve
    <3> QED BY <1>1, <3>1
  <2> QED BY <1>3, <2>1, <2>2, <2>3, CreateNames, RehomeNames DEF Continue
<1>4. CASE Environment \/ RunTasks \/ Fault \/ UNCHANGED vars
  <2>1. UNCHANGED files
    BY <1>4 DEF Environment, SoftDelete, Restore, Lapse, Extend, RunTasks, DeleteOriginal,
       DeleteThumb, Fault, EnqueueLost, DeleteAbandoned, Crash, vars
  <2> QED BY <1>1, <2>1
<1> QED BY <1>2, <1>3, <1>4 DEF Next

\* What a worker carries stays true while others run.
LEMMA HashStep ==
  ASSUME HashInv, NamesKept, NEW w \in Workers,
         \A v \in Workers : v # w => pc'[v] = pc[v] /\ job'[v] = job[v],
         Carries(w)'
  PROVE  HashInv'
<1> SUFFICES ASSUME NEW v \in Workers, v # w PROVE Carries(v)'
  BY DEF HashInv
<1>1. Carries(v) /\ pc'[v] = pc[v] /\ job'[v] = job[v]
  BY DEF HashInv
<1>2. \A p, h : Named(p, h) => Named(p, h)'
  BY DEF Named, NamesKept
<1>3. pc[v] \in {"instant", "resolve", "create", "cas"} => Named(job[v].file, job[v].hash)'
  BY <1>1, <1>2 DEF Carries
<1>4. pc[v] = "cas" => Named(job[v].new, job[v].hash)'
  BY <1>1, <1>2 DEF Carries
<1> QED BY <1>1, <1>3, <1>4 DEF Carries

LEMMA HashLeave ==
  ASSUME TypeInv, HashInv, NamesKept, NEW w \in Workers, NEW op, NEW batch, NEW del,
         Leave(w, op, batch, del)
  PROVE  HashInv'
<1>1. /\ \A v \in Workers : v # w => pc'[v] = pc[v] /\ job'[v] = job[v]
      /\ pc'[w] \in {"enqueue", "idle", "repair", "purge"}
  BY DEF Leave, TypeInv, TypeOK
<1> QED BY <1>1, HashStep DEF Carries

LEMMA HashMove ==
  ASSUME TypeInv, HashInv, NamesKept, NEW w \in Workers, NEW step, NEW j,
         pc' = [pc EXCEPT ![w] = step], job' = [job EXCEPT ![w] = j],
         step \in {"instant", "resolve", "create", "cas"} => Named(j.file, j.hash),
         step = "cas" => /\ j.new \in Paths
                         /\ files'[j.new].surf \in Surfaces /\ files'[j.new].hash = j.hash
  PROVE  HashInv'
<1>1. /\ \A v \in Workers : v # w => pc'[v] = pc[v] /\ job'[v] = job[v]
      /\ pc'[w] = step /\ job'[w] = j
  BY DEF TypeInv, TypeOK
<1>2. \A p, h : Named(p, h) => Named(p, h)'
  BY DEF Named, NamesKept
<1>3. step \in {"instant", "resolve", "create", "cas"} => Named(job[w].file, job[w].hash)'
  BY <1>1, <1>2
<1>4. step = "cas" => Named(job[w].new, job[w].hash)'
  BY <1>1 DEF Named
<1>5. Carries(w)'
  BY <1>1, <1>3, <1>4 DEF Carries
<1> QED BY <1>1, <1>5, HashStep

LEMMA BeginHash ==
  ASSUME TypeInv, HashInv, NamesKept, NEW w \in Workers, Begin(w)
  PROVE  HashInv'
<1>1. ASSUME NEW u, NEW h, NEW s \in Surfaces, NEW x, SaveLookup(w, u, h, s, x) PROVE HashInv'
  <2>1. CASE FileAt(h, s) = {}
    <3>1. \E j : pc' = [pc EXCEPT ![w] = "put"] /\ job' = [job EXCEPT ![w] = j]
      BY <1>1, <2>1 DEF SaveLookup
    <3> QED BY <3>1, HashMove
  <2>2. CASE FileAt(h, s) # {}
    <3>1. PICK p \in FileAt(h, s) :
            /\ pc' = [pc EXCEPT ![w] = "instant"]
            /\ job' = [job EXCEPT ![w] = [NoJob EXCEPT !.op = "save", !.user = u, !.hash = h,
                                                       !.surf = s, !.exp = x, !.file = p]]
      BY <1>1, <2>2 DEF SaveLookup
    <3> DEFINE j == [NoJob EXCEPT !.op = "save", !.user = u, !.hash = h, !.surf = s,
                                  !.exp = x, !.file = p]
    <3>2. j.file = p /\ j.hash = h
      BY DEF NoJob
    <3>3. Named(p, h)
      BY DEF FileAt, Named
    <3>4. pc' = [pc EXCEPT ![w] = "instant"] /\ job' = [job EXCEPT ![w] = j]
      BY <3>1
    <3> HIDE DEF j
    <3> QED BY <3>2, <3>3, <3>4, HashMove
  <2> QED BY <2>1, <2>2
<1>2. ASSUME PurgeFind(w) PROVE HashInv'
  <2>1. PICK op, S : Snapshot(w, op, S)
    BY <1>2 DEF PurgeFind
  <2>2. PICK j : pc' = [pc EXCEPT ![w] = "purge"] /\ job' = [job EXCEPT ![w] = j]
    BY <2>1 DEF Snapshot
  <2> QED BY <2>2, HashMove
<1>3. ASSUME NEW u, DeleteAccount(w, u) PROVE HashInv'
  <2>1. \E batch, del : Leave(w, "account", batch, del)
    BY <1>3 DEF DeleteAccount
  <2> QED BY <2>1, HashLeave
<1>4. ASSUME NEW i \in Images, NEW s \in Surfaces, UpdateRead(w, i, s) PROVE HashInv'
  <2> DEFINE p == images[i].file
             j == [NoJob EXCEPT !.op = "update", !.img = i, !.surf = s,
                                !.hash = files[p].hash, !.file = p]
  <2>1. /\ pc' = [pc EXCEPT ![w] = IF files[p].surf = s THEN "plain" ELSE "resolve"]
        /\ job' = [job EXCEPT ![w] = j]
    BY <1>4 DEF UpdateRead
  <2>2. j.file = p /\ j.hash = files[p].hash
    BY DEF NoJob
  <2>3. Named(p, files[p].hash)
    BY <1>4 DEF UpdateRead, Held, TypeInv, ImagesPlaced, FilesTyped, Named
  <2> HIDE DEF j
  <2> QED BY <2>1, <2>2, <2>3, HashMove
<1>5. ASSUME RepairFind(w) PROVE HashInv'
  <2>1. \E B : Leave(w, "repair", B, {})
    BY <1>5 DEF RepairFind
  <2> QED BY <2>1, HashLeave
<1> QED BY <1>1, <1>2, <1>3, <1>4, <1>5 DEF Begin

LEMMA ContinueHash ==
  ASSUME TypeInv, HashInv, NamesKept, NEW w \in Workers,
         \/ SaveInstant(w) \/ SavePut(w) \/ SaveCommit(w) \/ SaveReject(w) \/ SaveThumb(w)
         \/ PurgeTx(w) \/ EnqueuePhysical(w) \/ UpdatePlain(w) \/ EnqueueLost(w) \/ Rehome(w)
  PROVE  HashInv'
<1>1. CASE SavePut(w) \/ SaveCommit(w)
  <2>1. CASE GoOn(w)
    BY <2>1, HashLeave DEF GoOn
  <2>2. CASE ~ GoOn(w)
    <3>1. \E step \in {"commit", "thumb", "reject"} : \E j :
            pc' = [pc EXCEPT ![w] = step] /\ job' = [job EXCEPT ![w] = j]
      <4>1. CASE SavePut(w)
        BY <2>2, <4>1 DEF SavePut
      <4>2. CASE SaveCommit(w)
        <5>1. job' = [job EXCEPT ![w] = job[w]]
          BY <4>2 DEF SaveCommit, TypeInv, TypeOK
        <5>2. \E step \in {"thumb", "reject"} : pc' = [pc EXCEPT ![w] = step]
          BY <4>2 DEF SaveCommit
        <5> QED BY <5>1, <5>2
      <4> QED BY <1>1, <4>1, <4>2
    <3> QED BY <3>1, HashMove
  <2> QED BY <2>1, <2>2
<1>2. CASE ~ (SavePut(w) \/ SaveCommit(w))
  <2>1. \E op, batch, del : Leave(w, op, batch, del)
    BY <1>2 DEF SaveInstant, SaveReject, SaveThumb, PurgeTx, EnqueuePhysical, UpdatePlain,
       EnqueueLost, Rehome, GoOn
  <2> QED BY <2>1, HashLeave
<1> QED BY <1>1, <1>2

LEMMA SwitchHash ==
  ASSUME TypeInv, HashInv, NamesKept, NEW w \in Workers,
         RepairNext(w) \/ Resolve(w) \/ CreateForSurface(w)
  PROVE  HashInv'
<1> DEFINE j == job[w]
<1>1. CASE RepairNext(w)
  <2>1. PICK b \in job[w].batch :
          \/ /\ Row(b[2])
             /\ pc' = [pc EXCEPT ![w] = "resolve"]
             /\ job' = [job EXCEPT ![w] =
                          [NoJob EXCEPT !.op = "repair", !.img = b[1], !.file = b[2],
                                        !.surf = Other(files[b[2]].surf),
                                        !.hash = files[b[2]].hash,
                                        !.batch = job[w].batch \ {b}]]
          \/ Leave(w, "repair", job[w].batch \ {b}, {})
    BY <1>1 DEF RepairNext
  <2> DEFINE k == [NoJob EXCEPT !.op = "repair", !.img = b[1], !.file = b[2],
                                !.surf = Other(files[b[2]].surf),
                                !.hash = files[b[2]].hash, !.batch = job[w].batch \ {b}]
  <2>2. CASE /\ Row(b[2])
             /\ pc' = [pc EXCEPT ![w] = "resolve"]
             /\ job' = [job EXCEPT ![w] = k]
    <3>1. k.file = b[2] /\ k.hash = files[b[2]].hash
      BY DEF NoJob
    <3>2. b[2] \in Paths
      BY DEF TypeInv, TypeOK, Jobs
    <3>3. Named(b[2], files[b[2]].hash)
      BY <2>2, <3>2 DEF TypeInv, FilesTyped, Named
    <3> HIDE DEF k
    <3> QED BY <2>2, <3>1, <3>3, HashMove
  <2> QED BY <2>1, <2>2, HashLeave
<1>2. CASE Resolve(w)
  <2>1. Named(j.file, j.hash) /\ UNCHANGED files
    BY <1>2 DEF Resolve, At, HashInv, Carries
  <2>2. ASSUME NEW p, NEW step,
               pc' = [pc EXCEPT ![w] = step], job' = [job EXCEPT ![w].new = p],
               step = "create" \/ (step = "cas" /\ Named(p, j.hash))
        PROVE  HashInv'
    <3> DEFINE k == [job[w] EXCEPT !.new = p]
    <3>1. /\ k.new = p /\ k.file = j.file /\ k.hash = j.hash
          /\ job' = [job EXCEPT ![w] = k]
      BY <2>2 DEF TypeInv, TypeOK, Jobs
    <3>2. step = "cas" => /\ k.new \in Paths
                          /\ files'[k.new].surf \in Surfaces /\ files'[k.new].hash = k.hash
      BY <2>1, <2>2, <3>1 DEF Named
    <3>3. Named(k.file, k.hash)
      BY <2>1, <3>1
    <3> HIDE DEF k
    <3> QED BY <2>2, <3>1, <3>2, <3>3, HashMove
  <2>3. CASE \E p \in FileAt(j.hash, j.surf) :
               /\ job' = [job EXCEPT ![w].new = p]
               /\ pc' = [pc EXCEPT ![w] = "cas"]
    <3>1. j.surf \in Surfaces
      BY <1>2 DEF Resolve, At, TypeInv, JobsShaped, JobShape
    <3> QED BY <2>2, <2>3, <3>1 DEF FileAt, Named
  <2>4. CASE \E p \in Paths : /\ job' = [job EXCEPT ![w].new = p]
                              /\ pc' = [pc EXCEPT ![w] = "create"]
    BY <2>2, <2>4
  <2> QED BY <1>2, <2>3, <2>4, HashLeave DEF Resolve, GoOn
<1>3. CASE CreateForSurface(w)
  <2>1. Named(j.file, j.hash) /\ j.surf \in Surfaces /\ j.new \in Paths
    BY <1>3 DEF CreateForSurface, At, HashInv, Carries, TypeInv, JobsShaped, JobShape
  <2>2. pc' = [pc EXCEPT ![w] = "cas"]
    BY <1>3 DEF CreateForSurface
  <2>3. ASSUME NEW p \in Paths, job' = [job EXCEPT ![w].new = p],
               files'[p].surf \in Surfaces, files'[p].hash = j.hash
        PROVE  HashInv'
    <3> DEFINE k == [job[w] EXCEPT !.new = p]
    <3>1. /\ k.new = p /\ k.file = j.file /\ k.hash = j.hash
          /\ job' = [job EXCEPT ![w] = k]
      BY <2>3 DEF TypeInv, TypeOK, Jobs
    <3>2. \A v \in Workers : v # w => pc'[v] = pc[v] /\ job'[v] = job[v]
      BY <2>2, <3>1 DEF TypeInv, TypeOK
    <3>3. pc'[w] = "cas" /\ job'[w].new = p /\ job'[w].file = j.file /\ job'[w].hash = j.hash
      BY <2>2, <3>1 DEF TypeInv, TypeOK
    <3>4. files'[j.file].surf \in Surfaces /\ files'[j.file].hash = j.hash /\ j.file \in Paths
      BY <2>1 DEF Named, NamesKept
    <3>5. Carries(w)'
      BY <2>3, <3>3, <3>4 DEF Carries, Named
    <3> QED BY <3>2, <3>5, HashStep
  <2>4. CASE (\E p \in FileAt(j.hash, j.surf) : job' = [job EXCEPT ![w].new = p])
             /\ UNCHANGED files
    BY <2>1, <2>3, <2>4 DEF FileAt
  <2>5. CASE /\ files' = [files EXCEPT ![j.new] =
                            [row |-> TRUE, hash |-> j.hash, surf |-> j.surf, ref |-> 0]]
             /\ UNCHANGED job
    <3>1. job' = [job EXCEPT ![w].new = j.new]
      BY <2>5 DEF TypeInv, TypeOK, Jobs
    <3>2. files'[j.new].surf \in Surfaces /\ files'[j.new].hash = j.hash
      BY <2>1, <2>5 DEF TypeInv, TypeOK
    <3> QED BY <2>1, <2>3, <3>1, <3>2
  <2> QED BY <1>3, <2>4, <2>5 DEF CreateForSurface
<1> QED BY <1>1, <1>2, <1>3

LEMMA NextHash == TypeInv /\ SurfInv /\ HashInv /\ [Next]_vars => HashInv'
<1> SUFFICES ASSUME TypeInv, SurfInv, HashInv, [Next]_vars PROVE HashInv'
  OBVIOUS
<1>1. NamesKept
  BY NextNames
<1>2. ASSUME UNCHANGED <<files, pc, job>> PROVE HashInv'
  BY <1>2 DEF HashInv, Carries, Named
<1>3. CASE Environment \/ RunTasks \/ UNCHANGED vars \/ \E p \in Paths : DeleteAbandoned(p)
  <2>1. UNCHANGED <<files, pc, job>>
    BY <1>3 DEF Environment, SoftDelete, Restore, Lapse, Extend, RunTasks, DeleteOriginal,
       DeleteThumb, DeleteAbandoned, vars
  <2> QED BY <1>2, <2>1
<1>4. CASE Crash
  BY <1>4 DEF Crash, HashInv, Carries
<1> QED BY <1>1, <1>3, <1>4, BeginHash, ContinueHash, SwitchHash DEF Next, Continue, Fault

\* Whatever a worker carries names the bytes it was read for.
THEOREM HashesCorrect == Spec => []HashInv
<1>1. Init => HashInv
  BY DEF Init, HashInv, Carries
<1>2. Spec => []SurfInv
  BY CountsCorrect, PTL
<1> QED BY <1>1, <1>2, TypeCorrect, NextHash, PTL DEF Spec

-----------------------------------------------------------------------------
(* Each step of the store is a step of the library, or none.               *)

Sound == TypeInv /\ PathsInv /\ SurfInv /\ CountsInv

\* An image that is held can be read, and its bytes are those of its row.
Readable ==
  \A i \in Images : Held(i) =>
    /\ images[i].file \in Paths
    /\ files[images[i].file].surf \in Surfaces
    /\ BytesOf(i) = files[images[i].file].hash

\* So it is as long as there is no drift.
LEMMA AllReadable == Sound /\ ~ drift => Readable
BY DEF Readable, Sound, PathsInv, CountsInv, Counts, TypeInv, ImagesPlaced, FilesTyped, BytesOf

\* Drift is history.
LEMMA NextDrift == [Next]_vars /\ drift => drift'
<1> SUFFICES ASSUME [Next]_vars, drift PROVE drift'
  OBVIOUS
<1>1. ASSUME NEW w \in Workers, Begin(w) PROVE drift'
  BY ZenonT(60), <1>1 DEF Begin, SaveLookup, PurgeFind, DeleteAccount, Purge, UpdateRead, RepairFind
<1>2. ASSUME NEW w \in Workers, Continue(w) PROVE drift'
  BY ZenonT(60), <1>2 DEF Continue, SaveInstant, SavePut, SaveCommit, SaveReject, SaveThumb,
     PurgeTx, Purge, EnqueuePhysical, UpdatePlain, RepairNext, Resolve, CreateForSurface, Rehome
<1>3. CASE Environment \/ RunTasks \/ Fault \/ UNCHANGED vars
  BY <1>3 DEF Environment, SoftDelete, Restore, Lapse, Extend, RunTasks, DeleteOriginal,
     DeleteThumb, Fault, EnqueueLost, DeleteAbandoned, Crash, vars
<1> QED BY <1>1, <1>2, <1>3 DEF Next

\* The two ends of a step that no drift has disturbed.
Calm == Sound /\ ~ drift /\ Sound' /\ ~ drift' /\ NamesKept /\ HashInv

\* An image that is held before and after has the same bytes, if the two rows it
\* points to have the same hash; one that is not held has none.
LEMMA BytesStay ==
  ASSUME Calm, NEW i \in Images, Held(i)' <=> Held(i),
         Held(i) => \/ images'[i].file = images[i].file
                    \/ Named(images'[i].file, files[images[i].file].hash)
  PROVE  BytesOf(i)' = BytesOf(i)
<1>1. CASE ~ Held(i)
  BY <1>1 DEF BytesOf
<1>2. CASE Held(i)
  <2>1. /\ images[i].file \in Paths /\ files[images[i].file].surf \in Surfaces
        /\ BytesOf(i) = files[images[i].file].hash
    BY <1>2, AllReadable DEF Calm, Readable
  <2>2. Sound' /\ ~ drift' => Readable'
    BY AllReadable, PTL
  <2>3. BytesOf(i)' = files'[images'[i].file].hash
    BY <1>2, <2>2 DEF Calm, Readable
  <2>4. images'[i].file \in Paths /\ files[images'[i].file].surf \in Surfaces
        /\ files[images'[i].file].hash = files[images[i].file].hash
    BY <1>2, <2>1 DEF Named
  <2>5. files'[images'[i].file].hash = files[images'[i].file].hash
    BY <2>4 DEF Calm, NamesKept
  <2> QED BY <2>1, <2>3, <2>4, <2>5
<1> QED BY <1>1, <1>2

\* The shelf does not show which row an image points to.
LEMMA ShelfStays ==
  ASSUME Calm, \A i \in Images : images'[i].st = images[i].st,
         \A i \in Images : Held(i) => \/ images'[i].file = images[i].file
                                      \/ Named(images'[i].file, files[images[i].file].hash)
  PROVE  Shelf' = Shelf
<1>1. \A i \in Images : Held(i)' <=> Held(i)
  BY DEF Held
<1> QED BY <1>1, BytesStay DEF Shelf

\* What a worker that is uploading has asked for, and one that is not.
LEMMA AskedIs ==
  ASSUME TypeInv, NEW w \in Workers
  PROVE  /\ pc[w] \in {"instant", "put", "commit"} => Asked[w] = job[w].hash /\ Asked[w] \in Hashes
         /\ pc[w] \notin {"instant", "put", "commit"} => Asked[w] = None
BY DEF Asked, TypeInv, JobsShaped, JobShape

LEMMA AskedStep ==
  ASSUME NEW w \in Workers,
         \A v \in Workers : v # w => pc'[v] = pc[v] /\ job'[v] = job[v]
  PROVE  Asked' = [Asked EXCEPT ![w] =
                     IF pc'[w] \in {"instant", "put", "commit"} THEN job'[w].hash ELSE None]
BY DEF Asked

LEMMA AskedLeave ==
  ASSUME TypeInv, NEW w \in Workers, NEW op, NEW batch, NEW del, Leave(w, op, batch, del)
  PROVE  Asked' = [Asked EXCEPT ![w] = None]
<1>1. /\ \A v \in Workers : v # w => pc'[v] = pc[v] /\ job'[v] = job[v]
      /\ pc'[w] \in {"enqueue", "idle", "repair", "purge"}
  BY DEF Leave, TypeInv, TypeOK
<1> QED BY <1>1, AskedStep

\* A worker that is not uploading and does not begin to.
LEMMA AskedMove ==
  ASSUME TypeInv, NEW w \in Workers, NEW step, NEW j,
         pc' = [pc EXCEPT ![w] = step], job' = [job EXCEPT ![w] = j]
  PROVE  Asked' = [Asked EXCEPT ![w] =
                     IF step \in {"instant", "put", "commit"} THEN j.hash ELSE None]
<1>1. /\ \A v \in Workers : v # w => pc'[v] = pc[v] /\ job'[v] = job[v]
      /\ pc'[w] = step /\ job'[w] = j
  BY DEF TypeInv, TypeOK
<1> QED BY <1>1, AskedStep

\* An upload that ends without an image.
LEMMA GivesUp ==
  ASSUME NEW w \in Workers, Asked' = [Asked EXCEPT ![w] = None], Shelf' = Shelf
  PROVE  Lib!Next
<1>1. Asked' = [c \in Workers |-> IF c \in {w} THEN None ELSE Asked[c]]
  BY DEF Asked
<1>2. Lib!GiveUp({w})
  BY <1>1 DEF Lib!GiveUp
<1> QED BY <1>2 DEF Lib!Next

LEMMA Stutters ==
  ASSUME TypeInv, NEW w \in Workers, Asked' = [Asked EXCEPT ![w] = None], Shelf' = Shelf,
         pc[w] \notin {"instant", "put", "commit"}
  PROVE  UNCHANGED <<Shelf, Asked>>
<1>1. Asked[w] = None
  BY AskedIs
<1>2. [Asked EXCEPT ![w] = None] = Asked
  BY <1>1 DEF Asked
<1> QED BY <1>2

LEMMA LookupAsks ==
  ASSUME Calm, NEW w \in Workers, NEW u, NEW h \in Hashes, NEW s, NEW x,
         SaveLookup(w, u, h, s, x)
  PROVE  Lib!Next
<1>1. PICK step \in {"put", "instant"} : \E j :
        /\ pc' = [pc EXCEPT ![w] = step] /\ job' = [job EXCEPT ![w] = j]
        /\ j.hash = h
  <2>1. CASE FileAt(h, s) = {}
    <3> DEFINE k == [NoJob EXCEPT !.op = "save", !.user = u, !.hash = h, !.surf = s, !.exp = x]
    <3>1. k.hash = h
      BY DEF NoJob
    <3>2. pc' = [pc EXCEPT ![w] = "put"] /\ job' = [job EXCEPT ![w] = k]
      BY <2>1 DEF SaveLookup
    <3> HIDE DEF k
    <3> QED BY <3>1, <3>2
  <2>2. CASE FileAt(h, s) # {}
    <3>1. PICK p \in FileAt(h, s) :
            /\ pc' = [pc EXCEPT ![w] = "instant"]
            /\ job' = [job EXCEPT ![w] = [NoJob EXCEPT !.op = "save", !.user = u, !.hash = h,
                                                       !.surf = s, !.exp = x, !.file = p]]
      BY <2>2 DEF SaveLookup
    <3> DEFINE k == [NoJob EXCEPT !.op = "save", !.user = u, !.hash = h, !.surf = s,
                                  !.exp = x, !.file = p]
    <3>2. k.hash = h
      BY DEF NoJob
    <3>3. pc' = [pc EXCEPT ![w] = "instant"] /\ job' = [job EXCEPT ![w] = k]
      BY <3>1
    <3> HIDE DEF k
    <3> QED BY <3>2, <3>3
  <2> QED BY <2>1, <2>2
<1>2. PICK j :
        /\ pc' = [pc EXCEPT ![w] = step] /\ job' = [job EXCEPT ![w] = j]
        /\ j.hash = h
  BY <1>1
<1>3. Asked[w] = None
  BY AskedIs DEF Calm, Sound, SaveLookup, At
<1>4. Asked' = [Asked EXCEPT ![w] = h]
  BY <1>2, AskedMove DEF Calm, Sound
<1>5. Shelf' = Shelf
  BY ShelfStays DEF SaveLookup
<1>6. Lib!Ask(w, h)
  BY <1>3, <1>4, <1>5 DEF Lib!Ask
<1> QED BY <1>6 DEF Lib!Next

\* A new image whose row has the bytes its upload asked for.
LEMMA Uploads ==
  ASSUME Calm, NEW w \in Workers, NEW i \in Fresh, NEW u, NEW q \in Paths, NEW s, NEW x,
         images' = [images EXCEPT ![i] = NewImage(u, q, s, x)],
         Asked[w] \in Hashes, files'[q].hash = Asked[w],
         Asked' = [Asked EXCEPT ![w] = None]
  PROVE  Lib!Next
<1>1. i \in Images /\ images[i].st = "unborn"
  BY DEF Fresh
<1>2. images'[i] = NewImage(u, q, s, x) /\ \A k \in Images : k # i => images'[k] = images[k]
  BY <1>1 DEF Calm, Sound, TypeInv, TypeOK
<1>3. images'[i].st = "live" /\ images'[i].file = q
  BY <1>2 DEF NewImage
<1>4. BytesOf(i)' = Asked[w]
  <2>1. Sound' /\ ~ drift' => Readable'
    BY AllReadable, PTL
  <2> QED BY <1>1, <1>3, <2>1 DEF Calm, Readable, Held
<1>5. \A k \in Images : k # i => images'[k].st = images[k].st /\ BytesOf(k)' = BytesOf(k)
  BY <1>2, BytesStay DEF Held
<1>6. Shelf' = [Shelf EXCEPT ![i] = [st |-> "live", bytes |-> Asked[w]]]
  BY <1>1, <1>3, <1>4, <1>5 DEF Shelf
<1>7. Shelf[i].st = "unborn"
  BY <1>1 DEF Shelf
<1>8. Asked[w] # None
  BY ImageStoreAssumption DEF ImageStoreAssumption
<1>9. Lib!Upload(w, i)
  BY <1>6, <1>7, <1>8 DEF Lib!Upload
<1> QED BY <1>1, <1>9 DEF Lib!Next

LEMMA InstantUploads ==
  ASSUME Calm, NEW w \in Workers, SaveInstant(w)
  PROVE  Lib!Next
<1> DEFINE j == job[w]
<1>1. TypeInv /\ Leave(w, j.op, j.batch, {}) /\ pc[w] = "instant"
  BY DEF Calm, Sound, SaveInstant, GoOn, At
<1>2. Asked' = [Asked EXCEPT ![w] = None] /\ Asked[w] = j.hash /\ j.hash \in Hashes
  BY <1>1, AskedLeave, AskedIs
<1>3. CASE UNCHANGED <<images, files>>
  <2>1. Shelf' = Shelf
    BY <1>3, ShelfStays
  <2> QED BY <1>2, <2>1, GivesUp
<1>4. CASE ~ UNCHANGED <<images, files>>
  <2>1. PICK i \in Fresh : images' = [images EXCEPT ![i] = NewImage(j.user, j.file, j.surf, j.exp)]
    BY <1>4 DEF SaveInstant
  <2>2. Named(j.file, j.hash)
    BY <1>1 DEF Calm, HashInv, Carries
  <2>3. j.file \in Paths /\ files'[j.file].hash = j.hash
    BY <2>2 DEF Named, Calm, NamesKept
  <2> QED BY <1>2, <2>1, <2>3, Uploads
<1> QED BY <1>3, <1>4

LEMMA CommitUploads ==
  ASSUME Calm, NEW w \in Workers, SaveCommit(w)
  PROVE  Lib!Next
<1> DEFINE j == job[w]
<1>1. TypeInv /\ pc[w] = "commit" /\ j.new \in Paths
  BY DEF Calm, Sound, SaveCommit, At, TypeInv, JobsShaped, JobShape
<1>2. \E step \in {"thumb", "reject"} : pc' = [pc EXCEPT ![w] = step]
  BY DEF SaveCommit
<1>3. job' = [job EXCEPT ![w] = j]
  BY <1>1 DEF SaveCommit, TypeInv, TypeOK
<1>4. Asked' = [Asked EXCEPT ![w] = None] /\ Asked[w] = j.hash /\ j.hash \in Hashes
  BY <1>1, <1>2, <1>3, AskedMove, AskedIs
<1>5. CASE UNCHANGED <<images, files>>
  <2>1. Shelf' = Shelf
    BY <1>5, ShelfStays
  <2> QED BY <1>4, <2>1, GivesUp
<1>6. CASE ~ UNCHANGED <<images, files>>
  <2>1. PICK i \in Fresh : images' = [images EXCEPT ![i] = NewImage(j.user, j.new, j.surf, j.exp)]
    BY <1>6 DEF SaveCommit
  <2>2. files' = [files EXCEPT ![j.new] =
                    [row |-> TRUE, hash |-> j.hash, surf |-> j.surf, ref |-> 1]]
    BY <1>6 DEF SaveCommit
  <2>3. files'[j.new].hash = j.hash
    BY <1>1, <2>2 DEF TypeInv, TypeOK
  <2> QED BY <1>1, <1>4, <2>1, <2>3, Uploads
<1> QED BY <1>5, <1>6

\* One transaction takes images off the shelf, and leaves the others.
LEMMA Purges ==
  ASSUME Calm, NEW batch, Purge(batch), Asked' = Asked,
         \A b \in batch : b[1] \in Images /\ Held(b[1])
  PROVE  Lib!Next
<1> DEFINE G == Gone(batch)
<1>1. G \in SUBSET Images /\ \A i \in G : Held(i)
  BY DEF Gone
<1>2. \A i \in Images : images'[i] = IF i \in G THEN Purged(i) ELSE images[i]
  BY DEF Purge
<1> HIDE DEF G
<1>3. ASSUME NEW i \in Images, i \in G
      PROVE  images'[i].st = "purged" /\ BytesOf(i)' = None
  BY <1>2, <1>3 DEF Purged, Unborn, BytesOf, Held
<1>4. ASSUME NEW i \in Images, i \notin G
      PROVE  images'[i].st = images[i].st /\ BytesOf(i)' = BytesOf(i)
  BY <1>2, <1>4, BytesStay DEF Held
<1>5. Shelf' = [i \in Images |-> IF i \in G THEN [st |-> "purged", bytes |-> None] ELSE Shelf[i]]
  BY <1>3, <1>4 DEF Shelf
<1>6. \A i \in G : Shelf[i].st \in {"live", "trash"}
  BY <1>1 DEF Shelf, Held
<1>7. Lib!Purge(G)
  BY <1>5, <1>6 DEF Lib!Purge
<1> QED BY <1>1, <1>7 DEF Lib!Next

LEMMA PurgeTxLibrary ==
  ASSUME Calm, NEW w \in Workers, PurgeTx(w)
  PROVE  [Lib!Next]_<<Shelf, Asked>>
<1>1. TypeInv /\ pc[w] = "purge"
  BY DEF Calm, Sound, PurgeTx, At
<1>2. \E op, batch, del : Leave(w, op, batch, del)
  BY DEF PurgeTx
<1>3. Asked' = [Asked EXCEPT ![w] = None] /\ Asked[w] = None
  BY <1>1, <1>2, AskedLeave, AskedIs
<1>4. Asked' = Asked
  BY <1>3 DEF Asked
<1>5. PICK T \in SUBSET job[w].batch :
        Purge(Passing(job[w].op, T)) \/ UNCHANGED <<images, files>>
  BY DEF PurgeTx
<1>6. CASE UNCHANGED <<images, files>>
  BY <1>4, <1>6, ShelfStays
<1> QED BY <1>1, <1>4, <1>5, <1>6, PassingHeld, Purges

LEMMA AccountLibrary ==
  ASSUME Calm, NEW w \in Workers, NEW u \in Users, DeleteAccount(w, u)
  PROVE  Lib!Next
<1> DEFINE B == {<<i, images[i].file>> : i \in Owned(u)}
<1>1. TypeInv /\ pc[w] = "idle" /\ Purge(B) /\ \E del : Leave(w, "account", {}, del)
  BY DEF Calm, Sound, DeleteAccount, At
<1>2. Asked' = [Asked EXCEPT ![w] = None] /\ Asked[w] = None
  BY <1>1, AskedLeave, AskedIs
<1>3. Asked' = Asked
  BY <1>2 DEF Asked
<1>4. \A b \in B : b[1] \in Images /\ Held(b[1])
  BY AccountHeld
<1> HIDE DEF B
<1> QED BY <1>1, <1>3, <1>4, Purges

\* Trash and restore; the clock and a new expiry show nobody anything.
LEMMA EnvironmentLibrary ==
  ASSUME Calm, Environment
  PROVE  [Lib!Next]_<<Shelf, Asked>>
<1>1. UNCHANGED <<files, pc, job>>
  BY DEF Environment, SoftDelete, Restore, Lapse, Extend
<1>2. Asked' = Asked
  BY <1>1 DEF Asked
<1>3. ASSUME NEW i \in Images, NEW st, Held(i), st \in {"live", "trash"},
             images' = [images EXCEPT ![i] = [@ EXCEPT !.st = st, !.aged = FALSE]]
      PROVE  Shelf' = [Shelf EXCEPT ![i].st = st]
  <2>1. images'[i].st = st /\ images'[i].file = images[i].file
    BY <1>3 DEF Calm, Sound, TypeInv, TypeOK, ImageRecords
  <2>2. \A k \in Images : k # i => images'[k] = images[k]
    BY <1>3 DEF Calm, Sound, TypeInv, TypeOK
  <2>3. \A k \in Images : BytesOf(k)' = BytesOf(k)
    BY <1>3, <2>1, <2>2, BytesStay DEF Held
  <2> QED BY <2>1, <2>2, <2>3 DEF Shelf
<1>4. ASSUME NEW i \in Images, SoftDelete(i) PROVE Lib!Next
  <2>1. Shelf' = [Shelf EXCEPT ![i].st = "trash"]
    BY <1>3, <1>4 DEF SoftDelete, Held
  <2>2. Shelf[i].st = "live"
    BY <1>4 DEF SoftDelete, Shelf
  <2>3. Lib!Trash(i)
    BY <1>2, <2>1, <2>2 DEF Lib!Trash
  <2> QED BY <2>3 DEF Lib!Next
<1>5. ASSUME NEW i \in Images, Restore(i) PROVE Lib!Next
  <2>1. Shelf' = [Shelf EXCEPT ![i].st = "live"]
    BY <1>3, <1>5 DEF Restore, Held
  <2>2. Shelf[i].st = "trash"
    BY <1>5 DEF Restore, Shelf
  <2>3. Lib!Restore(i)
    BY <1>2, <2>1, <2>2 DEF Lib!Restore
  <2> QED BY <2>3 DEF Lib!Next
<1>6. ASSUME NEW i \in Images, NEW x, Lapse(i) \/ Extend(i, x)
      PROVE  UNCHANGED <<Shelf, Asked>>
  <2>1. \A k \in Images : images'[k].st = images[k].st /\ images'[k].file = images[k].file
    <3>1. CASE images' = [images EXCEPT ![i].aged = TRUE]
      BY <3>1 DEF Calm, Sound, TypeInv, TypeOK, ImageRecords
    <3>2. ASSUME NEW y, images' = [images EXCEPT ![i].exp = y]
          PROVE  \A k \in Images : images'[k].st = images[k].st /\ images'[k].file = images[k].file
      BY <3>2 DEF Calm, Sound, TypeInv, TypeOK, ImageRecords
    <3> QED BY <1>6, <3>1, <3>2 DEF Lapse, Extend
  <2> QED BY <1>2, <2>1, ShelfStays
<1> QED BY <1>4, <1>5, <1>6 DEF Environment

\* The image moves to a row that has the same bytes, and no other image moves.
LEMMA RehomeLibrary ==
  ASSUME Calm, NEW w \in Workers, Rehome(w)
  PROVE  UNCHANGED <<Shelf, Asked>>
<1> DEFINE j == job[w]
<1>1. TypeInv /\ pc[w] = "cas" /\ \E batch, del : Leave(w, j.op, batch, del)
  BY DEF Calm, Sound, Rehome, At, GoOn
<1>2. Asked' = [Asked EXCEPT ![w] = None]
  BY <1>1, AskedLeave
<1>3. CASE UNCHANGED images
  <2>1. Shelf' = Shelf
    BY <1>3, ShelfStays
  <2> QED BY <1>1, <1>2, <2>1, Stutters
<1>4. CASE ~ UNCHANGED images
  <2>1. images[j.img].file = j.file
    BY <1>4 DEF Rehome, Rehomeable, StillHome
  <2>2. PICK vis : images' = [images EXCEPT ![j.img] = [@ EXCEPT !.file = j.new, !.vis = vis]]
    BY <1>4 DEF Rehome
  <2>3. Named(j.file, j.hash) /\ Named(j.new, j.hash) /\ j.img \in Images
    BY <1>1 DEF Calm, HashInv, Carries, TypeInv, JobsShaped, JobShape
  <2>4. Named(j.new, files[j.file].hash)
    BY <2>3 DEF Named
  <2>5. images'[j.img].st = images[j.img].st /\ images'[j.img].file = j.new
    BY <1>1, <2>2, <2>3 DEF TypeInv, TypeOK, ImageRecords
  <2>6. \A i \in Images : i # j.img => images'[i] = images[i]
    BY <1>1, <2>2 DEF TypeInv, TypeOK
  <2> HIDE DEF j
  <2>7. Shelf' = Shelf
    BY <2>1, <2>4, <2>5, <2>6, ShelfStays
  <2> QED BY <1>1, <1>2, <2>7, Stutters
<1> QED BY <1>3, <1>4

\* The steps that no user sees.
LEMMA HiddenLibrary ==
  ASSUME Calm, NEW w \in Workers,
         \/ SaveReject(w) \/ SaveThumb(w) \/ EnqueuePhysical(w) \/ EnqueueLost(w)
         \/ UpdatePlain(w) \/ RepairNext(w) \/ Resolve(w) \/ CreateForSurface(w)
         \/ PurgeFind(w) \/ RepairFind(w)
         \/ \E i \in Images, s \in Surfaces : UpdateRead(w, i, s)
  PROVE  UNCHANGED <<Shelf, Asked>>
<1>1. TypeInv
  BY DEF Calm, Sound
<1>2. \A i \in Images : images'[i].st = images[i].st /\ images'[i].file = images[i].file
  <2>1. CASE UNCHANGED images
    BY <2>1
  <2>2. CASE UpdatePlain(w)
    BY <1>1, <2>2 DEF UpdatePlain, TypeInv, TypeOK, ImageRecords
  <2> QED BY <2>1, <2>2 DEF SaveReject, SaveThumb, EnqueuePhysical, EnqueueLost, RepairNext,
        Resolve, CreateForSurface, PurgeFind, RepairFind, UpdateRead
<1>3. Shelf' = Shelf
  BY <1>2, ShelfStays
<1>4. pc[w] \notin {"instant", "put", "commit"}
  BY DEF SaveReject, SaveThumb, EnqueuePhysical, EnqueueLost, UpdatePlain, RepairNext, Resolve,
     CreateForSurface, PurgeFind, RepairFind, UpdateRead, At
<1>5. \/ \E op, batch, del : Leave(w, op, batch, del)
      \/ \E step \in Steps \ {"instant", "put", "commit"} : \E k :
           pc' = [pc EXCEPT ![w] = step] /\ job' = [job EXCEPT ![w] = k]
  <2>1. CASE SaveReject(w) \/ SaveThumb(w) \/ EnqueuePhysical(w) \/ EnqueueLost(w)
               \/ UpdatePlain(w) \/ RepairFind(w)
    BY <2>1 DEF SaveReject, SaveThumb, EnqueuePhysical, EnqueueLost, UpdatePlain, RepairFind, GoOn
  <2>2. CASE PurgeFind(w)
    <3>1. \E op, S : Snapshot(w, op, S)
      BY <2>2 DEF PurgeFind
    <3> QED BY <3>1 DEF Snapshot, Steps
  <2>3. CASE RepairNext(w)
    BY <2>3 DEF RepairNext, Steps
  <2>4. ASSUME NEW i \in Images, NEW s \in Surfaces, UpdateRead(w, i, s)
        PROVE  \E step \in Steps \ {"instant", "put", "commit"} : \E k :
                 pc' = [pc EXCEPT ![w] = step] /\ job' = [job EXCEPT ![w] = k]
    <3> DEFINE to == IF files[images[i].file].surf = s THEN "plain" ELSE "resolve"
    <3>1. pc' = [pc EXCEPT ![w] = to] /\ \E k : job' = [job EXCEPT ![w] = k]
      BY <2>4 DEF UpdateRead
    <3>2. to \in Steps \ {"instant", "put", "commit"}
      BY DEF Steps
    <3> HIDE DEF to
    <3> QED BY <3>1, <3>2
  <2>5. CASE Resolve(w)
    BY <2>5 DEF Resolve, GoOn, Steps
  <2>6. CASE CreateForSurface(w)
    <3>1. \E k : job' = [job EXCEPT ![w] = k]
      <4>1. job = [job EXCEPT ![w] = job[w]]
        BY <1>1 DEF TypeInv, TypeOK
      <4> QED BY <2>6, <4>1 DEF CreateForSurface
    <3> QED BY <2>6, <3>1 DEF CreateForSurface, Steps
  <2> QED BY <2>1, <2>2, <2>3, <2>4, <2>5, <2>6
<1>6. Asked' = [Asked EXCEPT ![w] = None]
  BY <1>1, <1>5, AskedLeave, AskedMove
<1> QED BY <1>1, <1>3, <1>4, <1>6, Stutters

LEMMA PutLibrary ==
  ASSUME Calm, NEW w \in Workers, SavePut(w)
  PROVE  [Lib!Next]_<<Shelf, Asked>>
<1>1. TypeInv /\ pc[w] = "put" /\ UNCHANGED <<images, files>>
  BY DEF Calm, Sound, SavePut, At
<1>2. Shelf' = Shelf
  BY <1>1, ShelfStays
<1>3. CASE GoOn(w)
  <2>1. Asked' = [Asked EXCEPT ![w] = None]
    BY <1>1, <1>3, AskedLeave DEF GoOn
  <2> QED BY <1>2, <2>1, GivesUp
<1>4. CASE ~ GoOn(w)
  <2>1. PICK p \in Paths : pc' = [pc EXCEPT ![w] = "commit"] /\ job' = [job EXCEPT ![w].new = p]
    BY <1>4 DEF SavePut
  <2> DEFINE k == [job[w] EXCEPT !.new = p]
  <2>2. k.hash = job[w].hash /\ job' = [job EXCEPT ![w] = k]
    BY <1>1, <2>1 DEF TypeInv, TypeOK, Jobs
  <2> HIDE DEF k
  <2>3. Asked' = [Asked EXCEPT ![w] = k.hash]
    BY <1>1, <2>1, <2>2, AskedMove
  <2>4. Asked[w] = k.hash
    BY <1>1, <2>2, AskedIs
  <2>5. Asked' = Asked
    BY <2>3, <2>4 DEF Asked
  <2> QED BY <1>2, <2>5
<1> QED BY <1>3, <1>4

LEMMA NextLibrary ==
  ASSUME Sound, Sound', HashInv, [Next]_vars, ~ drift'
  PROVE  [Lib!Next]_<<Shelf, Asked>>
<1>1. Calm
  <2>1. TypeInv /\ SurfInv
    BY DEF Sound
  <2> QED BY <2>1, NextDrift, NextNames DEF Calm
<1>2. ASSUME NEW w \in Workers, Begin(w) PROVE [Lib!Next]_<<Shelf, Asked>>
  <2>1. ASSUME NEW u, NEW h \in Hashes, NEW s, NEW x, SaveLookup(w, u, h, s, x) PROVE Lib!Next
    BY <1>1, <2>1, LookupAsks
  <2> QED BY <1>1, <1>2, <2>1, AccountLibrary, HiddenLibrary DEF Begin
<1>3. ASSUME NEW w \in Workers, Continue(w) PROVE [Lib!Next]_<<Shelf, Asked>>
  <2>1. CASE SaveInstant(w) \/ SaveCommit(w)
    BY <1>1, <2>1, InstantUploads, CommitUploads
  <2>2. CASE SavePut(w) \/ PurgeTx(w) \/ Rehome(w)
    BY <1>1, <2>2, PutLibrary, PurgeTxLibrary, RehomeLibrary
  <2>3. CASE \/ SaveReject(w) \/ SaveThumb(w) \/ EnqueuePhysical(w)
             \/ UpdatePlain(w) \/ RepairNext(w) \/ Resolve(w) \/ CreateForSurface(w)
    BY <1>1, <2>3, HiddenLibrary
  <2> QED BY <1>3, <2>1, <2>2, <2>3 DEF Continue
<1>4. CASE Crash
  <2>1. Shelf' = Shelf
    BY <1>1, <1>4, ShelfStays DEF Crash
  <2>2. Asked' = [c \in Workers |-> IF c \in Workers THEN None ELSE Asked[c]]
    BY <1>4 DEF Crash, Asked
  <2>3. Lib!GiveUp(Workers)
    BY <2>1, <2>2 DEF Lib!GiveUp
  <2> QED BY <2>3 DEF Lib!Next
<1>5. CASE RunTasks \/ UNCHANGED vars \/ \E p \in Paths : DeleteAbandoned(p)
  <2>1. UNCHANGED <<images, files, pc, job>>
    BY <1>5 DEF RunTasks, DeleteOriginal, DeleteThumb, DeleteAbandoned, vars
  <2>2. Shelf' = Shelf /\ Asked' = Asked
    BY <1>1, <2>1, ShelfStays DEF Asked
  <2> QED BY <2>2
<1> QED BY <1>1, <1>2, <1>3, <1>4, <1>5, EnvironmentLibrary, HiddenLibrary DEF Next, Fault

\* The store implements the library: whatever its users' requests, the background
\* loops, crashes and lost tasks do, an image has the bytes that its upload hashed
\* until it is purged, as long as no purge has worked from an out-of-date FileID.
THEOREM StoreImplementsLibrary == Spec => ImplementsLibrary
<1>1. Init => Lib!Init
  BY DEF Init, Lib!Init, Shelf, Asked, BytesOf, Held, Unborn
<1>2. Sound /\ Sound' /\ HashInv /\ [Next]_vars => [drift' \/ Lib!Next]_<<Shelf, Asked>>
  BY NextLibrary
<1>3. Spec => []Sound
  BY TypeCorrect, PathsCorrect, CountsCorrect, PTL DEF Sound
<1> QED BY <1>1, <1>2, <1>3, HashesCorrect, PTL DEF Spec, ImplementsLibrary

=============================================================================
