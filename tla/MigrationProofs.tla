--------------------------- MODULE MigrationProofs ---------------------------
(***************************************************************************)
(* Theorems about Migration, for any number of files, policies and jobs,   *)
(* any options and any batch size.                                         *)
(***************************************************************************)
EXTENDS Migration, FiniteSetTheorems, WellFoundedInduction, TLAPS

-----------------------------------------------------------------------------
(* The order of ids.  Of any files one has the smallest id: a family of    *)
(* finite sets has a member that contains no other.                        *)

\* A nonempty family of finite subsets of S.
Family(C, S) == C \in SUBSET SUBSET S /\ C # {} /\ \A A \in C : IsFiniteSet(A)

LEMMA MinimalSubset ==
  ASSUME NEW S, NEW C, Family(C, S)
  PROVE  \E A \in C : \A B \in C : B \subseteq A => B = A
<1>1. C \subseteq FiniteSubsetsOf(S) /\ C # {}
  BY DEF FiniteSubsetsOf, Family
<1>2. \E A \in C : \A B \in C : ~(<<B, A>> \in StrictSubsetOrdering(S))
  BY <1>1, FS_StrictSubsetOrderingWellFounded, WFMin, Zenon
<1> QED BY <1>2 DEF Family, StrictSubsetOrdering

\* The least number of a set of natural numbers.
LEMMA NatMin ==
  ASSUME NEW T \in SUBSET Nat, T # {}
  PROVE  \E x \in T : \A y \in T : x <= y
<1> DEFINE D(m) == {k \in T : k <= m}
<1>1. PICK F : F = {D(m) : m \in T}
  OBVIOUS
<1>2. \A A \in F : IsFiniteSet(A)
  BY <1>1, FS_BoundedSetOfNaturals
<1>3. Family(F, Nat)
  BY <1>1, <1>2 DEF Family
<1>4. \E A \in F : \A B \in F : B \subseteq A => B = A
  BY <1>3, MinimalSubset
<1> HIDE DEF D
<1>5. PICK x \in T : \A y \in T : D(y) \subseteq D(x) => D(y) = D(x)
  BY <1>1, <1>4
<1>6. ASSUME NEW y \in T PROVE x <= y
  <2> SUFFICES ASSUME y < x PROVE FALSE
    BY x \in Nat, y \in Nat
  <2>1. D(y) \subseteq D(x)
    <3>1. \A k \in T : k <= y => k <= x
      BY T \subseteq Nat, x \in Nat, y \in Nat
    <3> QED BY <3>1 DEF D
  <2>2. D(y) = D(x)
    BY <1>5, <2>1
  <2>3. x \in D(x) /\ x \notin D(y)
    BY x \in Nat, y \in Nat DEF D
  <2> QED BY <2>2, <2>3
<1> QED BY <1>6

LEMMA FilesAreNat == Files \in SUBSET Nat /\ IsFiniteSet(Files) /\ MaxFile \in Nat
<1>1. MaxFile \in Nat
  BY MigrationAssumption DEF MigrationAssumption
<1> QED BY <1>1, FS_Interval DEF Files

LEMMA SmallestIs ==
  ASSUME NEW S \in SUBSET Files, S # {}
  PROVE  Smallest(S) \in S /\ \A y \in S : Smallest(S) <= y
<1>1. S \in SUBSET Nat
  BY FilesAreNat
<1>2. \E x \in S : \A y \in S : x <= y
  BY <1>1, NatMin
<1> QED BY <1>2 DEF Smallest

LEMMA FilesCount ==
  ASSUME NEW S \in SUBSET Files
  PROVE  IsFiniteSet(S) /\ Cardinality(S) \in Nat
BY FilesAreNat, FS_Subset, FS_CardinalityType

\* The files of a set up to f.
UpTo(S, f) == {g \in S : g <= f}
Front(S, size) == {f \in S : Cardinality(UpTo(S, f)) <= size}

LEMMA UpToGrows ==
  ASSUME NEW S \in SUBSET Files, NEW f \in S, NEW g \in S, f <= g
  PROVE  /\ Cardinality(UpTo(S, f)) <= Cardinality(UpTo(S, g))
         /\ Cardinality(UpTo(S, f)) \in Nat /\ Cardinality(UpTo(S, g)) \in Nat
<1>1. \A x \in S : x \in Nat
  BY FilesAreNat
<1>2. UpTo(S, f) \in SUBSET UpTo(S, g) /\ UpTo(S, g) \in SUBSET Files /\ UpTo(S, f) \in SUBSET Files
  BY <1>1 DEF UpTo
<1> QED BY <1>2, FilesCount, FS_Subset

\* What is not among the first comes after all of them, and then the batch is
\* full: the smallest file left out follows exactly the files taken.
LEMMA LeftOutFollow ==
  ASSUME NEW S \in SUBSET Files, NEW size \in Nat, NEW f \in S, f \notin Front(S, size)
  PROVE  /\ \A g \in Front(S, size) : g < f
         /\ size <= Cardinality(Front(S, size))
<1> DEFINE L == Front(S, size)
<1>1. \A x \in S : x \in Nat /\ Cardinality(UpTo(S, x)) \in Nat
  BY FilesAreNat, UpToGrows
<1>2. ASSUME NEW g \in L, NEW h \in S \ L PROVE g < h
  <2> SUFFICES ASSUME h <= g PROVE FALSE
    BY <1>1 DEF Front
  <2>1. g \in S /\ Cardinality(UpTo(S, g)) <= size
    BY DEF Front
  <2>2. Cardinality(UpTo(S, h)) <= Cardinality(UpTo(S, g))
    BY <2>1, UpToGrows
  <2>3. Cardinality(UpTo(S, h)) <= size
    BY <1>1, <2>1, <2>2
  <2> QED BY <2>3 DEF Front
<1> DEFINE m == Smallest(S \ L)
<1>3. m \in S \ L /\ \A y \in S \ L : m <= y
  BY SmallestIs DEF Front
<1> HIDE DEF m
<1>4. UpTo(S, m) = L \cup {m}
  <2>1. L \subseteq S
    BY DEF Front
  <2>2. \A x \in S : x <= m => x \in L \/ x = m
    BY <1>1, <1>3
  <2>3. \A x \in L : x <= m
    BY <1>1, <1>2, <1>3, <2>1
  <2> HIDE DEF L
  <2> QED BY <1>1, <1>3, <2>1, <2>2, <2>3 DEF UpTo
<1>5. IsFiniteSet(L) /\ Cardinality(L) \in Nat
  BY FilesCount DEF Front
<1>6. Cardinality(UpTo(S, m)) = Cardinality(L) + 1
  BY SMTT(30), <1>3, <1>4, <1>5, FS_AddElement
<1>7. Cardinality(UpTo(S, m)) > size
  BY <1>1, <1>3 DEF Front
<1> QED BY <1>2, <1>5, <1>6, <1>7

\* A batch is no larger than asked for.
LEMMA FrontBounded ==
  ASSUME NEW S \in SUBSET Files, NEW size \in Nat
  PROVE  Cardinality(Front(S, size)) <= size
<1> DEFINE L == Front(S, size)
<1>1. L \in SUBSET Files /\ L \subseteq S
  BY DEF Front
<1>2. CASE L = {}
  BY <1>2, FS_EmptySet
<1>3. CASE L # {}
  <2> DEFINE D == {MaxFile - x : x \in L}
  <2>1. \A x \in L : x \in Nat /\ MaxFile - x \in Nat
    BY <1>1, FilesAreNat DEF Files
  <2>2. D \in SUBSET Nat /\ D # {}
    BY <1>3, <2>1
  <2>3. PICK d \in D : \A y \in D : d <= y
    BY <2>2, NatMin
  <2>4. PICK m \in L : \A x \in L : x <= m
    BY SMTT(30), <2>1, <2>3, FilesAreNat
  <2>5. L \in SUBSET UpTo(S, m) /\ UpTo(S, m) \in SUBSET Files
    BY <1>1, <2>4 DEF UpTo
  <2>6. /\ Cardinality(L) <= Cardinality(UpTo(S, m)) /\ Cardinality(L) \in Nat
        /\ Cardinality(UpTo(S, m)) \in Nat
    BY <2>5, <1>1, FilesCount, FS_Subset
  <2>7. Cardinality(UpTo(S, m)) <= size
    BY <2>4 DEF Front
  <2> QED BY <2>6, <2>7
<1> QED BY <1>2, <1>3

-----------------------------------------------------------------------------
(* Types.  What a job's row and its goroutine say together, as a property  *)
(* of the two records: every step of a job changes only its own.           *)

\* Within a limit, counting what the batch in hand will still add.
Bounded(l, n, r) ==
  /\ n <= l /\ r.scanned <= l
  /\ r.pc = "loop" => r.scanned < l
  /\ r.pc = "copy" => r.scanned + Cardinality(r.todo) <= l
  /\ r.pc \in {"update", "delete"} => r.scanned + Cardinality(r.todo) <= l + 1

Good(q, r) ==
  /\ q \in JobRecords /\ r \in RunRecords
  /\ q.status # "none" => q.opt \in Options
  /\ q.status \in {"none", "done", "failed"} => r.pc = "none"
  /\ q.status = "none" => r.scanned = 0
  /\ r.pc \in {"update", "delete"} => r.todo # {}
  /\ q.status # "none" /\ q.opt.limit > 0 => Bounded(q.opt.limit, q.scanned, r)

JobsGood ==
  /\ jobs \in [Jobs -> JobRecords] /\ run \in [Jobs -> RunRecords]
  /\ \A j \in Jobs : Good(jobs[j], run[j])

RestTyped ==
  /\ policy \in [Policies -> {"enabled", "disabled", "deleted"}]
  /\ files \in [Files -> Policies \cup {None}]
  /\ next \in 1 .. MaxFile + 1
  /\ objects \subseteq Policies \X Files
  /\ live \subseteq Jobs /\ leaving \subseteq Jobs
  /\ events \in 0 .. MaxEvents
  /\ missed \in [Jobs -> SUBSET Files]
  /\ crossed \subseteq Files

TypeInv == JobsGood /\ RestTyped

LEMMA OptionTypes ==
  ASSUME NEW o \in Options
  PROVE  /\ o.from \in Policies /\ o.to \in Policies /\ o.from # o.to
         /\ o.limit \in Nat /\ o.only \subseteq Files /\ o.from # None /\ o.to # None
BY MigrationAssumption DEF MigrationAssumption, OptionRecords

LEMMA Bounds ==
  /\ MaxEvents \in Nat /\ Batch \in Nat /\ 0 < Batch
  /\ \A n \in 0 .. MaxEvents : n < MaxEvents => n + 1 \in 0 .. MaxEvents
BY MigrationAssumption DEF MigrationAssumption

\* A step of one job.
LEMMA JobStep ==
  ASSUME JobsGood, NEW j \in Jobs, NEW q, NEW r, Good(q, r),
         jobs' = [jobs EXCEPT ![j] = q], run' = [run EXCEPT ![j] = r]
  PROVE  /\ JobsGood' /\ jobs'[j] = q /\ run'[j] = r
         /\ \A k \in Jobs \ {j} : jobs'[k] = jobs[k] /\ run'[k] = run[k]
BY DEF JobsGood, Good

LEMMA JobAt ==
  ASSUME JobsGood, NEW j \in Jobs
  PROVE  /\ Good(jobs[j], run[j]) /\ jobs[j] \in JobRecords /\ run[j] \in RunRecords
         /\ jobs = [jobs EXCEPT ![j] = jobs[j]] /\ run = [run EXCEPT ![j] = run[j]]
BY DEF JobsGood

\* A job that has a goroutine was started.
LEMMA Started ==
  ASSUME JobsGood, NEW j \in Jobs, run[j].pc # "none"
  PROVE  /\ jobs[j].status \in {"pending", "running", "cancelled"}
         /\ Opt(j) \in Options
         /\ run[j] \in RunRecords /\ jobs[j] \in JobRecords
BY JobAt DEF Good, JobRecords, Statuses, Active, Opt

LEMMA NoJobIs == NoJob \in JobRecords /\ NoJob.scanned = 0 /\ NoJob.cursor = 0
BY FilesAreNat DEF NoJob, JobRecords, Statuses

LEMMA NoRunIs ==
  /\ NoRun \in RunRecords /\ NoRun.pc = "none" /\ NoRun.scanned = 0
  /\ NoRun.todo = {} /\ NoRun.cursor = 0
BY FilesAreNat DEF NoRun, RunRecords

\* A goroutine that is not at work fits any row that may have one.
LEMMA RestingGood ==
  ASSUME NEW q \in JobRecords, NEW r \in RunRecords, q.status # "none", q.opt \in Options,
         q.status \in {"done", "failed"} => r.pc = "none",
         r.pc \notin {"loop", "copy", "update", "delete"},
         q.opt.limit > 0 => q.scanned <= q.opt.limit /\ r.scanned <= q.opt.limit
  PROVE  Good(q, r)
BY DEF Good, Bounded

-----------------------------------------------------------------------------
(* Each action preserves the types.                                        *)

LEMMA StartType ==
  ASSUME TypeInv, NEW j \in Jobs, StartMigrateJob(j)
  PROVE  JobsGood'
<1>1. PICK o \in Options : jobs' = [jobs EXCEPT ![j] = [NoJob EXCEPT !.status = "pending", !.opt = o]]
  BY DEF StartMigrateJob
<1> DEFINE q == [NoJob EXCEPT !.status = "pending", !.opt = o]
           r == [run[j] EXCEPT !.pc = "load"]
<1>2. /\ q \in JobRecords /\ q.status = "pending" /\ q.opt = o /\ q.scanned = 0
  BY NoJobIs DEF JobRecords, Statuses, Active
<1>3. run[j] \in RunRecords /\ run[j].scanned = 0
  BY JobAt DEF StartMigrateJob, TypeInv, Good
<1>4. r \in RunRecords /\ r.pc = "load" /\ r.scanned = 0
  BY <1>3 DEF RunRecords
<1>5. jobs' = [jobs EXCEPT ![j] = q] /\ run' = [run EXCEPT ![j] = r]
  BY <1>1 DEF StartMigrateJob, Goto
<1> HIDE DEF q, r
<1>6. Good(q, r)
  BY <1>2, <1>4, OptionTypes, RestingGood
<1> QED BY <1>5, <1>6, JobStep DEF TypeInv

LEMMA CancelType ==
  ASSUME TypeInv, NEW j \in Jobs, CancelMigrateJob(j)
  PROVE  JobsGood'
<1> DEFINE q == [jobs[j] EXCEPT !.status = "cancelled"]
           b == (j \in live)
           r == [run[j] EXCEPT !.cancel = b]
<1>1. Good(jobs[j], run[j]) /\ jobs[j] \in JobRecords /\ run[j] \in RunRecords
        /\ jobs[j].status \in Active
  BY JobAt DEF TypeInv, CancelMigrateJob
<1>2. /\ q \in JobRecords /\ q.status = "cancelled" /\ q.opt = jobs[j].opt
      /\ q.scanned = jobs[j].scanned
  BY <1>1 DEF JobRecords, Statuses
<1> HIDE DEF b
<1>3. /\ r \in RunRecords /\ r.pc = run[j].pc /\ r.scanned = run[j].scanned
      /\ r.todo = run[j].todo
  <2>1. b \in BOOLEAN
    BY DEF b
  <2> QED BY <1>1, <2>1 DEF RunRecords
<1>4. jobs' = [jobs EXCEPT ![j] = q] /\ run' = [run EXCEPT ![j] = r]
  BY DEF CancelMigrateJob, b
<1> HIDE DEF q, r
<1>5. Good(q, r)
  BY <1>1, <1>2, <1>3 DEF Good, Bounded, Active
<1> QED BY <1>4, <1>5, JobStep DEF TypeInv

LEMMA ResumeType ==
  ASSUME TypeInv, NEW j \in Jobs, ResumeMigrateJob(j)
  PROVE  JobsGood'
<1> DEFINE q == [jobs[j] EXCEPT !.status = "pending"]
           r == [run[j] EXCEPT !.pc = "load"]
<1>1. Good(jobs[j], run[j]) /\ jobs[j] \in JobRecords /\ run[j] \in RunRecords
        /\ jobs[j].status = "failed"
  BY JobAt DEF TypeInv, ResumeMigrateJob
<1>2. /\ q \in JobRecords /\ q.status = "pending" /\ q.opt = jobs[j].opt
      /\ q.scanned = jobs[j].scanned
  BY <1>1 DEF JobRecords, Statuses, Active
<1>3. r \in RunRecords /\ r.pc = "load" /\ r.scanned = run[j].scanned
  BY <1>1 DEF RunRecords
<1>4. jobs' = [jobs EXCEPT ![j] = q] /\ run' = [run EXCEPT ![j] = r]
  BY DEF ResumeMigrateJob, Goto
<1> HIDE DEF q, r
<1>5. Good(q, r)
  BY <1>1, <1>2, <1>3, RestingGood DEF Good, Bounded
<1> QED BY <1>4, <1>5, JobStep DEF TypeInv

LEMMA LoadType ==
  ASSUME TypeInv, NEW j \in Jobs, RunLoad(j)
  PROVE  JobsGood'
<1>1. Good(jobs[j], run[j]) /\ jobs[j] \in JobRecords /\ jobs[j].status # "none"
        /\ Opt(j) \in Options /\ jobs' = [jobs EXCEPT ![j] = jobs[j]]
  BY JobAt, Started DEF TypeInv, RunLoad, At
<1>2. CASE jobs[j].status \in Active
  <2> DEFINE r == [NoRun EXCEPT !.pc = "begin", !.cursor = jobs[j].cursor,
                                !.scanned = jobs[j].scanned]
  <2>1. r \in RunRecords /\ r.pc = "begin" /\ r.scanned = jobs[j].scanned
    BY <1>1, NoRunIs DEF RunRecords, JobRecords
  <2>2. run' = [run EXCEPT ![j] = r]
    BY <1>2 DEF RunLoad
  <2> HIDE DEF r
  <2>3. Good(jobs[j], r)
    BY <1>1, <1>2, <2>1, RestingGood DEF Good, Bounded, Active, Opt
  <2> QED BY <1>1, <2>2, <2>3, JobStep DEF TypeInv
<1>3. CASE jobs[j].status \notin Active
  <2>1. run' = [run EXCEPT ![j] = NoRun]
    BY <1>3 DEF RunLoad
  <2>2. Good(jobs[j], NoRun)
    BY <1>1, NoRunIs, OptionTypes, RestingGood DEF Good, Bounded, Opt
  <2> QED BY <1>1, <2>1, <2>2, JobStep DEF TypeInv
<1> QED BY <1>2, <1>3

\* The row as Persist leaves it.
Persisted(q, status, cursor, scanned) ==
  IF q.status \in Active
    THEN [q EXCEPT !.status = status, !.cursor = cursor, !.scanned = scanned]
    ELSE q

LEMMA PersistIs ==
  ASSUME JobsGood, NEW j \in Jobs, NEW status \in Statuses, NEW cursor \in 0 .. MaxFile,
         NEW scanned \in Nat, Persist(j, status, cursor, scanned), jobs[j].status # "none"
  PROVE  LET q == Persisted(jobs[j], status, cursor, scanned)
         IN /\ q \in JobRecords /\ jobs' = [jobs EXCEPT ![j] = q]
            /\ q.opt = jobs[j].opt /\ q.opt \in Options
            /\ IF jobs[j].status \in Active
                 THEN q.status = status /\ q.cursor = cursor /\ q.scanned = scanned
                 ELSE q = jobs[j]
<1> DEFINE q == Persisted(jobs[j], status, cursor, scanned)
<1>1. jobs[j] \in JobRecords /\ jobs[j].opt \in Options /\ jobs = [jobs EXCEPT ![j] = jobs[j]]
  BY JobAt DEF Good
<1>2. CASE jobs[j].status \in Active
  <2>1. /\ q = [jobs[j] EXCEPT !.status = status, !.cursor = cursor, !.scanned = scanned]
        /\ jobs' = [jobs EXCEPT ![j].status = status, ![j].cursor = cursor,
                                ![j].scanned = scanned]
    BY <1>2 DEF Persisted, Persist
  <2>2. /\ q \in JobRecords /\ q.status = status /\ q.cursor = cursor /\ q.scanned = scanned
        /\ q.opt = jobs[j].opt
    BY <1>1, <2>1 DEF JobRecords
  <2>3. jobs' = [jobs EXCEPT ![j] = q]
    BY <1>1, <2>1 DEF JobsGood
  <2> HIDE DEF q
  <2> QED BY <1>1, <1>2, <2>2, <2>3 DEF q
<1>3. CASE jobs[j].status \notin Active
  BY <1>1, <1>3 DEF Persisted, Persist
<1> QED BY <1>2, <1>3

LEMMA BeginType ==
  ASSUME TypeInv, NEW j \in Jobs, RunBegin(j)
  PROVE  JobsGood'
<1> DEFINE q == Persisted(jobs[j], "running", run[j].cursor, run[j].scanned)
           s == IF jobs[j].status \notin Active THEN "cancelled"
                ELSE IF LimitReached(j, run[j].scanned) THEN "done" ELSE "loop"
           r == [run[j] EXCEPT !.pc = s]
<1>1. /\ Good(jobs[j], run[j]) /\ run[j] \in RunRecords /\ Opt(j) \in Options
      /\ jobs[j].status \in {"pending", "running", "cancelled"} /\ run[j].pc = "begin"
      /\ jobs[j] \in JobRecords
  BY JobAt, Started DEF TypeInv, RunBegin, At
<1>2. /\ q \in JobRecords /\ jobs' = [jobs EXCEPT ![j] = q] /\ q.opt = Opt(j)
      /\ IF jobs[j].status \in Active
           THEN q.status = "running" /\ q.scanned = run[j].scanned
           ELSE q = jobs[j]
  BY <1>1, PersistIs DEF RunBegin, TypeInv, Opt, RunRecords, Statuses, Active
<1>3. /\ r \in RunRecords /\ r.pc = s /\ r.scanned = run[j].scanned
  BY <1>1 DEF RunRecords
<1>4. run' = [run EXCEPT ![j] = r]
  BY DEF RunBegin, Goto
<1>5. Opt(j).limit > 0 => jobs[j].scanned <= Opt(j).limit /\ run[j].scanned <= Opt(j).limit
  BY <1>1 DEF Good, Bounded, Opt
<1>6. Good(q, r)
  <2>1. q.status \in {"running", "cancelled"}
    BY <1>1, <1>2 DEF Active
  <2>2. q.opt.limit > 0 => q.scanned <= q.opt.limit /\ r.scanned <= q.opt.limit
    BY <1>2, <1>3, <1>5
  <2>3. CASE s # "loop"
    <3>1. s \in {"cancelled", "done"}
      BY <2>3
    <3> HIDE DEF s, q, r
    <3> QED BY <1>1, <1>2, <1>3, <2>1, <2>2, <3>1, RestingGood
  <2>4. CASE s = "loop"
    <3>1. q.opt.limit > 0 => r.scanned < q.opt.limit
      BY <1>1, <1>2, <1>3, <2>4, OptionTypes DEF LimitReached, RunRecords
    <3> QED BY <1>1, <1>2, <1>3, <2>1, <2>2, <2>4, <3>1 DEF Good, Bounded
  <2> QED BY <2>3, <2>4
<1> HIDE DEF q, r
<1> QED BY <1>2, <1>4, <1>6, JobStep DEF TypeInv

\* The files a job may list: on the source, chosen and behind the cursor.
Ahead(j) == {f \in Files : files[f] = Opt(j).from /\ f \in Opt(j).only /\ After(f, run[j].cursor)}

LEMMA BatchIs ==
  ASSUME JobsGood, NEW j \in Jobs, run[j].pc = "loop"
  PROVE  LET list == Listed(j, BatchSize(j))
         IN /\ list = Front(Ahead(j), BatchSize(j)) /\ BatchSize(j) \in Nat
            /\ list \subseteq Ahead(j) /\ list \in SUBSET Files
            /\ Cardinality(list) \in Nat /\ Cardinality(list) <= BatchSize(j)
            /\ Opt(j).limit > 0 => run[j].scanned + Cardinality(list) <= Opt(j).limit
<1>1. /\ Good(jobs[j], run[j]) /\ run[j] \in RunRecords /\ Opt(j) \in Options
      /\ jobs[j].status # "none"
  BY JobAt, Started
<1>2. Opt(j).limit > 0 => run[j].scanned < Opt(j).limit
  BY <1>1 DEF Good, Bounded, Opt
<1>3. run[j].scanned \in Nat /\ Opt(j).limit \in Nat
  BY <1>1, OptionTypes DEF RunRecords
<1>4. /\ BatchSize(j) \in Nat
      /\ Opt(j).limit > 0 => run[j].scanned + BatchSize(j) <= Opt(j).limit
  BY <1>2, <1>3, Bounds DEF BatchSize
<1> DEFINE list == Listed(j, BatchSize(j))
<1>5. list = Front(Ahead(j), BatchSize(j))
  BY DEF Listed, Front, UpTo, Ahead
<1>6. Ahead(j) \in SUBSET Files
  BY DEF Ahead
<1> HIDE DEF list
<1>7. Cardinality(list) <= BatchSize(j)
  BY <1>4, <1>5, <1>6, FrontBounded
<1>8. list \subseteq Ahead(j) /\ list \in SUBSET Files
  BY <1>5, <1>6 DEF Front
<1>9. Cardinality(list) \in Nat
  BY <1>8, FilesCount
<1> QED BY <1>3, <1>4, <1>5, <1>7, <1>8, <1>9 DEF list

LEMMA LoopType ==
  ASSUME TypeInv, NEW j \in Jobs, RunLoop(j)
  PROVE  JobsGood' /\ missed' \in [Jobs -> SUBSET Files]
<1>1. /\ Good(jobs[j], run[j]) /\ run[j] \in RunRecords /\ Opt(j) \in Options
      /\ jobs[j].status \in {"pending", "running", "cancelled"} /\ run[j].pc = "loop"
      /\ jobs[j] \in JobRecords /\ jobs' = [jobs EXCEPT ![j] = jobs[j]]
  BY JobAt, Started DEF TypeInv, RunLoop, At
<1>2. Opt(j).limit > 0 => jobs[j].scanned <= Opt(j).limit /\ run[j].scanned <= Opt(j).limit
  BY <1>1 DEF Good, Bounded, Opt
<1>3. missed' \in [Jobs -> SUBSET Files]
  BY DEF RunLoop, TypeInv, RestTyped
<1>4. ASSUME NEW s \in {"cancelled", "failed"}, Goto(j, s)
      PROVE  JobsGood'
  <2> DEFINE r == [run[j] EXCEPT !.pc = s]
  <2>1. r \in RunRecords /\ r.pc = s /\ r.scanned = run[j].scanned
    BY <1>1 DEF RunRecords
  <2>2. run' = [run EXCEPT ![j] = r]
    BY <1>4 DEF Goto
  <2> HIDE DEF r
  <2>3. Good(jobs[j], r)
    BY <1>1, <1>2, <2>1, RestingGood DEF Opt
  <2> QED BY <1>1, <2>2, <2>3, JobStep DEF TypeInv
<1> DEFINE list == Listed(j, BatchSize(j))
           b == (Cardinality(list) = BatchSize(j))
           r == [run[j] EXCEPT !.pc = "copy", !.todo = list, !.full = b, !.last = 0]
<1>5. ASSUME run' = [run EXCEPT ![j].pc = "copy", ![j].todo = list, ![j].full = b, ![j].last = 0]
      PROVE  JobsGood'
  <2>1. /\ list \in SUBSET Files
        /\ Opt(j).limit > 0 => run[j].scanned + Cardinality(list) <= Opt(j).limit
    BY <1>1, BatchIs DEF TypeInv
  <2>2. b \in BOOLEAN /\ 0 \in 0 .. MaxFile
    BY FilesAreNat
  <2>3. run' = [run EXCEPT ![j] = r]
    BY <1>5 DEF TypeInv, JobsGood
  <2> HIDE DEF list, b
  <2>4. r \in RunRecords /\ r.pc = "copy" /\ r.scanned = run[j].scanned /\ r.todo = list
    BY <1>1, <2>1, <2>2 DEF RunRecords
  <2> HIDE DEF r
  <2>5. Good(jobs[j], r)
    BY <1>1, <1>2, <2>1, <2>4 DEF Good, Bounded, Opt
  <2> QED BY <1>1, <2>3, <2>5, JobStep DEF TypeInv
<1> QED BY <1>3, <1>4, <1>5, Zenon DEF RunLoop

\* The file in hand is one of the batch; without it the batch has one less.
LEMMA CurrentIs ==
  ASSUME NEW j \in Jobs, run[j] \in RunRecords, run[j].todo # {}
  PROVE  LET rest == run[j].todo \ {Current(j)}
         IN /\ Current(j) \in run[j].todo /\ Current(j) \in Files
            /\ \A g \in run[j].todo : Current(j) <= g
            /\ rest \in SUBSET Files
            /\ Cardinality(rest) = Cardinality(run[j].todo) - 1
            /\ Cardinality(run[j].todo) \in Nat /\ Cardinality(rest) \in Nat
<1>1. run[j].todo \in SUBSET Files
  BY DEF RunRecords
<1>2. Current(j) \in run[j].todo /\ \A g \in run[j].todo : Current(j) <= g
  BY <1>1, SmallestIs DEF Current
<1> DEFINE rest == run[j].todo \ {Current(j)}
<1>3. rest \in SUBSET Files
  BY <1>1
<1>4. IsFiniteSet(run[j].todo) /\ Cardinality(run[j].todo) \in Nat /\ Cardinality(rest) \in Nat
  BY <1>1, <1>3, FilesCount
<1>5. Cardinality(rest) = Cardinality(run[j].todo) - 1
  BY <1>2, <1>4, FS_RemoveElement
<1> QED BY <1>1, <1>2, <1>3, <1>4, <1>5

\* A goroutine that goes on with the next file, having counted this one or
\* having counted it when it was copied.
LEMMA NextGood ==
  ASSUME JobsGood, NEW j \in Jobs, run[j].pc \in {"copy", "update", "delete"},
         run[j].todo # {}, NEW r, r \in RunRecords, r.pc = "copy",
         r.todo = run[j].todo \ {Current(j)},
         r.scanned = IF run[j].pc = "copy" THEN Counted(j) ELSE run[j].scanned
  PROVE  Good(jobs[j], r)
<1>1. /\ Good(jobs[j], run[j]) /\ run[j] \in RunRecords /\ Opt(j) \in Options
      /\ jobs[j].status \in {"pending", "running", "cancelled"} /\ jobs[j] \in JobRecords
  BY JobAt, Started
<1>2. Cardinality(r.todo) = Cardinality(run[j].todo) - 1 /\ Cardinality(r.todo) \in Nat
  BY <1>1, CurrentIs
<1>3. Opt(j).limit \in Nat /\ run[j].scanned \in Nat /\ Cardinality(run[j].todo) \in Nat
  BY <1>1, OptionTypes, CurrentIs DEF RunRecords
<1>4. ASSUME Opt(j).limit > 0 PROVE Bounded(Opt(j).limit, jobs[j].scanned, r)
  <2>1. Bounded(Opt(j).limit, jobs[j].scanned, run[j])
    BY <1>1, <1>4 DEF Good, Opt
  <2>2. r.scanned = run[j].scanned + IF run[j].pc = "copy" THEN 1 ELSE 0
    BY <1>3, <1>4 DEF Counted
  <2>3. r.scanned + Cardinality(r.todo) <= Opt(j).limit
    BY <1>2, <1>3, <2>1, <2>2 DEF Bounded
  <2>4. r.scanned <= Opt(j).limit
    BY <1>2, <1>3, <2>2, <2>3
  <2> QED BY <2>1, <2>3, <2>4 DEF Bounded
<1> QED BY <1>1, <1>4 DEF Good, Opt

\* What RunCopy makes of the goroutine: it stops, skips the file or has copied it.
Stopped(j) == [run[j] EXCEPT !.last = Current(j), !.scanned = Counted(j), !.pc = "batch", !.todo = {}]
Skipped(j) == [run[j] EXCEPT !.pc = "copy", !.todo = @ \ {Current(j)}, !.last = Current(j),
                             !.scanned = Counted(j)]
Copied(j) == [run[j] EXCEPT !.last = Current(j), !.scanned = Counted(j), !.pc = "update"]

LEMMA CopyCases ==
  ASSUME JobsGood, NEW j \in Jobs, RunCopy(j)
  PROVE  \/ run' = [run EXCEPT ![j] = Stopped(j)]
         \/ run' = [run EXCEPT ![j] = Skipped(j)]
         \/ run' = [run EXCEPT ![j] = Copied(j)]
BY DEF RunCopy, NextFile, Stopped, Skipped, Copied

LEMMA CopyRecords ==
  ASSUME JobsGood, NEW j \in Jobs, run[j].pc = "copy", run[j].todo # {}
  PROVE  /\ Stopped(j) \in RunRecords /\ Skipped(j) \in RunRecords /\ Copied(j) \in RunRecords
         /\ Stopped(j).pc = "batch" /\ Stopped(j).scanned = Counted(j)
         /\ Skipped(j).pc = "copy" /\ Skipped(j).scanned = Counted(j)
         /\ Skipped(j).todo = run[j].todo \ {Current(j)}
         /\ Copied(j).pc = "update" /\ Copied(j).scanned = Counted(j)
         /\ Copied(j).todo = run[j].todo
         /\ Stopped(j).last = Current(j) /\ Stopped(j).cursor = run[j].cursor
         /\ Skipped(j).last = Current(j) /\ Skipped(j).cursor = run[j].cursor
         /\ Copied(j).last = Current(j) /\ Copied(j).cursor = run[j].cursor
         /\ Stopped(j).full = run[j].full /\ Skipped(j).full = run[j].full
         /\ Copied(j).full = run[j].full /\ Stopped(j).todo = {}
<1>1. run[j] \in RunRecords /\ Opt(j) \in Options
  BY JobAt, Started
<1>2. Counted(j) \in Nat
  BY <1>1, OptionTypes DEF Counted, RunRecords
<1>3. Current(j) \in 0 .. MaxFile /\ run[j].todo \ {Current(j)} \in SUBSET Files
  <2>1. Current(j) \in Files /\ run[j].todo \ {Current(j)} \in SUBSET Files
    BY <1>1, CurrentIs
  <2>2. \A f \in Files : f \in 0 .. MaxFile
    BY FilesAreNat DEF Files
  <2> QED BY <2>1, <2>2
<1> QED BY <1>1, <1>2, <1>3 DEF RunRecords, Stopped, Skipped, Copied

LEMMA CopyType ==
  ASSUME TypeInv, NEW j \in Jobs, RunCopy(j)
  PROVE  JobsGood'
<1>1. /\ Good(jobs[j], run[j]) /\ run[j] \in RunRecords /\ Opt(j) \in Options
      /\ jobs[j].status \in {"pending", "running", "cancelled"} /\ jobs[j] \in JobRecords
      /\ run[j].pc = "copy" /\ run[j].todo # {} /\ JobsGood
      /\ jobs' = [jobs EXCEPT ![j] = jobs[j]]
  BY JobAt, Started DEF TypeInv, RunCopy, At
<1>2. /\ Cardinality(run[j].todo) \in Nat /\ 1 <= Cardinality(run[j].todo)
      /\ Opt(j).limit \in Nat /\ run[j].scanned \in Nat
  <2>1. /\ Cardinality(run[j].todo) \in Nat /\ Cardinality(run[j].todo \ {Current(j)}) \in Nat
        /\ Cardinality(run[j].todo \ {Current(j)}) = Cardinality(run[j].todo) - 1
    BY <1>1, CurrentIs
  <2>2. Opt(j).limit \in Nat /\ run[j].scanned \in Nat
    BY <1>1, OptionTypes DEF RunRecords
  <2> QED BY <2>1, <2>2
<1>3. ASSUME Opt(j).limit > 0
      PROVE  /\ jobs[j].scanned <= Opt(j).limit /\ Counted(j) <= Opt(j).limit
             /\ Counted(j) + Cardinality(run[j].todo) <= Opt(j).limit + 1
  BY <1>1, <1>2, <1>3 DEF Good, Bounded, Counted, Opt
<1>4. Good(jobs[j], Stopped(j))
  BY <1>1, <1>3, CopyRecords, RestingGood DEF Opt
<1>5. Good(jobs[j], Skipped(j))
  BY <1>1, CopyRecords, NextGood
<1>6. Good(jobs[j], Copied(j))
  BY <1>1, <1>3, CopyRecords DEF Good, Bounded, Opt
<1> QED BY <1>1, <1>4, <1>5, <1>6, CopyCases, JobStep

LEMMA NextFileIs ==
  ASSUME JobsGood, NEW j \in Jobs, run[j].pc \in {"update", "delete"}
  PROVE  /\ NextFile(j) \in RunRecords /\ NextFile(j).pc = "copy"
         /\ NextFile(j).todo = run[j].todo \ {Current(j)}
         /\ NextFile(j).scanned = run[j].scanned /\ NextFile(j).cursor = run[j].cursor
         /\ NextFile(j).last = run[j].last /\ NextFile(j).full = run[j].full
         /\ Good(jobs[j], NextFile(j))
<1>1. run[j] \in RunRecords /\ run[j].todo # {}
  BY JobAt DEF Good
<1>2. run[j].todo \ {Current(j)} \in SUBSET Files
  BY <1>1, CurrentIs
<1>3. /\ NextFile(j) \in RunRecords /\ NextFile(j).pc = "copy"
      /\ NextFile(j).todo = run[j].todo \ {Current(j)}
      /\ NextFile(j).scanned = run[j].scanned /\ NextFile(j).cursor = run[j].cursor
      /\ NextFile(j).last = run[j].last /\ NextFile(j).full = run[j].full
  BY <1>1, <1>2 DEF RunRecords, NextFile
<1> QED BY <1>1, <1>3, NextGood

\* The goroutine that goes on to delete the source.
Deleting(j) == [run[j] EXCEPT !.pc = "delete"]

LEMMA UpdateCases ==
  ASSUME JobsGood, NEW j \in Jobs, RunUpdate(j)
  PROVE  LET moved == Movable(Current(j), Opt(j).from) /\ policy[Opt(j).to] # "deleted"
         IN /\ run[j].pc = "update" /\ Current(j) \in Files /\ run[j].todo # {}
            /\ Current(j) \in run[j].todo
            /\ \/ moved /\ run' = [run EXCEPT ![j] = Deleting(j)]
               \/ run' = [run EXCEPT ![j] = NextFile(j)]
            /\ \/ /\ moved
                  /\ files' = [files EXCEPT ![Current(j)] = Opt(j).to]
                  /\ missed' = [k \in Jobs |-> IF Tracked(k) /\ Opt(k).from = Opt(j).to
                                   THEN missed[k] \cup {Current(j)} ELSE missed[k]]
               \/ ~moved /\ Leave(j) /\ UNCHANGED files
<1>1. run[j].pc = "update" /\ run[j] \in RunRecords /\ run[j].todo # {}
  BY JobAt DEF RunUpdate, At, Good
<1>2. Current(j) \in Files /\ Current(j) \in run[j].todo
  BY <1>1, CurrentIs
<1> DEFINE moved == Movable(Current(j), Opt(j).from) /\ policy[Opt(j).to] # "deleted"
<1>3. \/ moved /\ run' = [run EXCEPT ![j] = Deleting(j)]
      \/ run' = [run EXCEPT ![j] = NextFile(j)]
  BY DEF RunUpdate, DeletesSource, Deleting
<1>4. \/ /\ moved
         /\ files' = [files EXCEPT ![Current(j)] = Opt(j).to]
         /\ missed' = [k \in Jobs |-> IF Tracked(k) /\ Opt(k).from = Opt(j).to
                          THEN missed[k] \cup {Current(j)} ELSE missed[k]]
      \/ ~moved /\ Leave(j) /\ UNCHANGED files
  BY DEF RunUpdate
<1> QED BY <1>1, <1>2, <1>3, <1>4

LEMMA UpdateType ==
  ASSUME TypeInv, NEW j \in Jobs, RunUpdate(j)
  PROVE  /\ JobsGood' /\ files' \in [Files -> Policies \cup {None}]
         /\ missed' \in [Jobs -> SUBSET Files]
<1>1. /\ Good(jobs[j], run[j]) /\ run[j] \in RunRecords /\ Opt(j) \in Options
      /\ run[j].pc = "update" /\ JobsGood /\ jobs' = [jobs EXCEPT ![j] = jobs[j]]
      /\ Current(j) \in Files /\ Opt(j).to \in Policies
  BY JobAt, Started, UpdateCases, OptionTypes DEF TypeInv, RunUpdate, At
<1>2. files' \in [Files -> Policies \cup {None}]
  BY <1>1, UpdateCases DEF TypeInv, RestTyped
<1>3. missed' \in [Jobs -> SUBSET Files]
  <2>1. CASE Leave(j)
    BY <1>1, <2>1 DEF TypeInv, RestTyped, Leave
  <2>2. CASE missed' = [k \in Jobs |-> IF Tracked(k) /\ Opt(k).from = Opt(j).to
                                   THEN missed[k] \cup {Current(j)} ELSE missed[k]]
    BY <1>1, <2>2 DEF TypeInv, RestTyped
  <2> QED BY <1>1, <2>1, <2>2, UpdateCases
<1>4. JobsGood'
  <2>1. Good(jobs[j], Deleting(j))
    <3>1. /\ Deleting(j) \in RunRecords /\ Deleting(j).pc = "delete"
          /\ Deleting(j).todo = run[j].todo /\ Deleting(j).scanned = run[j].scanned
      BY <1>1 DEF RunRecords, Deleting
    <3> QED BY <1>1, <3>1 DEF Good, Bounded
  <2>2. Good(jobs[j], NextFile(j))
    BY <1>1, NextFileIs
  <2> QED BY <1>1, <2>1, <2>2, UpdateCases, JobStep
<1> QED BY <1>2, <1>3, <1>4

LEMMA DeleteType ==
  ASSUME TypeInv, NEW j \in Jobs, RunDelete(j)
  PROVE  JobsGood'
<1>1. /\ JobsGood /\ run[j].pc = "delete" /\ jobs' = [jobs EXCEPT ![j] = jobs[j]]
      /\ run' = [run EXCEPT ![j] = NextFile(j)]
  BY JobAt DEF TypeInv, RunDelete, At
<1> QED BY <1>1, NextFileIs, JobStep

\* The cursor behind a batch: the last file seen, if there was one.
Passed(j) == IF run[j].last > 0 THEN run[j].last ELSE run[j].cursor

\* What RunBatch makes of the goroutine.
Turned(j) ==
  [run[j] EXCEPT !.cursor = Passed(j), !.last = 0,
     !.pc = IF jobs[j].status \notin Active \/ At(j, "batch") THEN "cancelled"
            ELSE IF LimitReached(j, run[j].scanned) \/ ~run[j].full THEN "done"
            ELSE "loop"]

LEMMA BatchCases ==
  ASSUME JobsGood, NEW j \in Jobs, RunBatch(j)
  PROVE  LET q == Persisted(jobs[j], "running", Passed(j), run[j].scanned)
         IN /\ q \in JobRecords /\ jobs' = [jobs EXCEPT ![j] = q]
            /\ q.opt = Opt(j) /\ q.opt \in Options
            /\ IF jobs[j].status \in Active
                 THEN q.status = "running" /\ q.cursor = Passed(j) /\ q.scanned = run[j].scanned
                 ELSE q = jobs[j]
            /\ run' = [run EXCEPT ![j] = Turned(j)]
            /\ jobs[j].status \in {"pending", "running", "cancelled"}
            /\ run[j].pc \in {"batch", "copy"} /\ (run[j].pc = "copy" => run[j].todo = {})
            /\ Turned(j) \in RunRecords /\ Turned(j).cursor = Passed(j) /\ Turned(j).last = 0
            /\ Turned(j).scanned = run[j].scanned
            /\ Turned(j).pc = IF jobs[j].status \notin Active \/ At(j, "batch") THEN "cancelled"
                 ELSE IF LimitReached(j, run[j].scanned) \/ ~run[j].full THEN "done"
                 ELSE "loop"
<1>1. /\ run[j] \in RunRecords /\ Opt(j) \in Options
      /\ jobs[j].status \in {"pending", "running", "cancelled"}
      /\ run[j].pc \in {"batch", "copy"} /\ (run[j].pc = "copy" => run[j].todo = {})
  BY Started DEF RunBatch, At
<1>2. Passed(j) \in 0 .. MaxFile /\ run[j].scanned \in Nat /\ 0 \in 0 .. MaxFile
  BY <1>1, FilesAreNat DEF Passed, RunRecords
<1>3. Persist(j, "running", Passed(j), run[j].scanned) /\ run' = [run EXCEPT ![j] = Turned(j)]
  BY DEF RunBatch, Passed, Turned, JobsGood
<1> DEFINE s == IF jobs[j].status \notin Active \/ At(j, "batch") THEN "cancelled"
                 ELSE IF LimitReached(j, run[j].scanned) \/ ~run[j].full THEN "done"
                 ELSE "loop"
<1>4. s \in {"cancelled", "done", "loop"}
  OBVIOUS
<1>5. Turned(j) = [run[j] EXCEPT !.cursor = Passed(j), !.last = 0, !.pc = s]
  BY DEF Turned
<1> HIDE DEF s
<1>6. /\ Turned(j) \in RunRecords /\ Turned(j).cursor = Passed(j) /\ Turned(j).last = 0
      /\ Turned(j).scanned = run[j].scanned /\ Turned(j).pc = s
  BY <1>1, <1>2, <1>4, <1>5 DEF RunRecords
<1>7. LET q == Persisted(jobs[j], "running", Passed(j), run[j].scanned)
      IN /\ q \in JobRecords /\ jobs' = [jobs EXCEPT ![j] = q]
         /\ q.opt = Opt(j) /\ q.opt \in Options
         /\ IF jobs[j].status \in Active
              THEN q.status = "running" /\ q.cursor = Passed(j) /\ q.scanned = run[j].scanned
              ELSE q = jobs[j]
  <2>1. "running" \in Statuses /\ jobs[j].status # "none"
    BY <1>1 DEF Statuses, Active
  <2> QED BY <1>2, <1>3, <2>1, PersistIs DEF Opt
<1> QED BY <1>1, <1>3, <1>6, <1>7 DEF s

LEMMA BatchType ==
  ASSUME TypeInv, NEW j \in Jobs, RunBatch(j)
  PROVE  JobsGood'
<1> DEFINE q == Persisted(jobs[j], "running", Passed(j), run[j].scanned)
           r == Turned(j)
<1>1. /\ JobsGood /\ Good(jobs[j], run[j]) /\ run[j] \in RunRecords /\ Opt(j) \in Options
  BY JobAt, Started DEF TypeInv, RunBatch, At
<1>2. /\ q \in JobRecords /\ jobs' = [jobs EXCEPT ![j] = q]
      /\ q.opt = Opt(j) /\ q.opt \in Options
      /\ IF jobs[j].status \in Active
           THEN q.status = "running" /\ q.scanned = run[j].scanned
           ELSE q = jobs[j]
      /\ run' = [run EXCEPT ![j] = r]
      /\ jobs[j].status \in {"pending", "running", "cancelled"}
      /\ r \in RunRecords /\ r.scanned = run[j].scanned
      /\ r.pc = IF jobs[j].status \notin Active \/ At(j, "batch") THEN "cancelled"
           ELSE IF LimitReached(j, run[j].scanned) \/ ~run[j].full THEN "done"
           ELSE "loop"
  BY <1>1, BatchCases
<1> HIDE DEF q, r
<1>3. Opt(j).limit > 0 => q.scanned <= Opt(j).limit /\ r.scanned <= Opt(j).limit
  BY <1>1, <1>2 DEF Good, Bounded, Opt
<1>4. q.status \in {"running", "cancelled"}
  BY <1>2 DEF Active
<1>5. CASE r.pc # "loop"
  <2>1. r.pc \in {"cancelled", "done"}
    BY <1>2, <1>5
  <2> QED BY <1>1, <1>2, <1>3, <1>4, <2>1, RestingGood, JobStep
<1>6. CASE r.pc = "loop"
  <2>1. Opt(j).limit > 0 => r.scanned < Opt(j).limit
    BY <1>1, <1>2, <1>6, OptionTypes DEF LimitReached, RunRecords
  <2>2. Good(q, r)
    BY <1>2, <1>3, <1>4, <1>6, <2>1 DEF Good, Bounded
  <2> QED BY <1>1, <1>2, <2>2, JobStep
<1> QED BY <1>5, <1>6

LEMMA FinishCases ==
  ASSUME JobsGood, NEW j \in Jobs, RunFinish(j)
  PROVE  LET q == Persisted(jobs[j], run[j].pc, run[j].cursor, run[j].scanned)
         IN /\ q \in JobRecords /\ jobs' = [jobs EXCEPT ![j] = q]
            /\ q.opt = Opt(j) /\ q.opt \in Options
            /\ IF jobs[j].status \in Active
                 THEN q.status = run[j].pc /\ q.cursor = run[j].cursor /\ q.scanned = run[j].scanned
                 ELSE q = jobs[j]
            /\ run' = [run EXCEPT ![j] = NoRun]
            /\ jobs[j].status \in {"pending", "running", "cancelled"}
            /\ run[j].pc \in {"done", "failed", "cancelled"}
<1>1. /\ run[j] \in RunRecords /\ Opt(j) \in Options
      /\ jobs[j].status \in {"pending", "running", "cancelled"}
      /\ run[j].pc \in {"done", "failed", "cancelled"}
  BY Started DEF RunFinish
<1>2. /\ run[j].pc \in Statuses /\ run[j].cursor \in 0 .. MaxFile /\ run[j].scanned \in Nat
      /\ jobs[j].status # "none"
  BY <1>1 DEF RunRecords, Statuses
<1> QED BY <1>1, <1>2, PersistIs DEF RunFinish, Opt

LEMMA FinishType ==
  ASSUME TypeInv, NEW j \in Jobs, RunFinish(j)
  PROVE  JobsGood'
<1> DEFINE q == Persisted(jobs[j], run[j].pc, run[j].cursor, run[j].scanned)
<1>1. /\ JobsGood /\ Good(jobs[j], run[j]) /\ run[j] \in RunRecords /\ Opt(j) \in Options
  BY JobAt, Started DEF TypeInv, RunFinish
<1>2. /\ q \in JobRecords /\ jobs' = [jobs EXCEPT ![j] = q]
      /\ q.opt = Opt(j) /\ q.opt \in Options
      /\ IF jobs[j].status \in Active
           THEN q.status = run[j].pc /\ q.scanned = run[j].scanned
           ELSE q = jobs[j]
      /\ run' = [run EXCEPT ![j] = NoRun]
      /\ jobs[j].status \in {"pending", "running", "cancelled"}
      /\ run[j].pc \in {"done", "failed", "cancelled"}
  BY <1>1, FinishCases
<1> HIDE DEF q
<1>3. Opt(j).limit > 0 => q.scanned <= Opt(j).limit /\ NoRun.scanned <= Opt(j).limit
  BY <1>1, <1>2, NoRunIs, OptionTypes DEF Good, Bounded, Opt
<1>4. q.status # "none"
  BY <1>2
<1> QED BY <1>1, <1>2, <1>3, <1>4, NoRunIs, RestingGood, JobStep

LEMMA CrashType ==
  ASSUME TypeInv, Crash
  PROVE  JobsGood'
<1> DEFINE load == [NoRun EXCEPT !.pc = "load"]
<1>1. /\ load \in RunRecords /\ load.pc = "load" /\ load.scanned = 0
  BY NoRunIs DEF RunRecords
<1>2. /\ run' = [j \in Jobs |-> IF jobs[j].status \in Active THEN load ELSE NoRun]
      /\ jobs' = jobs
  BY DEF Crash
<1> HIDE DEF load
<1>3. ASSUME NEW j \in Jobs PROVE Good(jobs[j], run'[j])
  <2>1. Good(jobs[j], run[j]) /\ jobs[j] \in JobRecords
    BY JobAt DEF TypeInv
  <2>2. jobs[j].status # "none" => jobs[j].opt \in Options /\ jobs[j].opt.limit \in Nat
    BY <2>1, OptionTypes DEF Good
  <2>3. CASE jobs[j].status \in Active
    BY <1>1, <1>2, <2>1, <2>2, <2>3 DEF Good, Bounded, Active
  <2>4. CASE jobs[j].status \notin Active
    BY <1>2, <2>1, <2>2, <2>4, NoRunIs DEF Good, Bounded
  <2> QED BY <2>3, <2>4
<1>4. run' \in [Jobs -> RunRecords]
  BY <1>1, <1>2, NoRunIs
<1> QED BY <1>2, <1>3, <1>4 DEF JobsGood, TypeInv

LEMMA RunnerTypes ==
  ASSUME TypeInv, NEW j \in Jobs, Runner(j)
  PROVE  JobsGood'
<1>1. CASE RunLeave(j)
  BY <1>1 DEF RunLeave, TypeInv, JobsGood
<1> QED BY <1>1, LoadType, BeginType, LoopType, CopyType, UpdateType, DeleteType, BatchType,
           FinishType, Zenon DEF Runner

LEMMA RunnerRest ==
  ASSUME TypeInv, NEW j \in Jobs, Runner(j)
  PROVE  RestTyped'
<1>1. RestTyped
  BY DEF TypeInv
<1>2. CASE RunLoad(j)
  BY <1>1, <1>2 DEF RunLoad, RestTyped, env
<1>3. CASE RunBegin(j)
  BY <1>1, <1>3 DEF RunBegin, RestTyped, env
<1>4. CASE RunLoop(j)
  <2>1. missed' \in [Jobs -> SUBSET Files]
    BY <1>4, LoopType
  <2> QED BY <1>1, <1>4, <2>1 DEF RunLoop, RestTyped, env
<1>5. CASE RunCopy(j)
  <2>1. Opt(j).to \in Policies /\ Current(j) \in Files /\ run[j].todo \in SUBSET Files
    BY <1>5, Started, OptionTypes, CurrentIs DEF RunCopy, At, TypeInv, RunRecords
  <2>2. objects' \subseteq Policies \X Files /\ crossed' \subseteq Files
    BY <1>1, <1>5, <2>1 DEF RunCopy, RestTyped
  <2>3. missed' \in [Jobs -> SUBSET Files]
    BY <1>1, <1>5, <2>1 DEF RunCopy, RestTyped, Leave
  <2>4. events' \in 0 .. MaxEvents
    BY <1>1, <1>5, Bounds DEF RunCopy, RestTyped
  <2>5. UNCHANGED <<policy, next, files, live, leaving>>
    BY <1>5 DEF RunCopy, env
  <2> QED BY <1>1, <2>2, <2>3, <2>4, <2>5 DEF RestTyped
<1>6. CASE RunUpdate(j)
  <2>1. files' \in [Files -> Policies \cup {None}] /\ missed' \in [Jobs -> SUBSET Files]
    BY <1>6, UpdateType
  <2> QED BY <1>1, <1>6, <2>1 DEF RunUpdate, RestTyped, env
<1>7. CASE RunDelete(j)
  BY <1>1, <1>7 DEF RunDelete, RestTyped, env
<1>8. CASE RunBatch(j)
  BY <1>1, <1>8 DEF RunBatch, RestTyped, env
<1>9. CASE RunFinish(j)
  BY <1>1, <1>9 DEF RunFinish, RestTyped, env
<1>10. CASE RunLeave(j)
  BY <1>1, <1>10 DEF RunLeave, RestTyped, env
<1> QED BY <1>2, <1>3, <1>4, <1>5, <1>6, <1>7, <1>8, <1>9, <1>10 DEF Runner

LEMMA UploadType ==
  ASSUME TypeInv, Upload
  PROVE  RestTyped' /\ next \in Files
<1>1. next \in 1 .. MaxFile + 1 /\ next <= MaxFile /\ MaxFile \in Nat
  BY FilesAreNat DEF TypeInv, RestTyped, Upload
<1>2. next \in Files /\ next' \in 1 .. MaxFile + 1
  BY <1>1 DEF Upload, Files
<1>3. /\ files' \in [Files -> Policies \cup {None}] /\ objects' \subseteq Policies \X Files
      /\ missed' \in [Jobs -> SUBSET Files]
  BY <1>2 DEF Upload, TypeInv, RestTyped
<1> QED BY <1>2, <1>3 DEF TypeInv, RestTyped, Upload

LEMMA StepTypes ==
  ASSUME TypeInv, [Next]_vars
  PROVE  TypeInv'
<1>1. ASSUME NEW j \in Jobs, Runner(j) PROVE TypeInv'
  BY <1>1, RunnerTypes, RunnerRest DEF TypeInv
<1>2. ASSUME NEW j \in Jobs, StartMigrateJob(j) PROVE TypeInv'
  <2>1. RestTyped'
    BY <1>2 DEF StartMigrateJob, TypeInv, RestTyped, env
  <2> QED BY <1>2, <2>1, StartType DEF TypeInv
<1>3. ASSUME NEW j \in Jobs, CancelMigrateJob(j) PROVE TypeInv'
  <2>1. RestTyped'
    BY <1>3 DEF CancelMigrateJob, TypeInv, RestTyped, env
  <2> QED BY <1>3, <2>1, CancelType DEF TypeInv
<1>4. ASSUME NEW j \in Jobs, ResumeMigrateJob(j) PROVE TypeInv'
  <2>1. RestTyped'
    BY <1>4 DEF ResumeMigrateJob, TypeInv, RestTyped, env
  <2> QED BY <1>4, <2>1, ResumeType DEF TypeInv
<1>5. CASE Crash
  <2>1. RestTyped'
    BY <1>5, Bounds DEF Crash, TypeInv, RestTyped, env
  <2> QED BY <1>5, <2>1, CrashType DEF TypeInv
<1>6. CASE Upload
  <2>1. JobsGood'
    BY <1>6 DEF Upload, TypeInv, JobsGood
  <2> QED BY <1>6, <2>1, UploadType DEF TypeInv
<1>7. ASSUME NEW f \in Files, Purge(f) PROVE TypeInv'
  <2>1. JobsGood'
    BY <1>7 DEF Purge, TypeInv, JobsGood
  <2>2. RestTyped'
    BY <1>7 DEF Purge, TypeInv, RestTyped, env
  <2> QED BY <2>1, <2>2 DEF TypeInv
<1>8. ASSUME NEW p \in Policies, UpdatePolicy(p) \/ DeletePolicy(p) PROVE TypeInv'
  <2>1. JobsGood'
    BY <1>8 DEF UpdatePolicy, DeletePolicy, TypeInv, JobsGood
  <2>2. RestTyped'
    BY <1>8, Bounds DEF UpdatePolicy, DeletePolicy, TypeInv, RestTyped
  <2> QED BY <2>1, <2>2 DEF TypeInv
<1>9. CASE UNCHANGED vars
  BY <1>9 DEF vars, TypeInv, JobsGood, RestTyped
<1> QED BY <1>1, <1>2, <1>3, <1>4, <1>5, <1>6, <1>7, <1>8, <1>9 DEF Next

LEMMA InitTypes == Init => TypeInv
<1> SUFFICES ASSUME Init PROVE TypeInv
  OBVIOUS
<1>1. MaxFile \in Nat /\ Seeded \in 0 .. MaxFile /\ MaxEvents \in Nat
  BY MigrationAssumption DEF MigrationAssumption
<1>2. JobsGood
  <2>1. Good(NoJob, NoRun)
    BY NoJobIs, NoRunIs DEF Good, NoJob
  <2> QED BY <2>1, NoJobIs, NoRunIs DEF Init, JobsGood
<1>3. files \in [Files -> Policies \cup {None}] /\ objects \subseteq Policies \X Files
  <2>1. PICK p \in Policies : /\ files = [f \in Files |-> IF f <= Seeded THEN p ELSE None]
                              /\ objects = {<<p, f>> : f \in 1 .. Seeded}
    BY DEF Init
  <2>2. 1 .. Seeded \subseteq Files
    BY <1>1 DEF Files
  <2> QED BY <2>1, <2>2
<1>4. RestTyped
  BY <1>1, <1>3 DEF Init, RestTyped
<1> QED BY <1>2, <1>4 DEF TypeInv

\* Row and goroutine of every job stay well formed: a job that ended of itself
\* or failed has no goroutine, a file in hand is one of the batch, and a limit
\* is never passed, whatever is resumed, cancelled or restarted.
THEOREM MigrationTypes == Spec => []TypeInv
<1>1. Init => TypeInv
  BY InitTypes
<1>2. TypeInv /\ [Next]_vars => TypeInv'
  BY StepTypes
<1> QED BY <1>1, <1>2, PTL DEF Spec

\* The type invariant of the runs, for every value of the constants.
THEOREM MigrationTypeOK == Spec => []TypeOK
<1>1. TypeInv => TypeOK
  <2> SUFFICES ASSUME TypeInv PROVE TypeOK
    OBVIOUS
  <2>1. \A j \in Jobs : jobs[j].status # "none" /\ Opt(j).limit > 0 =>
          jobs[j].scanned <= Opt(j).limit /\ run[j].scanned <= Opt(j).limit
    BY JobAt DEF TypeInv, Good, Bounded, Opt
  <2> QED BY <2>1 DEF TypeInv, RestTyped, JobsGood, TypeOK
<1> QED BY <1>1, MigrationTypes, PTL

-----------------------------------------------------------------------------
(* What has ended.                                                         *)

LEMMA JobsAfterStep ==
  ASSUME TypeInv, NEW j \in Jobs, Runner(j)
  PROVE  \A k \in Jobs : jobs[k].status \in {"done", "cancelled"} => jobs'[k].status = jobs[k].status
<1>1. CASE RunBegin(j)
  BY <1>1 DEF RunBegin, Persist, TypeInv, JobsGood, Active
<1>2. CASE RunBatch(j)
  BY <1>2 DEF RunBatch, Persist, TypeInv, JobsGood, Active
<1>3. CASE RunFinish(j)
  BY <1>3 DEF RunFinish, Persist, TypeInv, JobsGood, Active
<1>4. CASE jobs' = jobs
  BY <1>4
<1>5. RunLoad(j) \/ RunLoop(j) \/ RunCopy(j) \/ RunUpdate(j) \/ RunDelete(j) \/ RunLeave(j) => jobs' = jobs
  BY DEF RunLoad, RunLoop, RunCopy, RunUpdate, RunDelete, RunLeave
<1> QED BY <1>1, <1>2, <1>3, <1>4, <1>5 DEF Runner

\* A cancelled or finished job is never written again, although the goroutine
\* of a cancelled one still persists its checkpoints and its own end.
THEOREM WhatEndedStays == Spec => EndedStays
<1> DEFINE Stays == \A j \in Jobs : jobs[j].status \in {"done", "cancelled"}
                       => jobs'[j].status = jobs[j].status
<1>1. TypeInv /\ [Next]_vars => [Stays]_vars
  <2> SUFFICES ASSUME TypeInv, Next PROVE Stays
    BY DEF vars
  <2>1. ASSUME NEW j \in Jobs, Runner(j) PROVE Stays
    BY <2>1, JobsAfterStep
  <2>2. ASSUME NEW j \in Jobs, StartMigrateJob(j) \/ CancelMigrateJob(j) \/ ResumeMigrateJob(j)
        PROVE  Stays
    BY <2>2 DEF StartMigrateJob, CancelMigrateJob, ResumeMigrateJob, Active, TypeInv, JobsGood
  <2>3. CASE Crash \/ Upload
    BY <2>3 DEF Crash, Upload
  <2>4. ASSUME NEW f \in Files, Purge(f) PROVE Stays
    BY <2>4 DEF Purge
  <2>5. ASSUME NEW p \in Policies, UpdatePolicy(p) \/ DeletePolicy(p) PROVE Stays
    BY <2>5 DEF UpdatePolicy, DeletePolicy
  <2> QED BY <2>1, <2>2, <2>3, <2>4, <2>5 DEF Next
<1> QED BY <1>1, MigrationTypes, PTL DEF Spec, EndedStays

-----------------------------------------------------------------------------
(* Rows and objects.  While a goroutine has a file in hand, the policies    *)
(* fall apart into those from which the row may still come and those it    *)
(* goes to: a set S with the source and without the target of the          *)
(* goroutine, which no goroutine with the same file in hand enters.  Once  *)
(* the row is outside of S it stays there, so that the object at the       *)
(* source may be deleted.  A copy against the direction of another breaks  *)
(* this, and is what crossed records.                                      *)

Closed(S, f) == \A a \in Jobs : InHand(a, f) /\ Opt(a).to \in S => Opt(a).from \in S

Apart(j, f, S) ==
  /\ S \subseteq Policies /\ Opt(j).from \in S /\ Opt(j).to \notin S
  /\ Closed(S, f)
  /\ files[f] \notin S \/ (At(j, "update") /\ <<Opt(j).to, f>> \in objects)

Stored(f) == files[f] # None => <<files[f], f>> \in objects

Separated(f) == Stored(f) /\ \A j \in Jobs : InHand(j, f) => \E S : Apart(j, f, S)

\* Ids are given out in order.
Known ==
  /\ \A f \in Files : f >= next => files[f] = None
  /\ \A j \in Jobs : \A f \in run[j].todo : f < next

HandInv == Known /\ \A f \in Files \ crossed : Separated(f)

\* A step that puts no goroutine's hand on f, and leaves its row and objects.
LEMMA SameHand ==
  ASSUME NEW f, Separated(f), files'[f] = files[f],
         \A p : <<p, f>> \in objects => <<p, f>> \in objects',
         \A k \in Jobs : InHand(k, f)' =>
            InHand(k, f) /\ run'[k].pc = run[k].pc /\ Opt(k)' = Opt(k)
  PROVE  Separated(f)'
<1>1. Stored(f)'
  BY DEF Separated, Stored
<1>2. ASSUME NEW j \in Jobs, InHand(j, f)' PROVE \E S : Apart(j, f, S)'
  <2>1. InHand(j, f) /\ run'[j].pc = run[j].pc /\ Opt(j)' = Opt(j)
    BY <1>2
  <2>2. PICK S : Apart(j, f, S)
    BY <2>1 DEF Separated
  <2>3. Closed(S, f)'
    BY <2>2 DEF Apart, Closed
  <2>4. Apart(j, f, S)'
    BY <2>1, <2>2, <2>3 DEF Apart, At
  <2> QED BY <2>4
<1> QED BY <1>1, <1>2 DEF Separated

\* The same for a step of one goroutine.
LEMMA OthersHand ==
  ASSUME JobsGood, NEW j \in Jobs, NEW q, NEW r, NEW f, Separated(f), files'[f] = files[f],
         \A p : <<p, f>> \in objects => <<p, f>> \in objects',
         jobs' = [jobs EXCEPT ![j] = q], run' = [run EXCEPT ![j] = r],
         r.pc \in {"update", "delete"} => Smallest(r.todo) # f
  PROVE  Separated(f)'
<1>1. /\ jobs'[j] = q /\ run'[j] = r
      /\ \A k \in Jobs \ {j} : jobs'[k] = jobs[k] /\ run'[k] = run[k]
  BY DEF JobsGood
<1>2. ASSUME NEW k \in Jobs, InHand(k, f)'
      PROVE  InHand(k, f) /\ run'[k].pc = run[k].pc /\ Opt(k)' = Opt(k)
  <2>1. k # j
    BY <1>1, <1>2 DEF InHand, Current
  <2> QED BY <1>1, <1>2, <2>1 DEF InHand, Current, Opt
<1> QED BY <1>2, SameHand, Zenon

LEMMA HandNext ==
  ASSUME TypeInv, NEW j \in Jobs, run[j].pc \in {"update", "delete"}
  PROVE  /\ Current(j) \in Files /\ Current(j) \in run[j].todo
         /\ Opt(j) \in Options /\ Opt(j).from # Opt(j).to
         /\ Opt(j).from \in Policies /\ Opt(j).to \in Policies
BY JobAt, Started, OptionTypes, CurrentIs DEF TypeInv, Good

LEMMA NotInHand ==
  ASSUME NEW j \in Jobs, NEW r, r.pc \notin {"update", "delete"}, NEW f
  PROVE  r.pc \in {"update", "delete"} => Smallest(r.todo) # f
OBVIOUS

\* A copy: the file comes into the hand of j.
LEMMA CopyHand ==
  ASSUME TypeInv, HandInv, NEW j \in Jobs, RunCopy(j), NEW f \in Files \ crossed'
  PROVE  Separated(f)'
<1>1. /\ JobsGood /\ run[j].pc = "copy" /\ run[j].todo # {} /\ jobs' = [jobs EXCEPT ![j] = jobs[j]]
      /\ files' = files /\ jobs' = jobs
  BY JobAt DEF TypeInv, RunCopy, At
<1>2. /\ Stopped(j).pc = "batch" /\ Skipped(j).pc = "copy" /\ Copied(j).pc = "update"
      /\ Copied(j).todo = run[j].todo
  BY <1>1, CopyRecords
<1>3. Opt(j).from \in Policies /\ Opt(j).to \in Policies /\ Opt(j).from # Opt(j).to
  BY <1>1, Started, OptionTypes
<1>4. f \in Files \ crossed /\ Separated(f) /\ Stored(f)
  BY DEF RunCopy, HandInv, Separated
<1>5. CASE f # Current(j)
  <2>1. \A p : <<p, f>> \in objects => <<p, f>> \in objects'
    BY <1>5 DEF RunCopy
  <2>2. Smallest(Copied(j).todo) # f
    BY <1>2, <1>5 DEF Current
  <2> QED BY <1>1, <1>2, <1>4, <2>1, <2>2, CopyCases, OthersHand
<1>6. CASE f = Current(j) /\ run' = [run EXCEPT ![j] = Copied(j)] /\ objects' = objects \cup {<<Opt(j).to, f>>}
           /\ ~Crossing(j, f)
  <2>1. /\ run'[j] = Copied(j) /\ \A k \in Jobs \ {j} : run'[k] = run[k]
    BY <1>1, <1>6 DEF JobsGood
  <2>2. ASSUME NEW k \in Jobs PROVE Opt(k)' = Opt(k)
    BY <1>1 DEF Opt
  <2>3. ASSUME NEW k \in Jobs \ {j}
        PROVE  (InHand(k, f)' <=> InHand(k, f)) /\ (At(k, "update")' <=> At(k, "update"))
    BY <2>1 DEF InHand, Current, At
  <2>4. ASSUME NEW k \in Jobs, InHand(k, f)' PROVE Opt(k).from # Opt(j).to
    <3>1. CASE k = j
      BY <1>3, <3>1
    <3>2. CASE k # j
      <4>1. InHand(k, f)
        BY <2>3, <2>4, <3>2
      <4> QED BY <1>6, <4>1 DEF Crossing
    <3> QED BY <3>1, <3>2
  <2>5. Apart(j, f, Policies \ {Opt(j).to})'
    <3>1. ASSUME NEW a \in Jobs, InHand(a, f)' PROVE Opt(a).from \in Policies
      <4>1. CASE a = j
        BY <1>3, <4>1
      <4>2. CASE a # j
        BY <2>3, <3>1, <4>2, HandNext DEF InHand
      <4> QED BY <4>1, <4>2
    <3>2. Closed(Policies \ {Opt(j).to}, f)'
      BY <2>2, <2>4, <3>1 DEF Closed
    <3>3. At(j, "update")' /\ <<Opt(j).to, f>> \in objects'
      BY <1>2, <1>6, <2>1 DEF At
    <3> QED BY <1>3, <2>2, <3>2, <3>3 DEF Apart
  <2>6. ASSUME NEW k \in Jobs \ {j}, InHand(k, f)' PROVE \E S : Apart(k, f, S)'
    <3>1. PICK S : Apart(k, f, S)
      BY <1>4, <2>3, <2>6 DEF Separated
    <3>0. PICK T : T = S \ {Opt(j).to}
      OBVIOUS
    <3>2. Closed(T, f)'
      <4> SUFFICES ASSUME NEW a \in Jobs, InHand(a, f)', Opt(a).to \in T
                   PROVE  Opt(a).from \in T
        BY <2>2 DEF Closed
      <4>1. a # j
        BY <3>0
      <4> QED BY <2>3, <2>4, <3>0, <3>1, <4>1 DEF Apart, Closed
    <3>3. /\ T \subseteq Policies /\ Opt(k).from \in T /\ Opt(k).to \notin T
      BY <2>4, <2>6, <3>0, <3>1 DEF Apart
    <3>4. files'[f] \notin T \/ (At(k, "update")' /\ <<Opt(k).to, f>> \in objects')
      BY <1>1, <1>6, <2>3, <3>0, <3>1 DEF Apart
    <3>5. Opt(k)' = Opt(k)
      BY <2>2
    <3>6. Apart(k, f, T)'
      BY <3>2, <3>3, <3>4, <3>5 DEF Apart
    <3> QED BY <3>6
  <2>7. Stored(f)'
    BY <1>1, <1>4, <1>6 DEF Stored
  <2> QED BY <2>5, <2>6, <2>7 DEF Separated
<1>7. CASE f = Current(j) /\ run' = [run EXCEPT ![j] = Skipped(j)] /\ ~Borrowed(j, f)
           /\ objects' \in {objects, objects \ {<<Opt(j).to, f>>}}
  <2>1. /\ run'[j] = Skipped(j) /\ \A k \in Jobs \ {j} : run'[k] = run[k]
    BY <1>1, <1>7 DEF JobsGood
  <2>2. ASSUME NEW k \in Jobs, InHand(k, f)'
        PROVE  /\ InHand(k, f) /\ run'[k] = run[k] /\ Opt(k).to # Opt(j).to
    BY <1>2, <1>7, <2>1, <2>2 DEF InHand, Current, Borrowed
  <2>3. Stored(f)'
    BY <1>1, <1>4, <1>7 DEF Stored, Borrowed
  <2>4. ASSUME NEW k \in Jobs, InHand(k, f)' PROVE \E S : Apart(k, f, S)'
    <3>1. PICK S : Apart(k, f, S)
      BY <1>4, <2>2, <2>4 DEF Separated
    <3>2. Closed(S, f)'
      BY <1>1, <2>2, <3>1 DEF Apart, Closed, Opt
    <3>3. Opt(k)' = Opt(k)
      BY <1>1 DEF Opt
    <3>4. <<Opt(k).to, f>> \in objects => <<Opt(k).to, f>> \in objects'
      BY <1>7, <2>2, <2>4
    <3>5. At(k, "update") => At(k, "update")'
      BY <2>2, <2>4 DEF At
    <3>6. Apart(k, f, S)'
      BY <1>1, <3>1, <3>2, <3>3, <3>4, <3>5 DEF Apart
    <3> QED BY <3>6
  <2> QED BY <2>3, <2>4 DEF Separated
<1>8. CASE f = Current(j) /\ objects' = objects /\ run' \in {[run EXCEPT ![j] = Stopped(j)], [run EXCEPT ![j] = Skipped(j)]}
  BY <1>1, <1>2, <1>4, <1>8, OthersHand
<1>9. f = Current(j) =>
      \/ /\ run' = [run EXCEPT ![j] = Copied(j)] /\ objects' = objects \cup {<<Opt(j).to, f>>}
         /\ ~Crossing(j, f)
      \/ /\ run' = [run EXCEPT ![j] = Skipped(j)] /\ ~Borrowed(j, f)
         /\ objects' \in {objects, objects \ {<<Opt(j).to, f>>}}
      \/ /\ objects' = objects
         /\ run' \in {[run EXCEPT ![j] = Stopped(j)], [run EXCEPT ![j] = Skipped(j)]}
  BY DEF RunCopy, NextFile, Stopped, Skipped, Copied
<1> QED BY <1>5, <1>6, <1>7, <1>8, <1>9

\* The row goes to the target: it was in the set of j, so the target holds the
\* object, and it enters the set of no other.
LEMMA UpdateHand ==
  ASSUME TypeInv, HandInv, NEW j \in Jobs, RunUpdate(j), NEW f \in Files \ crossed'
  PROVE  Separated(f)'
<1>1. /\ JobsGood /\ run[j].pc = "update" /\ jobs' = [jobs EXCEPT ![j] = jobs[j]]
      /\ jobs' = jobs /\ objects' = objects /\ crossed' = crossed
      /\ Current(j) \in Files
  BY JobAt, UpdateCases DEF TypeInv, RunUpdate
<1>2. /\ Opt(j).from \in Policies /\ Opt(j).to \in Policies
      /\ files \in [Files -> Policies \cup {None}]
  BY <1>1, HandNext DEF TypeInv, RestTyped
<1>3. f \in Files /\ Separated(f) /\ Stored(f)
  BY <1>1 DEF HandInv, Separated
<1>4. /\ NextFile(j).pc = "copy"
      /\ Deleting(j).pc = "delete" /\ Deleting(j).todo = run[j].todo
  <2>1. run[j] \in RunRecords
    BY <1>1, JobAt
  <2> QED BY <1>1, <2>1, NextFileIs DEF Deleting, RunRecords
<1>5. PICK r \in {Deleting(j), NextFile(j)} : run' = [run EXCEPT ![j] = r]
  BY <1>1, UpdateCases
<1>6. run'[j] = r /\ \A k \in Jobs \ {j} : run'[k] = run[k]
  BY <1>1, <1>5 DEF JobsGood
<1>7. ASSUME NEW k \in Jobs
      PROVE  /\ Opt(k)' = Opt(k)
             /\ InHand(k, f)' => InHand(k, f)
             /\ k # j => (At(k, "update") => At(k, "update")')
             /\ InHand(k, f)' /\ k = j => f = Current(j) /\ r = Deleting(j)
  BY <1>1, <1>4, <1>5, <1>6 DEF Opt, InHand, Current, At
<1>8. CASE files'[f] = files[f]
  <2>1. CASE f # Current(j)
    <3>1. r.pc \in {"update", "delete"} => Smallest(r.todo) # f
      BY <1>4, <1>5, <2>1 DEF Current
    <3>2. \A p : <<p, f>> \in objects => <<p, f>> \in objects'
      BY <1>1
    <3> QED BY <1>1, <1>3, <1>5, <1>8, <3>1, <3>2, OthersHand
  <2>2. CASE r = NextFile(j)
    BY <1>1, <1>3, <1>4, <1>5, <1>8, <2>2, OthersHand
  <2>3. CASE f = Current(j) /\ r # NextFile(j)
    <3>1. run' # [run EXCEPT ![j] = NextFile(j)]
      BY <1>6, <2>3 DEF JobsGood, TypeInv
    <3>2. files[f] = Opt(j).from
      BY <2>3, <3>1, UpdateCases, <1>1 DEF Movable
    <3>3. files'[f] = Opt(j).to
      BY <1>2, <1>3, <2>3, <3>1, UpdateCases, <1>1
    <3> QED BY <1>1, <1>8, <3>2, <3>3, HandNext
  <2> QED BY <2>1, <2>2, <2>3
<1>9. CASE files'[f] # files[f]
  <2>1. /\ f = Current(j) /\ files[f] = Opt(j).from /\ files'[f] = Opt(j).to
        /\ InHand(j, f)
    BY <1>1, <1>2, <1>3, <1>9, UpdateCases DEF Movable, InHand
  <2>2. PICK S : Apart(j, f, S)
    BY <1>3, <2>1 DEF Separated
  <2>3. Stored(f)'
    BY <1>1, <2>1, <2>2 DEF Apart, Stored
  <2>4. ASSUME NEW k \in Jobs, InHand(k, f)' PROVE \E T : Apart(k, f, T)'
    <3>1. InHand(k, f) /\ Opt(k)' = Opt(k)
      BY <1>7, <2>4
    <3>2. PICK T : Apart(k, f, T)
      BY <1>3, <3>1 DEF Separated
    <3>3. Closed(T, f)'
      BY <1>7, <3>2 DEF Apart, Closed
    <3>4. CASE k = j
      <4>1. files'[f] \notin T
        BY <2>1, <3>2, <3>4 DEF Apart
      <4> QED BY <3>1, <3>2, <3>3, <4>1 DEF Apart
    <3>5. CASE k # j
      <4>1. files[f] \notin T => files'[f] \notin T
        BY <2>1, <3>2 DEF Apart, Closed
      <4>2. At(k, "update") => At(k, "update")'
        BY <1>7, <3>5
      <4>3. files'[f] \notin T \/ (At(k, "update")' /\ <<Opt(k).to, f>> \in objects')
        BY <1>1, <3>2, <4>1, <4>2 DEF Apart
      <4>4. Apart(k, f, T)'
        BY <3>1, <3>2, <3>3, <4>3 DEF Apart
      <4> QED BY <4>4
    <3> QED BY <3>4, <3>5
  <2> QED BY <2>3, <2>4 DEF Separated
<1> QED BY <1>8, <1>9

\* The source is deleted: the row is outside of the set of j, and whoever is
\* about to bring it back to that source has his own set.
LEMMA DeleteHand ==
  ASSUME TypeInv, HandInv, NEW j \in Jobs, RunDelete(j), NEW f \in Files \ crossed'
  PROVE  Separated(f)'
<1>1. /\ JobsGood /\ run[j].pc = "delete" /\ jobs' = [jobs EXCEPT ![j] = jobs[j]]
      /\ jobs' = jobs /\ files' = files /\ crossed' = crossed
      /\ run' = [run EXCEPT ![j] = NextFile(j)]
      /\ objects' = objects \ {<<Opt(j).from, Current(j)>>}
  BY JobAt DEF TypeInv, RunDelete, At
<1>2. f \in Files /\ Separated(f) /\ Stored(f) /\ NextFile(j).pc = "copy"
  BY <1>1, NextFileIs DEF HandInv, Separated
<1>3. run'[j] = NextFile(j) /\ \A k \in Jobs \ {j} : run'[k] = run[k]
  BY <1>1 DEF JobsGood
<1>4. CASE f # Current(j)
  <2>1. \A p : <<p, f>> \in objects => <<p, f>> \in objects'
    BY <1>1, <1>4
  <2> QED BY <1>1, <1>2, <2>1, OthersHand
<1>5. CASE f = Current(j)
  <2>1. PICK S : Apart(j, f, S)
    BY <1>1, <1>2, <1>5 DEF Separated, InHand
  <2>2. files[f] \notin S
    BY <1>1, <2>1 DEF Apart, At
  <2>3. Stored(f)'
    BY <1>1, <1>2, <2>1, <2>2 DEF Stored, Apart
  <2>4. ASSUME NEW k \in Jobs
        PROVE  Opt(k)' = Opt(k) /\ (InHand(k, f)' => InHand(k, f) /\ run'[k] = run[k])
    BY <1>1, <1>2, <1>3 DEF InHand, Current, Opt
  <2>5. ASSUME NEW k \in Jobs, InHand(k, f)' PROVE \E T : Apart(k, f, T)'
    <3>1. InHand(k, f) /\ Opt(k)' = Opt(k) /\ run'[k] = run[k]
      BY <2>4, <2>5
    <3>2. PICK T : Apart(k, f, T)
      BY <1>2, <3>1 DEF Separated
    <3>3. Closed(T, f)' /\ Closed(S, f)'
      BY <2>1, <2>4, <3>2 DEF Apart, Closed
    <3>4. At(k, "update") => At(k, "update")'
      BY <3>1 DEF At
    <3>5. CASE Opt(k).to # Opt(j).from
      <4>1. <<Opt(k).to, f>> \in objects => <<Opt(k).to, f>> \in objects'
        BY <1>1, <3>5
      <4>2. Apart(k, f, T)'
        BY <1>1, <3>1, <3>2, <3>3, <3>4, <4>1 DEF Apart
      <4> QED BY <4>2
    <3>6. CASE Opt(k).to = Opt(j).from
      <4> DEFINE R == S \cap T
      <4>1. Opt(k).from \in R /\ Opt(k).to \notin R /\ R \subseteq Policies
        BY <2>1, <3>1, <3>2, <3>6 DEF Apart, Closed
      <4>2. Closed(R, f)'
        BY <3>3 DEF Closed
      <4>3. files'[f] \notin R
        BY <1>1, <2>2
      <4> HIDE DEF R
      <4>4. Apart(k, f, R)'
        BY <3>1, <4>1, <4>2, <4>3 DEF Apart
      <4> QED BY <4>4
    <3> QED BY <3>5, <3>6
  <2> QED BY <2>3, <2>5 DEF Separated
<1> QED BY <1>4, <1>5

\* The steps of a goroutine that has no file in hand, before and after.
LEMMA RunnerHand ==
  ASSUME TypeInv, HandInv, NEW j \in Jobs, Runner(j), NEW f \in Files \ crossed'
  PROVE  Separated(f)'
<1>1. JobsGood
  BY DEF TypeInv
<1>2. ASSUME UNCHANGED <<files, objects, crossed>>, NEW q, NEW r,
             jobs' = [jobs EXCEPT ![j] = q], run' = [run EXCEPT ![j] = r],
             r.pc \notin {"update", "delete"}
      PROVE  Separated(f)'
  <2>1. Separated(f) /\ files'[f] = files[f] /\ \A p : <<p, f>> \in objects => <<p, f>> \in objects'
    BY <1>2 DEF HandInv
  <2> QED BY <1>1, <1>2, <2>1, OthersHand
<1>3. CASE RunLoad(j)
  <2>1. jobs' = [jobs EXCEPT ![j] = jobs[j]] /\ UNCHANGED <<files, objects, crossed>>
    BY <1>1, <1>3 DEF RunLoad, JobsGood
  <2>2. NoRun.pc = "none" /\ \A x, y : [NoRun EXCEPT !.pc = "begin", !.cursor = x, !.scanned = y].pc = "begin"
    BY DEF NoRun
  <2> QED BY <1>2, <1>3, <2>1, <2>2 DEF RunLoad
<1>4. CASE RunBegin(j)
  <2> DEFINE s == IF jobs[j].status \notin Active THEN "cancelled"
                  ELSE IF LimitReached(j, run[j].scanned) THEN "done" ELSE "loop"
             r == [run[j] EXCEPT !.pc = s]
  <2>1. r.pc = s /\ s \notin {"update", "delete"}
    BY <1>1, JobAt DEF RunRecords
  <2>2. run' = [run EXCEPT ![j] = r] /\ UNCHANGED <<files, objects, crossed>>
    BY <1>4 DEF RunBegin, Goto
  <2>3. \E q : jobs' = [jobs EXCEPT ![j] = q]
    <3>1. run[j].cursor \in 0 .. MaxFile /\ run[j].scanned \in Nat
      BY <1>1, JobAt DEF RunRecords
    <3>2. jobs[j].status # "none"
      BY <1>1, <1>4, Started DEF RunBegin, At
    <3>3. "running" \in Statuses
      BY DEF Statuses, Active
    <3> QED BY <1>1, <1>4, <3>1, <3>2, <3>3, PersistIs DEF RunBegin
  <2> HIDE DEF r
  <2>4. r.pc \notin {"update", "delete"}
    BY <2>1
  <2> QED BY <1>2, <2>2, <2>3, <2>4
<1>5. CASE RunLoop(j)
  <2>1. jobs' = [jobs EXCEPT ![j] = jobs[j]] /\ UNCHANGED <<files, objects, crossed>>
    BY <1>1, <1>5 DEF RunLoop, JobsGood
  <2>2. PICK r : r.pc \notin {"update", "delete"} /\ run' = [run EXCEPT ![j] = r]
    <3>1. ASSUME NEW s \in {"cancelled", "failed"}, Goto(j, s)
          PROVE  \E r : r.pc \notin {"update", "delete"} /\ run' = [run EXCEPT ![j] = r]
      <4> DEFINE r == [run[j] EXCEPT !.pc = s]
      <4>1. r.pc = s /\ run' = [run EXCEPT ![j] = r]
        BY <1>1, <3>1, JobAt DEF Goto, RunRecords
      <4> HIDE DEF r
      <4> QED BY <4>1
    <3>2. ASSUME NEW list, NEW b,
                 run' = [run EXCEPT ![j].pc = "copy", ![j].todo = list, ![j].full = b, ![j].last = 0]
          PROVE  \E r : r.pc \notin {"update", "delete"} /\ run' = [run EXCEPT ![j] = r]
      <4> DEFINE r == [run[j] EXCEPT !.pc = "copy", !.todo = list, !.full = b, !.last = 0]
      <4>1. r.pc = "copy" /\ run' = [run EXCEPT ![j] = r]
        BY <1>1, <3>2, JobAt DEF RunRecords, JobsGood
      <4> HIDE DEF r
      <4> QED BY <4>1
    <3> QED BY <1>5, <3>1, <3>2, Zenon DEF RunLoop
  <2> QED BY <1>2, <2>1, <2>2
<1>6. CASE RunBatch(j)
  <2>1. \E q : jobs' = [jobs EXCEPT ![j] = q]
    BY <1>1, <1>6, BatchCases
  <2>2. run' = [run EXCEPT ![j] = Turned(j)] /\ Turned(j).pc \notin {"update", "delete"}
    BY <1>1, <1>6, BatchCases
  <2>3. UNCHANGED <<files, objects, crossed>>
    BY <1>6 DEF RunBatch
  <2> QED BY <1>2, <2>1, <2>2, <2>3
<1>7. CASE RunFinish(j)
  <2>1. \E q : jobs' = [jobs EXCEPT ![j] = q]
    BY <1>1, <1>7, FinishCases
  <2>2. run' = [run EXCEPT ![j] = NoRun] /\ UNCHANGED <<files, objects, crossed>>
    BY <1>7 DEF RunFinish
  <2> QED BY <1>2, <2>1, <2>2, NoRunIs
<1>8. CASE RunLeave(j)
  <2>1. Separated(f) /\ UNCHANGED <<files, objects, jobs, run>>
    BY <1>8 DEF RunLeave, HandInv
  <2>2. \A k \in Jobs : InHand(k, f)' => InHand(k, f) /\ run'[k].pc = run[k].pc /\ Opt(k)' = Opt(k)
    BY <2>1 DEF InHand, Current, Opt
  <2> QED BY <2>1, <2>2, SameHand
<1> QED BY <1>3, <1>4, <1>5, <1>6, <1>7, <1>8, CopyHand, UpdateHand, DeleteHand DEF Runner

\* A goroutine only takes up files that are there.
LEMMA RunnerTodo ==
  ASSUME TypeInv, Known, NEW j \in Jobs, Runner(j), NEW k \in Jobs, NEW f \in run'[k].todo
  PROVE  f < next
<1>1. JobsGood /\ run[j] \in RunRecords
  BY JobAt DEF TypeInv
<1>2. ASSUME NEW r, run' = [run EXCEPT ![j] = r], \A g \in r.todo : g < next
      PROVE  f < next
  BY <1>1, <1>2 DEF Known, JobsGood
<1>3. NoRun.todo = {} /\ \A g \in run[j].todo : g < next
  BY NoRunIs DEF Known
<1>4. CASE RunLoad(j)
  <2> DEFINE r == [NoRun EXCEPT !.pc = "begin", !.cursor = jobs[j].cursor,
                                !.scanned = jobs[j].scanned]
  <2>1. r.todo = {}
    BY DEF NoRun
  <2>2. run' = [run EXCEPT ![j] = r] \/ run' = [run EXCEPT ![j] = NoRun]
    BY <1>4 DEF RunLoad
  <2> HIDE DEF r
  <2> QED BY <1>2, <1>3, <2>1, <2>2
<1>5. ASSUME NEW s, Goto(j, s) PROVE f < next
  <2> DEFINE r == [run[j] EXCEPT !.pc = s]
  <2>1. r.todo = run[j].todo /\ run' = [run EXCEPT ![j] = r]
    BY <1>1, <1>5 DEF Goto, RunRecords
  <2> HIDE DEF r
  <2> QED BY <1>2, <1>3, <2>1
<1>6. CASE RunBegin(j)
  BY <1>5, <1>6 DEF RunBegin
<1>7. CASE RunLoop(j)
  <2> DEFINE list == Listed(j, BatchSize(j))
  <2>1. ASSUME NEW b,
                 run' = [run EXCEPT ![j].pc = "copy", ![j].todo = list, ![j].full = b, ![j].last = 0]
        PROVE  f < next
    <3> DEFINE r == [run[j] EXCEPT !.pc = "copy", !.todo = list, !.full = b, !.last = 0]
    <3>1. r.todo = list /\ run' = [run EXCEPT ![j] = r]
      BY <1>1, <2>1 DEF RunRecords, JobsGood
    <3>2. list \subseteq Ahead(j) /\ list \subseteq Files /\ Opt(j).from # None
      BY <1>1, <1>7, BatchIs, Started, OptionTypes DEF RunLoop, At
    <3>3. \A g \in list : files[g] # None
      BY <3>2 DEF Ahead
    <3> HIDE DEF r, list
    <3>4. \A g \in list : g < next
      <4>1. next \in Nat /\ \A g \in Files : g \in Nat
        BY FilesAreNat DEF TypeInv, RestTyped
      <4> QED BY <3>2, <3>3, <4>1 DEF Known
    <3> QED BY <1>2, <3>1, <3>4
  <2> QED BY <1>5, <1>7, <2>1, Zenon DEF RunLoop
<1>8. CASE RunCopy(j)
  <2>1. run[j].pc = "copy" /\ run[j].todo # {}
    BY <1>8 DEF RunCopy, At
  <2>2. /\ Stopped(j).todo = {} /\ Skipped(j).todo = run[j].todo \ {Current(j)}
        /\ Copied(j).todo = run[j].todo
    BY <1>1, <2>1, CopyRecords
  <2> QED BY <1>1, <1>2, <1>3, <1>8, <2>2, CopyCases
<1>9. CASE RunUpdate(j)
  <2>1. run[j].pc = "update" /\ Deleting(j).todo = run[j].todo
    BY <1>1, <1>9 DEF RunUpdate, At, Deleting, RunRecords
  <2>2. NextFile(j).todo = run[j].todo \ {Current(j)}
    BY <1>1, <2>1, NextFileIs
  <2> QED BY <1>1, <1>2, <1>3, <1>9, <2>1, <2>2, UpdateCases
<1>10. CASE RunDelete(j)
  <2>1. NextFile(j).todo = run[j].todo \ {Current(j)}
    BY <1>1, <1>10, NextFileIs DEF RunDelete, At
  <2> QED BY <1>2, <1>3, <1>10, <2>1 DEF RunDelete
<1>11. CASE RunBatch(j)
  <2>1. run' = [run EXCEPT ![j] = Turned(j)]
    BY <1>1, <1>11, BatchCases
  <2>2. Turned(j).todo = run[j].todo
    BY <1>1 DEF Turned, RunRecords
  <2> QED BY <1>2, <1>3, <2>1, <2>2
<1>12. CASE RunFinish(j)
  BY <1>2, <1>3, <1>12 DEF RunFinish
<1>13. CASE RunLeave(j)
  BY <1>13 DEF RunLeave, Known
<1> QED BY <1>4, <1>6, <1>7, <1>8, <1>9, <1>10, <1>11, <1>12, <1>13 DEF Runner

LEMMA RunnerKnown ==
  ASSUME TypeInv, Known, NEW j \in Jobs, Runner(j)
  PROVE  Known' /\ (files' = files \/ RunUpdate(j)) /\ next' = next /\ crossed \subseteq crossed'
<1>1. /\ next' = next /\ (files' = files \/ RunUpdate(j)) /\ crossed \subseteq crossed'
  BY DEF Runner, RunLoad, RunBegin, RunLoop, RunCopy, RunUpdate, RunDelete, RunBatch, RunFinish,
         RunLeave, env
<1>2. \A k \in Jobs : \A f \in run'[k].todo : f < next'
  BY <1>1, RunnerTodo
<1>3. ASSUME NEW f \in Files, f >= next' PROVE files'[f] = None
  <2>1. files[f] = None
    BY <1>1, <1>3 DEF Known
  <2>2. CASE RunUpdate(j)
    <3>1. Current(j) \in run[j].todo /\ Current(j) \in Files /\ JobsGood
      BY <2>2, UpdateCases DEF TypeInv
    <3>2. f # Current(j)
      <4>1. Current(j) < next /\ next \in Nat /\ f \in Nat /\ Current(j) \in Nat
        BY <3>1, FilesAreNat DEF Known, TypeInv, RestTyped
      <4> QED BY <1>1, <1>3, <4>1
    <3>3. files' = files \/ files' = [files EXCEPT ![Current(j)] = Opt(j).to]
      BY <2>2, <3>1, UpdateCases
    <3> QED BY <2>1, <3>2, <3>3 DEF TypeInv, RestTyped
  <2> QED BY <1>1, <2>1, <2>2
<1> QED BY <1>1, <1>2, <1>3 DEF Known

\* The steps of the administrator leave all hands alone.
LEMMA AdminHand ==
  ASSUME TypeInv, HandInv, NEW j \in Jobs,
         StartMigrateJob(j) \/ CancelMigrateJob(j) \/ ResumeMigrateJob(j)
  PROVE  HandInv'
<1>1. /\ UNCHANGED <<files, objects, crossed, next>> /\ JobsGood
  BY DEF StartMigrateJob, CancelMigrateJob, ResumeMigrateJob, env, TypeInv
<1>2. CASE StartMigrateJob(j) \/ ResumeMigrateJob(j)
  <2>1. run[j].pc = "none" /\ run[j] \in RunRecords
    BY <1>1, <1>2, JobAt DEF StartMigrateJob, ResumeMigrateJob, Good
  <2>2. PICK q : jobs' = [jobs EXCEPT ![j] = q]
    BY <1>1, <1>2 DEF StartMigrateJob, ResumeMigrateJob
  <2> DEFINE r == [run[j] EXCEPT !.pc = "load"]
  <2>3. run' = [run EXCEPT ![j] = r] /\ r.pc = "load" /\ r.todo = run[j].todo
    BY <1>2, <2>1 DEF StartMigrateJob, ResumeMigrateJob, Goto, RunRecords
  <2> HIDE DEF r
  <2>4. Known'
    BY <1>1, <2>3 DEF HandInv, Known, JobsGood
  <2>5. ASSUME NEW f \in Files \ crossed' PROVE Separated(f)'
    <3>1. Separated(f) /\ files'[f] = files[f] /\ \A p : <<p, f>> \in objects => <<p, f>> \in objects'
      BY <1>1 DEF HandInv
    <3> QED BY <1>1, <2>2, <2>3, <3>1, OthersHand
  <2> QED BY <2>4, <2>5 DEF HandInv
<1>3. CASE CancelMigrateJob(j)
  <2>1. \A k \in Jobs : run'[k].pc = run[k].pc /\ run'[k].todo = run[k].todo /\ Opt(k)' = Opt(k)
    <3>1. PICK b : run' = [run EXCEPT ![j].cancel = b]
      BY <1>3 DEF CancelMigrateJob
    <3>2. jobs' = [jobs EXCEPT ![j].status = "cancelled"]
      BY <1>3 DEF CancelMigrateJob
    <3>3. \A k \in Jobs : run[k] \in RunRecords /\ jobs[k] \in JobRecords
      BY <1>1, JobAt
    <3> QED BY <1>1, <3>1, <3>2, <3>3 DEF JobsGood, RunRecords, JobRecords, Opt
  <2>2. Known'
    BY <1>1, <2>1 DEF HandInv, Known
  <2>3. ASSUME NEW f \in Files \ crossed' PROVE Separated(f)'
    <3>1. Separated(f) /\ files'[f] = files[f] /\ \A p : <<p, f>> \in objects => <<p, f>> \in objects'
      BY <1>1 DEF HandInv
    <3>2. \A k \in Jobs : InHand(k, f)' => InHand(k, f) /\ run'[k].pc = run[k].pc /\ Opt(k)' = Opt(k)
      BY <2>1 DEF InHand, Current
    <3> QED BY <3>1, <3>2, SameHand
  <2> QED BY <2>2, <2>3 DEF HandInv
<1> QED BY <1>2, <1>3

LEMMA UploadHand ==
  ASSUME TypeInv, HandInv, Upload
  PROVE  HandInv'
<1>1. PICK p \in Policies : /\ files' = [files EXCEPT ![next] = p]
                            /\ objects' = objects \cup {<<p, next>>}
  BY DEF Upload
<1>2. /\ next' = next + 1 /\ run' = run /\ jobs' = jobs /\ crossed' = crossed
      /\ next \in Files /\ next \in Nat /\ \A f \in Files : f \in Nat
      /\ files \in [Files -> Policies \cup {None}]
  BY UploadType, FilesAreNat DEF Upload, TypeInv, RestTyped
<1>3. \A k \in Jobs : run[k].todo \in SUBSET Files
  BY JobAt DEF TypeInv, RunRecords
<1>4. Known'
  <2>1. ASSUME NEW f \in Files, f >= next' PROVE files'[f] = None
    <3>1. f >= next /\ f # next
      BY <1>2, <2>1
    <3> QED BY <1>1, <1>2, <3>1 DEF HandInv, Known
  <2>2. ASSUME NEW k \in Jobs, NEW f \in run[k].todo PROVE f < next'
    <3>1. f < next /\ f \in Nat
      BY <1>2, <1>3 DEF HandInv, Known
    <3> QED BY <1>2, <3>1
  <2> QED BY <1>2, <2>1, <2>2 DEF Known
<1>5. ASSUME NEW f \in Files \ crossed' PROVE Separated(f)'
  <2>1. \A k \in Jobs : InHand(k, f)' => InHand(k, f) /\ run'[k].pc = run[k].pc /\ Opt(k)' = Opt(k)
    BY <1>2 DEF InHand, Current, Opt
  <2>2. CASE f # next
    <3>1. Separated(f) /\ files'[f] = files[f] /\ \A x : <<x, f>> \in objects => <<x, f>> \in objects'
      BY <1>1, <1>2, <2>2 DEF HandInv
    <3> QED BY <2>1, <3>1, SameHand
  <2>3. CASE f = next
    <3>1. Stored(f)'
      BY <1>1, <1>2, <2>3 DEF Stored
    <3>2. \A k \in Jobs : ~InHand(k, f)
      <4> SUFFICES ASSUME NEW k \in Jobs, InHand(k, f) PROVE FALSE
        OBVIOUS
      <4>1. f \in run[k].todo
        BY HandNext DEF InHand
      <4>2. f < next
        BY <4>1 DEF HandInv, Known
      <4> QED BY <1>2, <2>3, <4>2
    <3> QED BY <2>1, <3>1, <3>2 DEF Separated
  <2> QED BY <2>2, <2>3
<1> QED BY <1>4, <1>5 DEF HandInv

LEMMA PurgeHand ==
  ASSUME TypeInv, HandInv, NEW g \in Files, Purge(g)
  PROVE  HandInv'
<1>1. /\ files' = [files EXCEPT ![g] = None] /\ files \in [Files -> Policies \cup {None}]
      /\ objects' \in {objects, objects \ {<<files[g], g>>}}
      /\ next' = next /\ run' = run /\ jobs' = jobs /\ crossed' = crossed
  BY DEF Purge, TypeInv, RestTyped, env
<1>2. Known'
  BY <1>1 DEF HandInv, Known
<1>3. ASSUME NEW f \in Files \ crossed' PROVE Separated(f)'
  <2>1. \A k \in Jobs : InHand(k, f)' => InHand(k, f) /\ run'[k].pc = run[k].pc /\ Opt(k)' = Opt(k)
    BY <1>1 DEF InHand, Current, Opt
  <2>2. CASE f # g
    <3>1. Separated(f) /\ files'[f] = files[f] /\ \A x : <<x, f>> \in objects => <<x, f>> \in objects'
      BY <1>1, <2>2 DEF HandInv
    <3> QED BY <2>1, <3>1, SameHand
  <2>3. CASE f = g
    <3>1. Stored(f)' /\ files'[f] = None
      BY <1>1, <2>3 DEF Stored
    <3>2. ASSUME NEW k \in Jobs, InHand(k, f)' PROVE \E S : Apart(k, f, S)'
      <4>1. PICK S : Apart(k, f, S)
        BY <1>1, <2>1, <3>2 DEF HandInv, Separated
      <4>2. Closed(S, f)'
        BY <2>1, <4>1 DEF Apart, Closed
      <4>3. None \notin S
        BY <4>1, MigrationAssumption DEF MigrationAssumption, Apart
      <4>4. Opt(k)' = Opt(k)
        BY <2>1, <3>2
      <4>5. Apart(k, f, S)'
        BY <3>1, <4>1, <4>2, <4>3, <4>4 DEF Apart
      <4> QED BY <4>5
    <3> QED BY <3>1, <3>2 DEF Separated
  <2> QED BY <2>2, <2>3
<1> QED BY <1>2, <1>3 DEF HandInv

LEMMA StepHand ==
  ASSUME TypeInv, HandInv, [Next]_vars
  PROVE  HandInv'
<1>1. ASSUME NEW j \in Jobs, Runner(j) PROVE HandInv'
  BY <1>1, RunnerKnown, RunnerHand DEF HandInv
<1>2. CASE Crash
  <2>1. /\ UNCHANGED <<files, objects, crossed, next>>
        /\ \A k \in Jobs : run'[k].pc \in {"load", "none"} /\ run'[k].todo = {}
    BY <1>2 DEF Crash, NoRun, env
  <2>2. Known'
    BY <2>1 DEF HandInv, Known
  <2>3. \A f : \A k \in Jobs : ~InHand(k, f)'
    BY <2>1 DEF InHand
  <2> QED BY <2>1, <2>2, <2>3 DEF HandInv, Separated, Stored
<1>3. ASSUME UNCHANGED <<files, objects, crossed, next, run, jobs>> PROVE HandInv'
  BY <1>3 DEF HandInv, Known, Separated, Stored, Apart, Closed, InHand, Current, At, Opt
<1>4. ASSUME NEW p \in Policies, UpdatePolicy(p) \/ DeletePolicy(p) PROVE HandInv'
  BY <1>3, <1>4 DEF UpdatePolicy, DeletePolicy
<1>5. CASE UNCHANGED vars
  BY <1>3, <1>5 DEF vars
<1> QED BY <1>1, <1>2, <1>4, <1>5, AdminHand, UploadHand, PurgeHand DEF Next

\* A file row points to a policy that holds its object, however migrations in
\* any number, uploads, purges, crashes and cancellations overlap, unless a
\* copy crossed another goroutine's hand on the file.
THEOREM ObjectsStayAtPolicy == Spec => []ObjectAtPolicyUnlessCrossed
<1>1. Init => HandInv
  <2> SUFFICES ASSUME Init PROVE HandInv
    OBVIOUS
  <2>1. Seeded \in 0 .. MaxFile /\ MaxFile \in Nat
    BY MigrationAssumption DEF MigrationAssumption
  <2>2. PICK p \in Policies : /\ files = [f \in Files |-> IF f <= Seeded THEN p ELSE None]
                              /\ objects = {<<p, f>> : f \in 1 .. Seeded}
    BY DEF Init
  <2>3. \A j \in Jobs : run[j].pc = "none" /\ run[j].todo = {}
    BY DEF Init, NoRun
  <2>4. Known
    BY <2>1, <2>2, <2>3 DEF Init, Known, Files
  <2>5. \A f \in Files : Stored(f)
    BY <2>1, <2>2 DEF Stored, Files
  <2> QED BY <2>3, <2>4, <2>5 DEF HandInv, Separated, InHand
<1>2. HandInv /\ TypeInv /\ [Next]_vars => HandInv'
  BY StepHand
<1>3. HandInv => ObjectAtPolicyUnlessCrossed
  BY DEF HandInv, Separated, Stored, ObjectAtPolicyUnlessCrossed
<1> QED BY <1>1, <1>2, <1>3, MigrationTypes, PTL DEF Spec

-----------------------------------------------------------------------------
(* What a finished job has visited.  The files a job still has to visit are *)
(* those it may take, on its source and not excused; all of them lie       *)
(* behind the persisted cursor, behind the cursor in memory, and, while a  *)
(* batch is in hand, in the batch or behind all of it.  A batch that is    *)
(* not full has nothing behind it.                                         *)

Unseen(j) == {f \in Opt(j).only : files[f] = Opt(j).from /\ f \notin missed[j]}

Seen(q, r, U) ==
  /\ q.status = "done" \/ r.pc = "done" => U = {}
  /\ q.status # "done" => \A f \in U : f > q.cursor
  /\ r.pc \notin {"none", "load"} => q.cursor <= r.cursor /\ \A f \in U : f > r.cursor
  /\ r.pc \in {"copy", "update", "delete"} =>
       \A f \in U : f \in r.todo \/ (r.full /\ f > r.last /\ \A g \in r.todo : g < f)
  /\ r.pc = "batch" => \A f \in U : f > r.last
  /\ r.pc = "delete" => Smallest(r.todo) \notin U

VisitInv == \A j \in Jobs : Tracked(j) => Seen(jobs[j], run[j], Unseen(j))

LEMMA SeenShrinks ==
  ASSUME NEW q, NEW r, NEW U, NEW V \in SUBSET U, Seen(q, r, U)
  PROVE  Seen(q, r, V)
BY DEF Seen

\* A step that leaves a job's row and goroutine alone.
LEMMA VisitSame ==
  ASSUME VisitInv, NEW k \in Jobs, jobs'[k] = jobs[k], run'[k] = run[k],
         Tracked(k) => Unseen(k)' \subseteq Unseen(k)
  PROVE  Tracked(k)' => Seen(jobs[k], run[k], Unseen(k))'
<1> SUFFICES ASSUME Tracked(k)' PROVE Seen(jobs[k], run[k], Unseen(k))'
  OBVIOUS
<1>1. Tracked(k)
  BY DEF Tracked, Opt
<1>2. Seen(jobs[k], run[k], Unseen(k)')
  BY <1>1, SeenShrinks DEF VisitInv
<1> QED BY <1>2 DEF Seen

LEMMA TrackedIs ==
  ASSUME TypeInv, NEW k \in Jobs, Tracked(k)
  PROVE  /\ Opt(k) \in Options /\ Opt(k).from \in Policies /\ Opt(k).from # None
         /\ Opt(k).from # Opt(k).to /\ Opt(k).only \subseteq Files /\ Opt(k).limit = 0
         /\ \A f \in Unseen(k) : f \in Nat /\ f > 0 /\ f \in Files
<1>1. Opt(k) \in Options
  BY JobAt DEF TypeInv, Tracked, Good, Opt
<1>2. \A f \in Files : f \in Nat /\ f > 0
  BY FilesAreNat DEF Files
<1> QED BY <1>1, <1>2, OptionTypes DEF Unseen, Tracked

\* No goroutine adds to what another has to visit: a file it brings to the
\* source of a job under way is excused there.
LEMMA OthersUnseen ==
  ASSUME TypeInv, NEW j \in Jobs, Runner(j), NEW k \in Jobs \ {j}, Tracked(k)
  PROVE  Unseen(k)' \subseteq Unseen(k)
<1>1. Opt(k)' = Opt(k)
  BY DEF Runner, RunLoad, RunBegin, RunLoop, RunCopy, RunUpdate, RunDelete, RunBatch, RunFinish,
         RunLeave, Persist, Opt, TypeInv, JobsGood
<1>2. ASSUME files' = files, missed'[k] = missed[k] PROVE Unseen(k)' \subseteq Unseen(k)
  BY <1>1, <1>2 DEF Unseen
<1>3. CASE RunLoop(j)
  BY <1>2, <1>3 DEF RunLoop, TypeInv, RestTyped
<1>4. CASE RunCopy(j)
  BY <1>2, <1>4 DEF RunCopy, Leave, TypeInv, RestTyped
<1>5. CASE RunUpdate(j)
  <2>1. CASE Leave(j) /\ files' = files
    BY <1>2, <2>1 DEF Leave, TypeInv, RestTyped
  <2>2. CASE /\ files' = [files EXCEPT ![Current(j)] = Opt(j).to]
             /\ missed' = [i \in Jobs |-> IF Tracked(i) /\ Opt(i).from = Opt(j).to
                                   THEN missed[i] \cup {Current(j)} ELSE missed[i]]
    <3>1. missed'[k] = IF Opt(k).from = Opt(j).to THEN missed[k] \cup {Current(j)} ELSE missed[k]
      BY <2>2
    <3>2. ASSUME NEW f \in Unseen(k)' PROVE f \in Unseen(k)
      <4>1. f \in Opt(k).only /\ files'[f] = Opt(k).from /\ f \notin missed'[k] /\ f \in Files
        BY <1>1, <3>2, TrackedIs DEF Unseen
      <4>2. f # Current(j)
        BY <2>2, <3>1, <4>1 DEF TypeInv, RestTyped
      <4>3. files'[f] = files[f]
        BY <2>2, <4>1, <4>2 DEF TypeInv, RestTyped
      <4> QED BY <3>1, <4>1, <4>3 DEF Unseen
    <3> QED BY <3>2
  <2> QED BY <1>5, <2>1, <2>2, UpdateCases DEF TypeInv
<1>6. CASE RunLoad(j) \/ RunBegin(j) \/ RunDelete(j) \/ RunBatch(j) \/ RunFinish(j) \/ RunLeave(j)
  BY <1>2, <1>6 DEF RunLoad, RunBegin, RunDelete, RunBatch, RunFinish, RunLeave
<1> QED BY <1>3, <1>4, <1>5, <1>6 DEF Runner

\* A step of j with new row q and goroutine r.
LEMMA VisitStep ==
  ASSUME TypeInv, VisitInv, NEW j \in Jobs, Runner(j), NEW q, NEW r,
         jobs' = [jobs EXCEPT ![j] = q], run' = [run EXCEPT ![j] = r],
         q.status \notin {"none", "cancelled"} /\ q.opt.limit = 0 => Seen(q, r, Unseen(j)')
  PROVE  VisitInv'
<1>1. /\ jobs'[j] = q /\ run'[j] = r
      /\ \A k \in Jobs \ {j} : jobs'[k] = jobs[k] /\ run'[k] = run[k]
  BY DEF TypeInv, JobsGood
<1>2. Tracked(j)' => Seen(jobs[j], run[j], Unseen(j))'
  <2>1. Tracked(j)' => q.status \notin {"none", "cancelled"} /\ q.opt.limit = 0
    BY <1>1 DEF Tracked, Opt
  <2> QED BY <1>1, <2>1 DEF Seen
<1>3. ASSUME NEW k \in Jobs \ {j} PROVE Tracked(k)' => Seen(jobs[k], run[k], Unseen(k))'
  <2>1. Tracked(k) => Unseen(k)' \subseteq Unseen(k)
    BY OthersUnseen
  <2> QED BY <1>1, <2>1, VisitSame
<1> QED BY <1>2, <1>3 DEF VisitInv

\* The same files are to be visited if rows and excuses stay.
LEMMA SameUnseen ==
  ASSUME NEW j \in Jobs, Opt(j)' = Opt(j), files' = files, missed' = missed
  PROVE  Unseen(j)' = Unseen(j)
BY DEF Unseen

LEMMA LoadVisit ==
  ASSUME TypeInv, VisitInv, NEW j \in Jobs, RunLoad(j)
  PROVE  VisitInv'
<1>1. /\ JobsGood /\ Runner(j) /\ jobs' = [jobs EXCEPT ![j] = jobs[j]] /\ jobs' = jobs
      /\ jobs[j].status \in {"pending", "running", "cancelled"} /\ jobs[j] \in JobRecords
  BY JobAt, Started DEF TypeInv, RunLoad, Runner, At
<1>2. Unseen(j)' = Unseen(j)
  BY <1>1, SameUnseen DEF RunLoad, Opt
<1>3. CASE jobs[j].status \in Active
  <2> DEFINE r == [NoRun EXCEPT !.pc = "begin", !.cursor = jobs[j].cursor,
                                !.scanned = jobs[j].scanned]
  <2>1. r.pc = "begin" /\ r.cursor = jobs[j].cursor
    BY DEF NoRun
  <2>2. run' = [run EXCEPT ![j] = r]
    BY <1>3 DEF RunLoad
  <2> HIDE DEF r
  <2>3. jobs[j].cursor <= r.cursor
    <3>1. jobs[j].cursor \in Nat
      BY <1>1, FilesAreNat DEF JobRecords
    <3> QED BY <2>1, <3>1
  <2>4. Tracked(j) => Seen(jobs[j], r, Unseen(j))
    BY <1>1, <2>1, <2>3 DEF Seen, VisitInv
  <2> QED BY <1>1, <1>2, <2>2, <2>4, VisitStep DEF Tracked, Opt
<1>4. CASE jobs[j].status \notin Active
  <2>1. run' = [run EXCEPT ![j] = NoRun] /\ jobs[j].status = "cancelled"
    BY <1>1, <1>4 DEF RunLoad, Active
  <2> QED BY <1>1, <2>1, VisitStep
<1> QED BY <1>3, <1>4

LEMMA BeginVisit ==
  ASSUME TypeInv, VisitInv, NEW j \in Jobs, RunBegin(j)
  PROVE  VisitInv'
<1> DEFINE q == Persisted(jobs[j], "running", run[j].cursor, run[j].scanned)
           s == IF jobs[j].status \notin Active THEN "cancelled"
                ELSE IF LimitReached(j, run[j].scanned) THEN "done" ELSE "loop"
           r == [run[j] EXCEPT !.pc = s]
<1>1. /\ JobsGood /\ Runner(j) /\ run[j] \in RunRecords /\ run[j].pc = "begin"
      /\ jobs[j].status \in {"pending", "running", "cancelled"}
      /\ Persist(j, "running", run[j].cursor, run[j].scanned)
      /\ run' = [run EXCEPT ![j] = r]
  BY Started DEF TypeInv, RunBegin, Runner, At, Goto
<1>2. /\ jobs' = [jobs EXCEPT ![j] = q] /\ q.opt = Opt(j)
      /\ IF jobs[j].status \in Active
           THEN q.status = "running" /\ q.cursor = run[j].cursor
           ELSE q = jobs[j]
  BY <1>1, PersistIs DEF Opt, RunRecords, Statuses, Active
<1>3. r.pc = s /\ r.cursor = run[j].cursor
  BY <1>1 DEF RunRecords
<1> HIDE DEF q, r
<1>4. Unseen(j)' = Unseen(j)
  <2>1. Opt(j)' = Opt(j)
    BY <1>1, <1>2 DEF Opt, JobsGood
  <2> QED BY <2>1, SameUnseen DEF RunBegin
<1>5. ASSUME q.status \notin {"none", "cancelled"}, q.opt.limit = 0 PROVE Seen(q, r, Unseen(j))
  <2>1. jobs[j].status \in Active /\ Tracked(j)
    BY <1>1, <1>2, <1>5 DEF Active, Tracked
  <2>2. Seen(jobs[j], run[j], Unseen(j))
    BY <2>1 DEF VisitInv
  <2>3. r.pc = "loop"
    BY <1>2, <1>3, <1>5, <2>1 DEF LimitReached
  <2>4. q.cursor <= r.cursor
    <3>1. run[j].cursor \in Nat
      BY <1>1, FilesAreNat DEF RunRecords
    <3> QED BY <1>2, <1>3, <2>1, <3>1
  <2> QED BY <1>1, <1>2, <1>3, <2>1, <2>2, <2>3, <2>4 DEF Seen
<1> QED BY <1>1, <1>2, <1>4, <1>5, VisitStep

LEMMA LoopVisit ==
  ASSUME TypeInv, VisitInv, NEW j \in Jobs, RunLoop(j)
  PROVE  VisitInv'
<1>1. /\ JobsGood /\ Runner(j) /\ run[j] \in RunRecords /\ run[j].pc = "loop"
      /\ jobs' = [jobs EXCEPT ![j] = jobs[j]] /\ jobs' = jobs /\ files' = files
      /\ jobs[j].status \in {"pending", "running", "cancelled"} /\ Opt(j)' = Opt(j)
  BY JobAt, Started DEF TypeInv, RunLoop, Runner, At, Opt
<1>2. ASSUME NEW s \in {"cancelled", "failed"}, Goto(j, s), missed' = missed
      PROVE  VisitInv'
  <2> DEFINE r == [run[j] EXCEPT !.pc = s]
  <2>1. r.pc = s /\ r.cursor = run[j].cursor /\ run' = [run EXCEPT ![j] = r]
    BY <1>1, <1>2 DEF RunRecords, Goto
  <2> HIDE DEF r
  <2>2. Unseen(j)' = Unseen(j)
    BY <1>1, <1>2, SameUnseen
  <2>3. Tracked(j) => Seen(jobs[j], r, Unseen(j))
    BY <1>1, <2>1 DEF Seen, VisitInv
  <2> QED BY <1>1, <2>1, <2>2, <2>3, VisitStep DEF Tracked, Opt
<1> DEFINE list == Listed(j, BatchSize(j))
           b == (Cardinality(list) = BatchSize(j))
           r == [run[j] EXCEPT !.pc = "copy", !.todo = list, !.full = b, !.last = 0]
<1>3. ASSUME run' = [run EXCEPT ![j].pc = "copy", ![j].todo = list, ![j].full = b, ![j].last = 0],
             missed' = [missed EXCEPT ![j] = @ \ {f \in Files : After(f, run[j].cursor)}]
      PROVE  VisitInv'
  <2>1. /\ list = Front(Ahead(j), BatchSize(j)) /\ BatchSize(j) \in Nat
        /\ Cardinality(list) \in Nat /\ Cardinality(list) <= BatchSize(j)
    BY <1>1, BatchIs
  <2>2. run' = [run EXCEPT ![j] = r]
    BY <1>1, <1>3 DEF JobsGood
  <2>3. /\ r.pc = "copy" /\ r.todo = list /\ r.last = 0 /\ r.cursor = run[j].cursor
        /\ (b => r.full)
    BY <1>1 DEF RunRecords
  <2>4. missed'[j] = missed[j] \ {f \in Files : After(f, run[j].cursor)}
    BY <1>3 DEF TypeInv, RestTyped
  <2> HIDE DEF list, r
  <2>5. ASSUME Tracked(j) PROVE Seen(jobs[j], r, Unseen(j)')
    <3>1. Seen(jobs[j], run[j], Unseen(j))
      BY <2>5 DEF VisitInv
    <3>2. /\ jobs[j].cursor <= run[j].cursor /\ \A f \in Unseen(j) : f > run[j].cursor
          /\ jobs[j].cursor \in Nat /\ run[j].cursor \in Nat
      <4>1. jobs[j].cursor \in Nat /\ run[j].cursor \in Nat
        BY <1>1, JobAt, FilesAreNat DEF JobRecords, RunRecords
      <4> QED BY <1>1, <3>1, <4>1 DEF Seen
    <3>3. ASSUME NEW f \in Unseen(j)'
          PROVE  f \in Ahead(j) /\ f > run[j].cursor /\ f > jobs[j].cursor /\ f \in Nat /\ f > 0
      <4>1. f \in Opt(j).only /\ f \in Files /\ files[f] = Opt(j).from /\ f \notin missed'[j]
        BY <1>1, <2>5, <3>3, TrackedIs DEF Unseen
      <4>2. f \in Nat /\ f > 0
        BY <4>1, FilesAreNat DEF Files
      <4>3. f > run[j].cursor
        <5> SUFFICES ASSUME ~(f > run[j].cursor) PROVE FALSE
          OBVIOUS
        <5>1. f \notin missed[j]
          BY <2>4, <4>1 DEF After
        <5> QED BY <3>2, <4>1, <5>1 DEF Unseen
      <4> QED BY <3>2, <4>1, <4>2, <4>3 DEF Ahead, After
    <3>4. ASSUME NEW f \in Unseen(j)', f \notin list
          PROVE  r.full /\ f > r.last /\ \A g \in list : g < f
      <4>1. Ahead(j) \in SUBSET Files /\ f \in Ahead(j) /\ f > 0
        BY <3>3, <3>4 DEF Ahead
      <4>2. /\ \A g \in list : g < f
            /\ BatchSize(j) <= Cardinality(list)
        BY <2>1, <3>4, <4>1, LeftOutFollow
      <4>3. Cardinality(list) = BatchSize(j)
        BY <2>1, <4>2
      <4> QED BY <2>3, <4>1, <4>2, <4>3
    <3> QED BY <1>1, <2>3, <3>2, <3>3, <3>4 DEF Seen
  <2> QED BY <1>1, <2>2, <2>5, VisitStep DEF Tracked, Opt
<1> QED BY <1>2, <1>3, Zenon DEF RunLoop

\* A file that was left where it is, is excused.
LEMMA LeftIsExcused ==
  ASSUME TypeInv, NEW j \in Jobs, Tracked(j), Leave(j), files' = files, Opt(j)' = Opt(j)
  PROVE  Unseen(j)' \subseteq Unseen(j) \ {Current(j)}
<1>1. missed'[j] = IF files[Current(j)] # None THEN missed[j] \cup {Current(j)} ELSE missed[j]
  BY DEF Leave, TypeInv, RestTyped
<1>2. Opt(j).from # None
  BY TrackedIs
<1> QED BY <1>1, <1>2 DEF Unseen

\* Going on to the next file keeps what is to be visited in view, provided that
\* the one in hand no longer belongs to it.
LEMMA NextSeen ==
  ASSUME JobsGood, NEW j \in Jobs, run[j].pc \in {"copy", "update", "delete"}, run[j].todo # {},
         NEW U, Seen(jobs[j], run[j], U), NEW V \in SUBSET (U \ {Current(j)}),
         NEW r, r.pc = "copy", r.todo = run[j].todo \ {Current(j)}, r.full = run[j].full,
         r.cursor = run[j].cursor, r.last \in {run[j].last, Current(j)}
  PROVE  Seen(jobs[j], r, V)
<1>1. /\ Current(j) \in run[j].todo /\ jobs[j].status # "done"
      /\ jobs[j].status \in {"pending", "running", "cancelled"}
  BY JobAt, CurrentIs, Started
<1>2. /\ \A f \in U : f \in run[j].todo \/ (run[j].full /\ f > run[j].last /\ \A g \in run[j].todo : g < f)
      /\ jobs[j].cursor <= run[j].cursor
      /\ \A f \in U : f > run[j].cursor /\ f > jobs[j].cursor
  BY <1>1 DEF Seen
<1>3. ASSUME NEW f \in V, f \notin r.todo
      PROVE  r.full /\ f > r.last /\ \A g \in r.todo : g < f
  <2>1. f \in U /\ f # Current(j) /\ f \notin run[j].todo
    BY <1>3
  <2>2. run[j].full /\ f > run[j].last /\ \A g \in run[j].todo : g < f
    BY <1>2, <2>1
  <2>3. Current(j) < f
    BY <1>1, <2>2
  <2>4. f > r.last
    <3>1. CASE r.last = run[j].last
      BY <2>2, <3>1
    <3>2. CASE r.last = Current(j)
      BY <2>3, <3>2
    <3> QED BY <3>1, <3>2
  <2> QED BY <2>2, <2>4
<1> QED BY <1>1, <1>2, <1>3 DEF Seen

LEMMA CopyVisit ==
  ASSUME TypeInv, VisitInv, NEW j \in Jobs, RunCopy(j)
  PROVE  VisitInv'
<1>1. /\ JobsGood /\ Runner(j) /\ run[j] \in RunRecords /\ run[j].pc = "copy" /\ run[j].todo # {}
      /\ jobs' = [jobs EXCEPT ![j] = jobs[j]] /\ jobs' = jobs /\ files' = files
      /\ jobs[j].status \in {"pending", "running", "cancelled"} /\ Opt(j)' = Opt(j)
  BY JobAt, Started DEF TypeInv, RunCopy, Runner, At, Opt
<1>2. /\ Current(j) \in run[j].todo /\ \A g \in run[j].todo : Current(j) <= g
  BY <1>1, CurrentIs
<1>3. ASSUME Tracked(j)
      PROVE  /\ Seen(jobs[j], run[j], Unseen(j))
             /\ \A f \in Unseen(j) : f \in run[j].todo
                  \/ (run[j].full /\ f > run[j].last /\ \A g \in run[j].todo : g < f)
  BY <1>1, <1>3 DEF VisitInv, Seen
<1>4. CASE run' = [run EXCEPT ![j] = Stopped(j)]
           /\ missed' = [missed EXCEPT ![j] = IF Tracked(j) THEN @ \cup run[j].todo ELSE @]
  <2>1. ASSUME Tracked(j) PROVE Seen(jobs[j], Stopped(j), Unseen(j)')
    <3>1. missed'[j] = missed[j] \cup run[j].todo
      BY <1>4, <2>1 DEF TypeInv, RestTyped
    <3>2. Unseen(j)' \subseteq Unseen(j) \ run[j].todo
      BY <1>1, <3>1 DEF Unseen
    <3>3. /\ Stopped(j).pc = "batch" /\ Stopped(j).last = Current(j)
          /\ Stopped(j).cursor = run[j].cursor
      BY <1>1, CopyRecords
    <3>4. \A f \in Unseen(j)' : f > Current(j)
      <4>1. \A f \in Unseen(j)' : Current(j) < f
        BY <1>2, <1>3, <2>1, <3>2
      <4> QED BY <4>1
    <3> QED BY <1>1, <1>3, <2>1, <3>2, <3>3, <3>4 DEF Seen
  <2> QED BY <1>1, <1>4, <2>1, VisitStep DEF Tracked, Opt
<1>5. CASE run' = [run EXCEPT ![j] = Skipped(j)] /\ Leave(j)
  <2>1. ASSUME Tracked(j) PROVE Seen(jobs[j], Skipped(j), Unseen(j)')
    <3>1. Unseen(j)' \subseteq Unseen(j) \ {Current(j)}
      BY <1>1, <1>5, <2>1, LeftIsExcused
    <3>2. /\ Skipped(j).pc = "copy" /\ Skipped(j).todo = run[j].todo \ {Current(j)}
          /\ Skipped(j).last = Current(j) /\ Skipped(j).cursor = run[j].cursor
          /\ Skipped(j).full = run[j].full
      BY <1>1, CopyRecords
    <3> QED BY <1>1, <1>3, <2>1, <3>1, <3>2, NextSeen
  <2> QED BY <1>1, <1>5, <2>1, VisitStep DEF Tracked, Opt
<1>6. CASE run' = [run EXCEPT ![j] = Copied(j)] /\ missed' = missed
  <2>1. ASSUME Tracked(j) PROVE Seen(jobs[j], Copied(j), Unseen(j)')
    <3>1. Unseen(j)' = Unseen(j)
      BY <1>1, <1>6, SameUnseen
    <3>2. /\ Copied(j).pc = "update" /\ Copied(j).todo = run[j].todo
          /\ Copied(j).last = Current(j) /\ Copied(j).cursor = run[j].cursor
          /\ Copied(j).full = run[j].full
      BY <1>1, CopyRecords
    <3>3. ASSUME NEW f \in Unseen(j), f \notin run[j].todo PROVE f > Current(j)
      <4>1. Current(j) < f
        BY <1>2, <1>3, <2>1, <3>3
      <4> QED BY <4>1
    <3> QED BY <1>1, <1>3, <2>1, <3>1, <3>2, <3>3 DEF Seen
  <2> QED BY <1>1, <1>6, <2>1, VisitStep DEF Tracked, Opt
<1>7. \/ /\ run' = [run EXCEPT ![j] = Stopped(j)]
         /\ missed' = [missed EXCEPT ![j] = IF Tracked(j) THEN @ \cup run[j].todo ELSE @]
      \/ run' = [run EXCEPT ![j] = Skipped(j)] /\ Leave(j)
      \/ run' = [run EXCEPT ![j] = Copied(j)] /\ missed' = missed
  BY DEF RunCopy, NextFile, Stopped, Skipped, Copied
<1> QED BY <1>4, <1>5, <1>6, <1>7

LEMMA UpdateVisit ==
  ASSUME TypeInv, VisitInv, NEW j \in Jobs, RunUpdate(j)
  PROVE  VisitInv'
<1>1. /\ JobsGood /\ Runner(j) /\ run[j] \in RunRecords /\ run[j].pc = "update" /\ run[j].todo # {}
      /\ jobs' = [jobs EXCEPT ![j] = jobs[j]] /\ jobs' = jobs
      /\ Opt(j)' = Opt(j) /\ Current(j) \in Files /\ Opt(j).from # Opt(j).to
  BY JobAt, UpdateCases, HandNext DEF TypeInv, RunUpdate, Runner, At, Opt
<1>2. ASSUME Tracked(j) PROVE Unseen(j)' \subseteq Unseen(j) \ {Current(j)}
  <2>1. CASE Leave(j) /\ files' = files
    BY <1>1, <1>2, <2>1, LeftIsExcused
  <2>2. CASE /\ files' = [files EXCEPT ![Current(j)] = Opt(j).to]
             /\ missed' = [i \in Jobs |-> IF Tracked(i) /\ Opt(i).from = Opt(j).to
                                   THEN missed[i] \cup {Current(j)} ELSE missed[i]]
    <3>1. missed'[j] = missed[j]
      BY <1>1, <2>2
    <3>2. ASSUME NEW f \in Unseen(j)' PROVE f \in Unseen(j) \ {Current(j)}
      <4>1. f \in Opt(j).only /\ files'[f] = Opt(j).from /\ f \notin missed[j] /\ f \in Files
        BY <1>1, <1>2, <3>1, <3>2, TrackedIs DEF Unseen
      <4>2. f # Current(j)
        BY <1>1, <2>2, <4>1 DEF TypeInv, RestTyped
      <4>3. files'[f] = files[f]
        BY <2>2, <4>1, <4>2 DEF TypeInv, RestTyped
      <4> QED BY <4>1, <4>2, <4>3 DEF Unseen
    <3> QED BY <3>2
  <2> QED BY <1>1, <2>1, <2>2, UpdateCases
<1>3. Tracked(j) => Seen(jobs[j], run[j], Unseen(j))
  BY DEF VisitInv
<1>4. CASE run' = [run EXCEPT ![j] = NextFile(j)]
  <2>1. ASSUME Tracked(j) PROVE Seen(jobs[j], NextFile(j), Unseen(j)')
    <3>1. /\ NextFile(j).pc = "copy" /\ NextFile(j).todo = run[j].todo \ {Current(j)}
          /\ NextFile(j).cursor = run[j].cursor /\ NextFile(j).last = run[j].last
          /\ NextFile(j).full = run[j].full
      BY <1>1, NextFileIs
    <3> QED BY <1>1, <1>2, <1>3, <2>1, <3>1, NextSeen
  <2> QED BY <1>1, <1>4, <2>1, VisitStep DEF Tracked, Opt
<1>5. CASE run' = [run EXCEPT ![j] = Deleting(j)]
  <2>1. ASSUME Tracked(j) PROVE Seen(jobs[j], Deleting(j), Unseen(j)')
    <3>1. /\ Deleting(j).pc = "delete" /\ Deleting(j).todo = run[j].todo
          /\ Deleting(j).cursor = run[j].cursor /\ Deleting(j).last = run[j].last
          /\ Deleting(j).full = run[j].full
      BY <1>1 DEF Deleting, RunRecords
    <3>2. Smallest(Deleting(j).todo) \notin Unseen(j)'
      BY <1>2, <2>1, <3>1 DEF Current
    <3> QED BY <1>1, <1>2, <1>3, <2>1, <3>1, <3>2 DEF Seen
  <2> QED BY <1>1, <1>5, <2>1, VisitStep DEF Tracked, Opt
<1> QED BY <1>1, <1>4, <1>5, UpdateCases

LEMMA DeleteVisit ==
  ASSUME TypeInv, VisitInv, NEW j \in Jobs, RunDelete(j)
  PROVE  VisitInv'
<1>1. /\ JobsGood /\ Runner(j) /\ run[j].pc = "delete" /\ run[j].todo # {}
      /\ jobs' = [jobs EXCEPT ![j] = jobs[j]] /\ jobs' = jobs
      /\ Opt(j)' = Opt(j) /\ files' = files /\ missed' = missed
      /\ run' = [run EXCEPT ![j] = NextFile(j)]
  BY JobAt DEF TypeInv, RunDelete, Runner, At, Opt, Good
<1>2. Unseen(j)' = Unseen(j)
  BY <1>1, SameUnseen
<1>3. ASSUME Tracked(j) PROVE Seen(jobs[j], NextFile(j), Unseen(j))
  <2>1. Seen(jobs[j], run[j], Unseen(j))
    BY <1>3 DEF VisitInv
  <2>2. Unseen(j) \subseteq Unseen(j) \ {Current(j)}
    BY <1>1, <2>1 DEF Seen, Current
  <2>3. /\ NextFile(j).pc = "copy" /\ NextFile(j).todo = run[j].todo \ {Current(j)}
        /\ NextFile(j).cursor = run[j].cursor /\ NextFile(j).last = run[j].last
        /\ NextFile(j).full = run[j].full
    BY <1>1, NextFileIs
  <2> QED BY <1>1, <2>1, <2>2, <2>3, NextSeen
<1> QED BY <1>1, <1>2, <1>3, VisitStep DEF Tracked, Opt

LEMMA BatchVisit ==
  ASSUME TypeInv, VisitInv, NEW j \in Jobs, RunBatch(j)
  PROVE  VisitInv'
<1> DEFINE q == Persisted(jobs[j], "running", Passed(j), run[j].scanned)
           r == Turned(j)
<1>1. /\ JobsGood /\ Runner(j) /\ run[j] \in RunRecords
  BY JobAt DEF TypeInv, Runner
<1>2. /\ jobs' = [jobs EXCEPT ![j] = q] /\ q.opt = Opt(j)
      /\ IF jobs[j].status \in Active
           THEN q.status = "running" /\ q.cursor = Passed(j)
           ELSE q = jobs[j]
      /\ run' = [run EXCEPT ![j] = r]
      /\ jobs[j].status \in {"pending", "running", "cancelled"}
      /\ run[j].pc \in {"batch", "copy"} /\ (run[j].pc = "copy" => run[j].todo = {})
      /\ r.cursor = Passed(j)
      /\ r.pc = IF jobs[j].status \notin Active \/ At(j, "batch") THEN "cancelled"
           ELSE IF LimitReached(j, run[j].scanned) \/ ~run[j].full THEN "done"
           ELSE "loop"
  BY <1>1, BatchCases
<1> HIDE DEF q, r
<1>3. Unseen(j)' = Unseen(j)
  <2>1. Opt(j)' = Opt(j)
    BY <1>1, <1>2 DEF Opt, JobsGood
  <2> QED BY <2>1, SameUnseen DEF RunBatch
<1>4. ASSUME q.status \notin {"none", "cancelled"}, q.opt.limit = 0 PROVE Seen(q, r, Unseen(j))
  <2>1. jobs[j].status \in Active /\ Tracked(j)
    BY <1>2, <1>4 DEF Active, Tracked
  <2>2. Seen(jobs[j], run[j], Unseen(j))
    BY <2>1 DEF VisitInv
  <2>3. \A f \in Unseen(j) : f > run[j].cursor
    BY <1>2, <2>2 DEF Seen
  <2>4. ASSUME NEW f \in Unseen(j) PROVE f > Passed(j) /\ (At(j, "batch") \/ run[j].full)
    <3>1. CASE run[j].pc = "copy"
      BY <1>2, <2>2, <2>3, <3>1 DEF Seen, Passed
    <3>2. CASE run[j].pc = "batch"
      BY <2>2, <2>3, <3>2 DEF Seen, Passed, At
    <3> QED BY <1>2, <3>1, <3>2
  <2>5. r.pc = "done" => Unseen(j) = {}
    BY <1>2, <1>4, <2>1, <2>4 DEF LimitReached
  <2>6. q.cursor <= r.cursor
    <3>1. Passed(j) \in Nat
      BY <1>1, FilesAreNat DEF Passed, RunRecords
    <3> QED BY <1>2, <2>1, <3>1
  <2>7. q.status = "running" /\ q.cursor = Passed(j) /\ r.pc \in {"cancelled", "done", "loop"}
    BY <1>2, <2>1
  <2> QED BY <1>2, <2>4, <2>5, <2>6, <2>7 DEF Seen
<1> QED BY <1>1, <1>2, <1>3, <1>4, VisitStep

LEMMA FinishVisit ==
  ASSUME TypeInv, VisitInv, NEW j \in Jobs, RunFinish(j)
  PROVE  VisitInv'
<1> DEFINE q == Persisted(jobs[j], run[j].pc, run[j].cursor, run[j].scanned)
<1>1. /\ JobsGood /\ Runner(j)
  BY DEF TypeInv, Runner
<1>2. /\ jobs' = [jobs EXCEPT ![j] = q] /\ q.opt = Opt(j)
      /\ IF jobs[j].status \in Active
           THEN q.status = run[j].pc /\ q.cursor = run[j].cursor
           ELSE q = jobs[j]
      /\ run' = [run EXCEPT ![j] = NoRun]
      /\ jobs[j].status \in {"pending", "running", "cancelled"}
      /\ run[j].pc \in {"done", "failed", "cancelled"}
  BY <1>1, FinishCases
<1> HIDE DEF q
<1>3. Unseen(j)' = Unseen(j)
  <2>1. Opt(j)' = Opt(j)
    BY <1>1, <1>2 DEF Opt, JobsGood
  <2> QED BY <2>1, SameUnseen DEF RunFinish
<1>4. ASSUME q.status \notin {"none", "cancelled"}, q.opt.limit = 0 PROVE Seen(q, NoRun, Unseen(j))
  <2>1. jobs[j].status \in Active /\ Tracked(j)
    BY <1>2, <1>4 DEF Active, Tracked
  <2>2. Seen(jobs[j], run[j], Unseen(j))
    BY <2>1 DEF VisitInv
  <2> QED BY <1>2, <2>1, <2>2, NoRunIs DEF Seen
<1> QED BY <1>1, <1>2, <1>3, <1>4, VisitStep

LEMMA RunnerVisit ==
  ASSUME TypeInv, VisitInv, NEW j \in Jobs, Runner(j)
  PROVE  VisitInv'
<1>1. CASE RunLeave(j)
  <2>1. UNCHANGED <<files, jobs, run, missed>>
    BY <1>1 DEF RunLeave
  <2> QED BY <2>1 DEF VisitInv, Tracked, Opt, Unseen
<1> QED BY <1>1, LoadVisit, BeginVisit, LoopVisit, CopyVisit, UpdateVisit, DeleteVisit, BatchVisit,
           FinishVisit DEF Runner

\* A step that starts no goroutine's work: rows and excuses as before.
LEMMA AdminVisit ==
  ASSUME TypeInv, VisitInv, NEW j \in Jobs,
         StartMigrateJob(j) \/ CancelMigrateJob(j) \/ ResumeMigrateJob(j)
  PROVE  VisitInv'
<1>1. JobsGood /\ run[j] \in RunRecords /\ jobs[j] \in JobRecords /\ files' = files
      /\ missed \in [Jobs -> SUBSET Files]
  BY JobAt DEF TypeInv, StartMigrateJob, CancelMigrateJob, ResumeMigrateJob, RestTyped
<1>2. ASSUME NEW k \in Jobs \ {j}
      PROVE  Tracked(k)' => Seen(jobs[k], run[k], Unseen(k))'
  <2>1. jobs'[k] = jobs[k] /\ run'[k] = run[k] /\ missed'[k] = missed[k] /\ Opt(k)' = Opt(k)
    BY <1>1 DEF StartMigrateJob, CancelMigrateJob, ResumeMigrateJob, Goto, JobsGood, Opt
  <2>2. Unseen(k)' \subseteq Unseen(k)
    BY <1>1, <2>1 DEF Unseen
  <2> QED BY <2>1, <2>2, VisitSame
<1>3. Tracked(j)' => Seen(jobs[j], run[j], Unseen(j))'
  <2>1. CASE StartMigrateJob(j)
    <3>1. PICK o \in Options : jobs' = [jobs EXCEPT ![j] = [NoJob EXCEPT !.status = "pending", !.opt = o]]
      BY <2>1 DEF StartMigrateJob
    <3>2. /\ jobs'[j] = [NoJob EXCEPT !.status = "pending", !.opt = o] /\ run'[j].pc = "load"
      BY <1>1, <2>1, <3>1 DEF StartMigrateJob, Goto, JobsGood, RunRecords
    <3>3. jobs'[j].status = "pending" /\ jobs'[j].cursor = 0 /\ jobs'[j].opt = o
      BY <3>2 DEF NoJob
    <3>4. \A f \in Unseen(j)' : f > 0
      <4>1. o.only \subseteq Files
        BY OptionTypes
      <4>2. \A f \in Files : f > 0
        BY FilesAreNat DEF Files
      <4> QED BY <3>3, <4>1, <4>2 DEF Unseen, Opt
    <3> QED BY <3>2, <3>3, <3>4 DEF Seen
  <2>2. CASE CancelMigrateJob(j)
    <3>1. jobs'[j].status = "cancelled"
      BY <1>1, <2>2 DEF CancelMigrateJob, JobsGood, JobRecords
    <3> QED BY <3>1 DEF Tracked
  <2>3. CASE ResumeMigrateJob(j)
    <3>1. /\ jobs'[j].status = "pending" /\ jobs'[j].cursor = jobs[j].cursor
          /\ jobs'[j].opt = jobs[j].opt /\ run'[j].pc = "load" /\ missed' = missed
          /\ jobs[j].status = "failed"
      BY <1>1, <2>3 DEF ResumeMigrateJob, JobsGood, JobRecords, RunRecords, Goto
    <3>2. Unseen(j)' = Unseen(j) /\ (Tracked(j)' => Tracked(j))
      BY <1>1, <3>1 DEF Unseen, Opt, Tracked
    <3> QED BY <3>1, <3>2 DEF VisitInv, Seen
  <2> QED BY <2>1, <2>2, <2>3
<1> QED BY <1>2, <1>3 DEF VisitInv

LEMMA StepVisit ==
  ASSUME TypeInv, VisitInv, [Next]_vars
  PROVE  VisitInv'
<1>1. ASSUME UNCHANGED <<jobs, run>>, \A k \in Jobs : Tracked(k) => Unseen(k)' \subseteq Unseen(k)
      PROVE  VisitInv'
  BY <1>1, VisitSame DEF VisitInv
<1>2. CASE Crash
  <2>1. /\ UNCHANGED <<files, jobs, missed>>
        /\ \A k \in Jobs : run'[k].pc \in {"load", "none"}
    BY <1>2 DEF Crash, NoRun
  <2>2. ASSUME NEW k \in Jobs PROVE Tracked(k)' => Seen(jobs[k], run[k], Unseen(k))'
    <3>1. Tracked(k)' => Tracked(k) /\ Unseen(k)' = Unseen(k)
      BY <2>1 DEF Tracked, Unseen, Opt
    <3> QED BY <2>1, <3>1 DEF Seen, VisitInv
  <2> QED BY <2>2 DEF VisitInv
<1>3. CASE Upload
  <2>1. PICK p \in Policies : files' = [files EXCEPT ![next] = p]
    BY <1>3 DEF Upload
  <2>2. /\ jobs' = jobs /\ run' = run /\ next \in Files /\ files \in [Files -> Policies \cup {None}]
        /\ missed' = [j \in Jobs |-> IF Tracked(j) THEN missed[j] \cup {next} ELSE {}]
    BY <1>3, UploadType DEF Upload, TypeInv, RestTyped
  <2>3. ASSUME NEW k \in Jobs, Tracked(k) PROVE Unseen(k)' \subseteq Unseen(k)
    <3>1. missed'[k] = missed[k] \cup {next} /\ Opt(k)' = Opt(k)
      BY <2>2, <2>3 DEF Opt
    <3>2. \A f \in Files \ {next} : files'[f] = files[f]
      BY <2>1, <2>2
    <3>3. Opt(k).only \subseteq Files
      BY <2>3, TrackedIs
    <3> QED BY <3>1, <3>2, <3>3 DEF Unseen
  <2> QED BY <1>1, <2>2, <2>3
<1>4. ASSUME NEW g \in Files, Purge(g) PROVE VisitInv'
  <2>1. /\ jobs' = jobs /\ run' = run /\ files \in [Files -> Policies \cup {None}]
        /\ files' = [files EXCEPT ![g] = None]
        /\ missed' = [j \in Jobs |-> missed[j] \ {g}]
    BY <1>4 DEF Purge, TypeInv, RestTyped
  <2>2. ASSUME NEW k \in Jobs, Tracked(k) PROVE Unseen(k)' \subseteq Unseen(k)
    <3>1. missed'[k] = missed[k] \ {g} /\ Opt(k)' = Opt(k) /\ files'[g] = None
      BY <2>1 DEF Opt
    <3>2. \A f \in Files \ {g} : files'[f] = files[f]
      BY <2>1
    <3>3. Opt(k).only \subseteq Files /\ Opt(k).from # None
      BY <2>2, TrackedIs
    <3> QED BY <3>1, <3>2, <3>3 DEF Unseen
  <2> QED BY <1>1, <2>1, <2>2
<1>5. ASSUME UNCHANGED <<files, jobs, run, missed>> PROVE VisitInv'
  BY <1>5 DEF VisitInv, Tracked, Opt, Unseen
<1>6. ASSUME NEW p \in Policies, UpdatePolicy(p) \/ DeletePolicy(p) PROVE VisitInv'
  BY <1>5, <1>6 DEF UpdatePolicy, DeletePolicy
<1>7. CASE UNCHANGED vars
  BY <1>5, <1>7 DEF vars
<1> QED BY <1>2, <1>3, <1>4, <1>6, <1>7, RunnerVisit, AdminVisit DEF Next

\* A finished job without a limit has gone over its whole source, through any
\* crashes, failures and resumes: what it leaves there was skipped, failed or
\* came while it ran.
THEOREM DoneHasVisited == Spec => []DoneMeansVisited
<1>1. Init => VisitInv
  BY DEF Init, VisitInv, Tracked, NoJob
<1>2. TypeInv /\ VisitInv /\ [Next]_vars => VisitInv'
  BY StepVisit
<1>3. VisitInv => DoneMeansVisited
  <2> SUFFICES ASSUME VisitInv, NEW j \in Jobs, jobs[j].status = "done", Opt(j).limit = 0,
                      NEW f \in Opt(j).only, files[f] = Opt(j).from
               PROVE  f \in missed[j]
    BY DEF DoneMeansVisited
  <2>1. Unseen(j) = {}
    BY DEF VisitInv, Tracked, Seen
  <2> QED BY <2>1 DEF Unseen
<1> QED BY <1>1, <1>2, <1>3, MigrationTypes, PTL DEF Spec

=============================================================================
