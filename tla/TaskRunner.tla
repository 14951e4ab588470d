----------------------------- MODULE TaskRunner -----------------------------
(***************************************************************************)
(* The task table and the worker pool that executes it: Enqueue inserts a  *)
(* row and rings a one-slot channel, workers drain the table and then sleep *)
(* on the channel or for thirty seconds, a cleaner requeues rows that have *)
(* been running for fifteen minutes, and a start requeues every running    *)
(* row.  A worker keeps its own copy of the row while the handler runs, and *)
(* writes the result by primary key, whatever the row has become.          *)
(***************************************************************************)
EXTENDS Naturals, FiniteSets

CONSTANTS
  NumTasks,     \* rows, in the order of their ids
  Workers,      \* goroutines of the pool
  None,         \* "no task"
  MaxAttempts,  \* maxAttempts, 3 in the code
  Handled,      \* tasks whose type has a registered handler
  MaxFaults     \* bound on crashes, lost writes, failed claims and overruns

Tasks == 1..NumTasks

ASSUME TaskRunnerAssumption ==
  /\ NumTasks \in Nat
  /\ Workers # {} /\ IsFiniteSet(Workers)
  /\ None \notin Tasks
  /\ MaxAttempts \in Nat \ {0}
  /\ Handled \subseteq Tasks
  /\ MaxFaults \in Nat

VARIABLES
  status,    \* tasks.status, "absent" before the insertion
  attempts,  \* tasks.attempts
  old,       \* running rows not updated for fifteen minutes
  waking,    \* rows inserted by an Enqueue that has not rung yet
  wake,      \* the one-slot channel is full
  at,        \* where each worker stands
  task,      \* the task it works on
  seen,      \* attempts in its copy of the row
  ran,       \* history: tasks whose handler has returned without error
  overrun,   \* history: tasks that grew old under a worker's hands
  polled,    \* history: pending tasks that only the thirty-second poll will find
  errors,    \* history: failed executions recorded, by task
  late,      \* history: times the cleaner requeued the task
  faults     \* faults so far

rows == <<status, attempts, old>>
pool == <<at, task, seen>>
history == <<ran, overrun, polled, errors, late>>
vars == <<rows, waking, wake, pool, history, faults>>

Statuses == {"absent", "pending", "running", "done", "failed"}
Verdicts == {"succeeded", "erred", "unhandled"}

Init ==
  /\ status = [t \in Tasks |-> "absent"]
  /\ attempts = [t \in Tasks |-> 0]
  /\ old = {}
  /\ waking = {}
  /\ wake = FALSE
  /\ at = [w \in Workers |-> "drain"]
  /\ task = [w \in Workers |-> None]
  /\ seen = [w \in Workers |-> 0]
  /\ ran = {}
  /\ overrun = {}
  /\ polled = {}
  /\ errors = [t \in Tasks |-> 0]
  /\ late = [t \in Tasks |-> 0]
  /\ faults = 0

Due == {t \in Tasks : status[t] = "pending"}
Busy(w) == at[w] \in {"handle"} \cup Verdicts
Held(t) == \E w \in Workers : Busy(w) /\ task[w] = t

-----------------------------------------------------------------------------
(* Enqueue: the row, then the bell, which a full channel swallows.         *)

Enqueue(t) ==
  /\ status[t] = "absent"
  /\ \A s \in Tasks : s < t => status[s] # "absent"
  /\ status' = [status EXCEPT ![t] = "pending"]
  /\ waking' = waking \cup {t}
  /\ UNCHANGED <<attempts, old, wake, pool, history, faults>>

Ring(t) ==
  /\ t \in waking
  /\ waking' = waking \ {t}
  /\ wake' = TRUE
  /\ UNCHANGED <<rows, pool, history, faults>>

-----------------------------------------------------------------------------
(* drainOnce: claim the pending row with the least id, until there is none. *)

Claim(w) ==
  /\ at[w] = "drain"
  /\ \E t \in Due :
       /\ \A s \in Due : t <= s
       /\ status' = [status EXCEPT ![t] = "running"]
       /\ old' = old \ {t}
       /\ polled' = polled \ {t}
       /\ at' = [at EXCEPT ![w] = "handle"]
       /\ task' = [task EXCEPT ![w] = t]
       /\ seen' = [seen EXCEPT ![w] = attempts[t]]
  /\ UNCHANGED <<attempts, waking, wake, ran, overrun, errors, late, faults>>

Sleep(w) ==
  /\ at[w] = "drain"
  /\ Due = {}
  /\ at' = [at EXCEPT ![w] = "asleep"]
  /\ UNCHANGED <<rows, waking, wake, task, seen, history, faults>>

Awaken(w) ==
  /\ at[w] = "asleep"
  /\ wake
  /\ wake' = FALSE
  /\ at' = [at EXCEPT ![w] = "drain"]
  /\ UNCHANGED <<rows, waking, task, seen, history, faults>>

Poll(w) ==
  /\ at[w] = "asleep"
  /\ at' = [at EXCEPT ![w] = "drain"]
  /\ UNCHANGED <<rows, waking, wake, task, seen, history, faults>>

-----------------------------------------------------------------------------
(* run: the handler, then the record of its result.                        *)

\* The handler returns nil, or an error or a panic; a type without handler fails.
Handle(w) ==
  /\ at[w] = "handle"
  /\ \/ /\ task[w] \in Handled
        /\ at' = [at EXCEPT ![w] = "succeeded"]
        /\ ran' = ran \cup {task[w]}
     \/ /\ task[w] \in Handled
        /\ at' = [at EXCEPT ![w] = "erred"]
        /\ ran' = ran
     \/ /\ task[w] \notin Handled
        /\ at' = [at EXCEPT ![w] = "unhandled"]
        /\ ran' = ran
  /\ UNCHANGED <<rows, waking, wake, task, seen, overrun, polled, errors, late, faults>>

\* attempts >= maxAttempts, for the attempts counted from the worker's copy.
ExhaustedLate(n) == n > MaxAttempts
Exhausted(n) == n >= MaxAttempts

Outcome(w) ==
  CASE at[w] = "succeeded" -> "done"
    [] at[w] = "unhandled" -> "failed"
    [] OTHER -> IF Exhausted(seen[w] + 1) THEN "failed" ELSE "pending"

\* The loop of drainOnce goes on after a task; the faulty one would wait for a bell.
AfterTaskAsleep == "asleep"
AfterTask == "drain"

Free(w) ==
  /\ at' = [at EXCEPT ![w] = AfterTask]
  /\ task' = [task EXCEPT ![w] = None]
  /\ seen' = [seen EXCEPT ![w] = 0]

Record(w) ==
  /\ at[w] \in Verdicts
  /\ status' = [status EXCEPT ![task[w]] = Outcome(w)]
  /\ old' = old \ {task[w]}
  /\ IF at[w] = "erred"
     THEN /\ attempts' = [attempts EXCEPT ![task[w]] = seen[w] + 1]
          /\ errors' = [errors EXCEPT ![task[w]] = @ + 1]
     ELSE UNCHANGED <<attempts, errors>>
  /\ Free(w)
  /\ UNCHANGED <<waking, wake, ran, overrun, polled, late, faults>>

-----------------------------------------------------------------------------
(* The cleaner.                                                            *)

\* Fifteen minutes pass on a running row.  Nobody is at work on it, or its
\* execution is a long one.
Age(t) ==
  /\ status[t] = "running"
  /\ t \notin old
  /\ old' = old \cup {t}
  /\ IF Held(t)
     THEN /\ faults < MaxFaults
          /\ faults' = faults + 1
          /\ overrun' = overrun \cup {t}
     ELSE UNCHANGED <<faults, overrun>>
  /\ UNCHANGED <<status, attempts, waking, wake, pool, ran, polled, errors, late>>

\* status = 'running' AND updated_at < cutoff; the first variant forgets the
\* cutoff, the second the requeue.
StuckAnyAge(t) == status[t] = "running"
StuckNever(t) == FALSE
Stuck(t) == status[t] = "running" /\ t \in old

RequeueStuck ==
  LET S == {t \in Tasks : Stuck(t)} IN
  /\ S # {}
  /\ status' = [t \in Tasks |-> IF t \in S THEN "pending" ELSE status[t]]
  /\ late' = [t \in Tasks |-> IF t \in S THEN late[t] + 1 ELSE late[t]]
  /\ old' = old \ S
  /\ polled' = polled \cup S
  /\ UNCHANGED <<attempts, waking, wake, pool, ran, overrun, errors, faults>>

-----------------------------------------------------------------------------
(* Faults.                                                                 *)

\* The update that records a result fails, and its error is not looked at.
RecordLost(w) ==
  /\ at[w] \in Verdicts
  /\ faults < MaxFaults
  /\ faults' = faults + 1
  /\ Free(w)
  /\ UNCHANGED <<rows, waking, wake, history>>

\* A claim that fails counts as "no task": the worker goes to sleep.
ClaimFails(w) ==
  /\ at[w] = "drain"
  /\ Due # {}
  /\ faults < MaxFaults
  /\ faults' = faults + 1
  /\ at' = [at EXCEPT ![w] = "asleep"]
  /\ polled' = polled \cup Due
  /\ UNCHANGED <<rows, waking, wake, task, seen, ran, overrun, errors, late>>

\* The process dies and starts again: requeueAllRunning, then the pool.  If
\* requeueAllRunning itself fails, the rows are left to the cleaner.
Restart ==
  /\ faults < MaxFaults
  /\ faults' = faults + 1
  /\ \/ status' = [t \in Tasks |-> IF status[t] = "running" THEN "pending" ELSE status[t]]
     \/ status' = status
  /\ waking' = {}
  /\ wake' = FALSE
  /\ at' = [w \in Workers |-> "drain"]
  /\ task' = [w \in Workers |-> None]
  /\ seen' = [w \in Workers |-> 0]
  /\ polled' = {}
  /\ UNCHANGED <<attempts, old, ran, overrun, errors, late>>

-----------------------------------------------------------------------------

Work(w) == Claim(w) \/ Sleep(w) \/ Handle(w) \/ Record(w)

Next ==
  \/ \E t \in Tasks : Enqueue(t) \/ Ring(t) \/ Age(t)
  \/ \E w \in Workers : Work(w) \/ Awaken(w) \/ Poll(w)
  \/ RequeueStuck
  \/ \E w \in Workers : RecordLost(w) \/ ClaimFails(w)
  \/ Restart

Spec == Init /\ [][Next]_vars

\* Goroutines are scheduled, handlers return, tickers tick and time passes.
Fairness ==
  /\ \A w \in Workers : WF_vars(Work(w)) /\ WF_vars(Poll(w))
  /\ \A t \in Tasks : WF_vars(Age(t) /\ ~ Held(t))
  /\ WF_vars(RequeueStuck)

FairSpec == Spec /\ Fairness

-----------------------------------------------------------------------------
(* Properties.                                                             *)

\* Every variable has its type.
TypeOK ==
  /\ status \in [Tasks -> Statuses]
  /\ attempts \in [Tasks -> 0..MaxAttempts]
  /\ old \subseteq Tasks
  /\ waking \subseteq Tasks
  /\ wake \in BOOLEAN
  /\ at \in [Workers -> {"drain", "asleep", "handle"} \cup Verdicts]
  /\ task \in [Workers -> Tasks \cup {None}]
  /\ seen \in [Workers -> 0..MaxAttempts]
  /\ ran \subseteq Tasks
  /\ overrun \subseteq Tasks
  /\ polled \subseteq Tasks
  /\ errors \in [Tasks -> Nat]
  /\ late \in [Tasks -> Nat]
  /\ faults \in 0..MaxFaults

\* Two workers execute the same task at once only after one of them was taken
\* for stuck: neither claims, retries nor restarts hand a task out twice.
ExclusiveUnlessOverrun ==
  \A v, w \in Workers : v # w /\ Busy(v) /\ Busy(w) /\ task[v] = task[w] =>
                          task[v] \in overrun

\* A pending task never waits for the poll with the whole pool asleep and the
\* channel empty, except after a cleaner's requeue or a failed claim.
NoLostWakeup ==
  \A t \in Due \ (waking \cup polled) : wake \/ \E w \in Workers : at[w] # "asleep"

\* A task fails at most MaxAttempts times, and as often again for each time the
\* cleaner requeued it: late results that turn attempts back keep retries bounded.
RetriesBounded == \A t \in Tasks : errors[t] <= MaxAttempts * (1 + late[t])

\* The runner implements the queue: a settled task stays as it is, unless one of
\* its executions was taken for stuck, and is done only if its handler succeeded.
FateOf(s) == CASE s = "absent" -> "none"
               [] s \in {"pending", "running"} -> "due"
               [] OTHER -> s

Queue == INSTANCE TaskQueue WITH fate <- [t \in Tasks |-> FateOf(status[t])]

ImplementsQueue == Queue!Spec

\* Every task that is enqueued is done or abandoned in the end, through crashes,
\* lost records, failed claims and executions that are too long.
EveryTaskSettles ==
  \A t \in Tasks : status[t] = "pending" ~> status[t] \in {"done", "failed"}

=============================================================================
