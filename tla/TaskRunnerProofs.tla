--------------------------- MODULE TaskRunnerProofs ---------------------------
(***************************************************************************)
(* Theorems about TaskRunner, for any number of tasks, workers, attempts    *)
(* and faults: types, exclusive execution, no lost wakeup, and that the     *)
(* runner implements TaskQueue; and about Startup, for any number of       *)
(* starts and edits.                                                       *)
(***************************************************************************)
EXTENDS MCTaskRunner, Sequences, FiniteSetTheorems, TLAPS

-----------------------------------------------------------------------------
(* The inductive invariant.                                                *)

\* A row that may still be executed has attempts left, and so has every copy.
AttemptsLeft ==
  /\ \A t \in Tasks : status[t] \in {"absent", "pending", "running"} =>
                        attempts[t] < MaxAttempts
  /\ \A w \in Workers : seen[w] < MaxAttempts

\* A busy worker works on a row that is running, or was taken for stuck.
HandsOnRunning ==
  \A w \in Workers : Busy(w) =>
    /\ task[w] \in Tasks
    /\ status[task[w]] = "running" \/ task[w] \in overrun

\* The row of a busy worker is old only if it was taken for stuck.
OldIsOverrun ==
  \A w \in Workers : Busy(w) /\ task[w] \in old => task[w] \in overrun

\* A worker that is about to record a success has had one.
SuccessesRan ==
  \A w \in Workers : at[w] = "succeeded" => task[w] \in ran

RunnerInv ==
  /\ TypeOK
  /\ AttemptsLeft
  /\ HandsOnRunning
  /\ OldIsOverrun
  /\ ExclusiveUnlessOverrun
  /\ SuccessesRan

\* A start of the system.
LEMMA InitInv == Init => RunnerInv
<1> SUFFICES ASSUME Init PROVE RunnerInv
  OBVIOUS
<1>1. MaxAttempts \in Nat /\ 0 < MaxAttempts /\ MaxFaults \in Nat
  BY TaskRunnerAssumption DEF TaskRunnerAssumption
<1>2. TypeOK
  <2>1. /\ 0 \in 0..MaxAttempts /\ 0 \in 0..MaxFaults
        /\ "drain" \in {"drain", "asleep", "handle"} \cup Verdicts
        /\ None \in Tasks \cup {None}
    BY <1>1
  <2>2. /\ seen \in [Workers -> 0..MaxAttempts]
        /\ at \in [Workers -> {"drain", "asleep", "handle"} \cup Verdicts]
        /\ task \in [Workers -> Tasks \cup {None}]
        /\ attempts \in [Tasks -> 0..MaxAttempts]
    BY <2>1 DEF Init
  <2>3. /\ status \in [Tasks -> Statuses]
        /\ errors \in [Tasks -> Nat]
        /\ late \in [Tasks -> Nat]
    BY DEF Init, Statuses
  <2> QED BY <2>1, <2>2, <2>3 DEF Init, TypeOK
<1>3. AttemptsLeft
  BY <1>1 DEF Init, AttemptsLeft
<1>4. \A w \in Workers : ~ Busy(w) /\ at[w] # "succeeded"
  BY DEF Init, Busy, Verdicts
<1> QED BY <1>2, <1>3, <1>4 DEF RunnerInv, HandsOnRunning, OldIsOverrun,
                                ExclusiveUnlessOverrun, SuccessesRan

\* Enqueue inserts a row that no worker has yet.
LEMMA EnqueueInv ==
  ASSUME RunnerInv, NEW t \in Tasks, Enqueue(t)
  PROVE  RunnerInv'
<1>1. TypeOK'
  BY DEF RunnerInv, Enqueue, TypeOK, Statuses, pool, history
<1>2. AttemptsLeft'
  BY DEF RunnerInv, Enqueue, TypeOK, AttemptsLeft, pool
<1>3. HandsOnRunning' /\ OldIsOverrun' /\ ExclusiveUnlessOverrun' /\ SuccessesRan'
  BY DEF RunnerInv, Enqueue, TypeOK, HandsOnRunning, OldIsOverrun, ExclusiveUnlessOverrun,
         SuccessesRan, Busy, pool, history
<1> QED BY <1>1, <1>2, <1>3 DEF RunnerInv

\* Claiming: a pending row is in nobody's hands, unless it was taken for stuck.
LEMMA ClaimInv ==
  ASSUME RunnerInv, NEW w \in Workers, Claim(w)
  PROVE  RunnerInv'
<1> PICK t \in Due : /\ status' = [status EXCEPT ![t] = "running"]
                     /\ old' = old \ {t}
                     /\ polled' = polled \ {t}
                     /\ at' = [at EXCEPT ![w] = "handle"]
                     /\ task' = [task EXCEPT ![w] = t]
                     /\ seen' = [seen EXCEPT ![w] = attempts[t]]
  BY DEF Claim
<1> /\ t \in Tasks
    /\ status[t] = "pending"
  BY DEF Due
<1>1. TypeOK'
  BY DEF RunnerInv, Claim, TypeOK, Statuses
<1>2. AttemptsLeft'
  BY DEF RunnerInv, Claim, TypeOK, AttemptsLeft
<1>3. HandsOnRunning' /\ OldIsOverrun'
  BY DEF RunnerInv, Claim, TypeOK, HandsOnRunning, OldIsOverrun, Busy
<1>4. ExclusiveUnlessOverrun'
  BY DEF RunnerInv, Claim, TypeOK, HandsOnRunning, ExclusiveUnlessOverrun, Busy
<1>5. SuccessesRan'
  BY DEF RunnerInv, Claim, TypeOK, SuccessesRan
<1> QED BY <1>1, <1>2, <1>3, <1>4, <1>5 DEF RunnerInv

\* A worker that goes to sleep or gets up, or whose handler returns, keeps its hands.
LEMMA MoveInv ==
  ASSUME RunnerInv, NEW w \in Workers,
         Sleep(w) \/ Awaken(w) \/ Poll(w) \/ ClaimFails(w) \/ Handle(w)
  PROVE  RunnerInv'
<1>1. CASE Sleep(w) \/ Awaken(w) \/ Poll(w) \/ ClaimFails(w)
  <2>1. /\ at' \in [Workers -> {"drain", "asleep", "handle"} \cup Verdicts]
        /\ \A v \in Workers : Busy(v)' => Busy(v)
        /\ \A v \in Workers : (at[v] = "succeeded")' => at[v] = "succeeded"
    BY <1>1 DEF Sleep, Awaken, Poll, ClaimFails, RunnerInv, TypeOK, Busy, Verdicts
  <2>2. wake' \in BOOLEAN /\ polled' \subseteq Tasks /\ faults' \in 0..MaxFaults
    <3>1. CASE Sleep(w) \/ Awaken(w) \/ Poll(w)
      BY <3>1 DEF Sleep, Awaken, Poll, RunnerInv, TypeOK, history
    <3>2. CASE ClaimFails(w)
      <4>1. MaxFaults \in Nat
        BY TaskRunnerAssumption DEF TaskRunnerAssumption
      <4> QED BY <3>2, <4>1 DEF ClaimFails, RunnerInv, TypeOK, Due
    <3> QED BY <1>1, <3>1, <3>2
  <2>3. UNCHANGED <<status, attempts, old, waking, task, seen, ran, overrun, errors, late>>
    BY <1>1 DEF Sleep, Awaken, Poll, ClaimFails, rows, history
  <2> QED BY <2>1, <2>2, <2>3 DEF RunnerInv, TypeOK, AttemptsLeft, HandsOnRunning,
                                  OldIsOverrun, ExclusiveUnlessOverrun, SuccessesRan, Busy
<1>2. CASE Handle(w)
  <2>1. /\ at' \in [Workers -> {"drain", "asleep", "handle"} \cup Verdicts]
        /\ ran' \subseteq Tasks
        /\ \A v \in Workers : Busy(v)' => Busy(v)
        /\ \A v \in Workers : (at[v] = "succeeded")' => task[v] \in ran'
    BY <1>2 DEF Handle, RunnerInv, TypeOK, HandsOnRunning, SuccessesRan, Busy, Verdicts
  <2>2. UNCHANGED <<status, attempts, old, waking, wake, task, seen, overrun, polled, errors,
                    late, faults>>
    BY <1>2 DEF Handle, rows
  <2> QED BY <2>1, <2>2 DEF RunnerInv, TypeOK, AttemptsLeft, HandsOnRunning, OldIsOverrun,
                            ExclusiveUnlessOverrun, SuccessesRan, Busy
<1> QED BY <1>1, <1>2

\* A worker that has let go of its task.
LEMMA FreeInv ==
  ASSUME RunnerInv, NEW w \in Workers, Free(w)
  PROVE  /\ at' \in [Workers -> {"drain", "asleep", "handle"} \cup Verdicts]
         /\ task' \in [Workers -> Tasks \cup {None}]
         /\ seen' \in [Workers -> 0..MaxAttempts]
         /\ \A v \in Workers : seen'[v] < MaxAttempts
         /\ \A v \in Workers : Busy(v)' => v # w /\ Busy(v) /\ task'[v] = task[v]
         /\ \A v \in Workers : v # w => at'[v] = at[v] /\ task'[v] = task[v]
         /\ at'[w] = "drain"
BY TaskRunnerAssumption
   DEF TaskRunnerAssumption, Free, AfterTask, RunnerInv, TypeOK, AttemptsLeft, Busy, Verdicts

\* Recording a result: a row that another worker has in its hands was taken for stuck.
LEMMA RecordInv ==
  ASSUME RunnerInv, NEW w \in Workers, Record(w)
  PROVE  RunnerInv'
<1> DEFINE t == task[w]
<1>1. t \in Tasks /\ Busy(w) /\ Free(w)
  BY DEF Record, RunnerInv, HandsOnRunning, Busy
<1>2. /\ Outcome(w) \in {"done", "failed", "pending"}
      /\ Outcome(w) = "pending" => at[w] = "erred" /\ seen[w] + 1 < MaxAttempts
  <2>1. seen[w] \in Nat /\ MaxAttempts \in Nat
    BY TaskRunnerAssumption DEF TaskRunnerAssumption, RunnerInv, TypeOK
  <2>2. at[w] \in {"succeeded", "erred", "unhandled"}
    BY DEF Record, Verdicts
  <2> QED BY <2>1, <2>2 DEF Outcome, Exhausted
<1>3. /\ status' = [status EXCEPT ![t] = Outcome(w)]
      /\ old' = old \ {t}
      /\ UNCHANGED <<waking, wake, ran, overrun, polled, late, faults>>
      /\ \/ at[w] = "erred" /\ attempts' = [attempts EXCEPT ![t] = seen[w] + 1]
                            /\ errors' = [errors EXCEPT ![t] = @ + 1]
         \/ at[w] # "erred" /\ UNCHANGED <<attempts, errors>>
  BY DEF Record
<1>4. seen[w] \in Nat /\ seen[w] < MaxAttempts /\ MaxAttempts \in Nat
  BY TaskRunnerAssumption DEF TaskRunnerAssumption, RunnerInv, TypeOK, AttemptsLeft
<1> HIDE DEF t
<1>5. TypeOK'
  BY <1>1, <1>2, <1>3, <1>4, FreeInv DEF RunnerInv, TypeOK, Statuses
<1>6. AttemptsLeft'
  <2>1. \A s \in Tasks : status'[s] \in {"absent", "pending", "running"} =>
                           attempts'[s] < MaxAttempts
    BY <1>1, <1>2, <1>3, <1>4 DEF RunnerInv, TypeOK, AttemptsLeft
  <2> QED BY <1>1, <2>1, FreeInv DEF AttemptsLeft
<1>7. HandsOnRunning' /\ OldIsOverrun'
  BY <1>1, <1>3, FreeInv DEF t, RunnerInv, TypeOK, HandsOnRunning, OldIsOverrun,
                             ExclusiveUnlessOverrun
<1>8. ExclusiveUnlessOverrun'
  BY <1>1, <1>3, FreeInv DEF RunnerInv, ExclusiveUnlessOverrun
<1>9. SuccessesRan'
  BY <1>1, <1>3, FreeInv DEF RunnerInv, SuccessesRan
<1> QED BY <1>5, <1>6, <1>7, <1>8, <1>9 DEF RunnerInv

\* A result that is not recorded leaves the row running, in nobody's hands.
LEMMA RecordLostInv ==
  ASSUME RunnerInv, NEW w \in Workers, RecordLost(w)
  PROVE  RunnerInv'
<1>1. Free(w) /\ UNCHANGED <<status, attempts, old, waking, wake, ran, overrun, polled, errors,
                             late>>
  BY DEF RecordLost, rows, history
<1>2. faults' \in 0..MaxFaults
  BY TaskRunnerAssumption DEF TaskRunnerAssumption, RecordLost, RunnerInv, TypeOK
<1>3. TypeOK'
  BY <1>1, <1>2, FreeInv DEF RunnerInv, TypeOK
<1>4. AttemptsLeft'
  BY <1>1, FreeInv DEF RunnerInv, AttemptsLeft
<1>5. HandsOnRunning' /\ OldIsOverrun' /\ ExclusiveUnlessOverrun' /\ SuccessesRan'
  BY <1>1, FreeInv DEF RunnerInv, HandsOnRunning, OldIsOverrun, ExclusiveUnlessOverrun,
                       SuccessesRan
<1> QED BY <1>3, <1>4, <1>5 DEF RunnerInv

\* The cleaner only takes rows away from workers that were too long at them.
LEMMA CleanerInv ==
  ASSUME RunnerInv, RequeueStuck \/ \E t \in Tasks : Age(t)
  PROVE  RunnerInv'
<1>1. CASE RequeueStuck
  <2> DEFINE stuck == {t \in Tasks : Stuck(t)}
  <2>1. /\ status' = [t \in Tasks |-> IF t \in stuck THEN "pending" ELSE status[t]]
        /\ late' = [t \in Tasks |-> IF t \in stuck THEN late[t] + 1 ELSE late[t]]
        /\ old' = old \ stuck
        /\ polled' = polled \cup stuck
        /\ UNCHANGED <<attempts, waking, wake, at, task, seen, ran, overrun, errors, faults>>
    BY <1>1 DEF RequeueStuck, pool
  <2>2. \A t \in stuck : t \in Tasks /\ status[t] = "running" /\ t \in old
    BY DEF Stuck
  <2> HIDE DEF stuck
  <2>3. TypeOK'
    BY <2>1, <2>2 DEF RunnerInv, TypeOK, Statuses
  <2>4. AttemptsLeft'
    BY <2>1, <2>2 DEF RunnerInv, TypeOK, AttemptsLeft
  <2>5. HandsOnRunning' /\ OldIsOverrun'
    BY <2>1, <2>2 DEF RunnerInv, TypeOK, HandsOnRunning, OldIsOverrun, Busy
  <2>6. ExclusiveUnlessOverrun' /\ SuccessesRan'
    BY <2>1 DEF RunnerInv, ExclusiveUnlessOverrun, SuccessesRan, Busy
  <2> QED BY <2>3, <2>4, <2>5, <2>6 DEF RunnerInv
<1>2. ASSUME NEW t \in Tasks, Age(t)
      PROVE  RunnerInv'
  <2>1. /\ old' = old \cup {t}
        /\ \/ Held(t) /\ overrun' = overrun \cup {t}
           \/ ~ Held(t) /\ overrun' = overrun
        /\ faults' \in 0..MaxFaults
        /\ UNCHANGED <<status, attempts, waking, wake, at, task, seen, ran, polled, errors, late>>
    BY <1>2, TaskRunnerAssumption DEF TaskRunnerAssumption, Age, RunnerInv, TypeOK, pool
  <2>2. TypeOK' /\ AttemptsLeft' /\ SuccessesRan'
    BY <2>1 DEF RunnerInv, TypeOK, AttemptsLeft, SuccessesRan
  <2>3. HandsOnRunning' /\ ExclusiveUnlessOverrun'
    BY <2>1 DEF RunnerInv, HandsOnRunning, ExclusiveUnlessOverrun, Busy
  <2>4. OldIsOverrun'
    BY <2>1 DEF RunnerInv, OldIsOverrun, Busy, Held
  <2> QED BY <2>2, <2>3, <2>4 DEF RunnerInv
<1> QED BY <1>1, <1>2

\* After a restart no worker has anything in hand.
LEMMA RestartInv ==
  ASSUME RunnerInv, Restart
  PROVE  RunnerInv'
<1>1. /\ \A w \in Workers : ~ Busy(w)' /\ at'[w] # "succeeded"
      /\ \A w \in Workers : seen'[w] < MaxAttempts
  BY TaskRunnerAssumption DEF TaskRunnerAssumption, Restart, Busy, Verdicts
<1>2. TypeOK'
  <2>1. MaxAttempts \in Nat /\ MaxFaults \in Nat
    BY TaskRunnerAssumption DEF TaskRunnerAssumption
  <2>2. status' \in [Tasks -> Statuses]
    BY DEF Restart, RunnerInv, TypeOK, Statuses
  <2>3. /\ at' \in [Workers -> {"drain", "asleep", "handle"} \cup Verdicts]
        /\ task' \in [Workers -> Tasks \cup {None}]
        /\ seen' \in [Workers -> 0..MaxAttempts]
        /\ faults' \in 0..MaxFaults
    BY <2>1 DEF Restart, RunnerInv, TypeOK
  <2> QED BY <2>2, <2>3 DEF Restart, RunnerInv, TypeOK
<1>3. AttemptsLeft'
  BY <1>1 DEF Restart, RunnerInv, TypeOK, AttemptsLeft
<1> QED BY <1>1, <1>2, <1>3 DEF RunnerInv, HandsOnRunning, OldIsOverrun,
                                ExclusiveUnlessOverrun, SuccessesRan

LEMMA NextInv == RunnerInv /\ [Next]_vars => RunnerInv'
<1> SUFFICES ASSUME RunnerInv, [Next]_vars PROVE RunnerInv'
  OBVIOUS
<1>1. ASSUME NEW t \in Tasks, Ring(t) PROVE RunnerInv'
  BY <1>1 DEF Ring, RunnerInv, TypeOK, AttemptsLeft, HandsOnRunning, OldIsOverrun,
              ExclusiveUnlessOverrun, SuccessesRan, Busy, rows, pool, history
<1>2. CASE UNCHANGED vars
  BY <1>2 DEF RunnerInv, TypeOK, AttemptsLeft, HandsOnRunning, OldIsOverrun,
              ExclusiveUnlessOverrun, SuccessesRan, Busy, vars, rows, pool, history
<1> QED BY <1>1, <1>2, EnqueueInv, ClaimInv, MoveInv, RecordInv, RecordLostInv, CleanerInv,
           RestartInv DEF Next, Work

\* In every execution the runner's invariant holds, whatever late results, lost
\* records and restarts come together.
THEOREM RunnerCorrect == Spec => []RunnerInv
BY InitInv, NextInv, PTL DEF Spec

\* Every variable keeps its type; in particular attempts never passes maxAttempts.
THEOREM RunnerTypes == Spec => []TypeOK
<1>1. RunnerInv => TypeOK
  BY DEF RunnerInv
<1> QED BY <1>1, RunnerCorrect, PTL

\* claim, retry, cleaner and restart never hand one task to two workers, unless
\* one of them was taken for stuck.
THEOREM ExclusiveExecution == Spec => []ExclusiveUnlessOverrun
<1>1. RunnerInv => ExclusiveUnlessOverrun
  BY DEF RunnerInv
<1> QED BY <1>1, RunnerCorrect, PTL

-----------------------------------------------------------------------------
(* The bell.                                                               *)

LEMMA NextWakeup == RunnerInv /\ NoLostWakeup /\ [Next]_vars => NoLostWakeup'
<1> SUFFICES ASSUME RunnerInv, NoLostWakeup, [Next]_vars PROVE NoLostWakeup'
  OBVIOUS
<1> USE DEF NoLostWakeup, Due
<1> DEFINE Awake == \E w \in Workers : at[w] # "asleep"
<1>1. ASSUME NEW w \in Workers, at'[w] # "asleep" PROVE NoLostWakeup'
  BY <1>1
<1>2. ASSUME NEW t \in Tasks, Enqueue(t) \/ Ring(t) \/ Age(t) PROVE NoLostWakeup'
  <2>1. CASE Enqueue(t)
    BY <2>1 DEF Enqueue, RunnerInv, TypeOK, pool, history
  <2>2. CASE Ring(t)
    BY <2>2 DEF Ring
  <2>3. CASE Age(t)
    BY <2>3 DEF Age, pool
  <2> QED BY <1>2, <2>1, <2>2, <2>3
<1>3. ASSUME NEW w \in Workers, Claim(w) \/ Awaken(w) \/ Poll(w) \/ Handle(w) \/ Free(w)
      PROVE  NoLostWakeup'
  <2>1. at'[w] # "asleep"
    BY <1>3 DEF Claim, Awaken, Poll, Handle, Free, AfterTask, RunnerInv, TypeOK
  <2> QED BY <1>1, <2>1
<1>4. ASSUME NEW w \in Workers, Sleep(w) \/ ClaimFails(w) PROVE NoLostWakeup'
  BY <1>4 DEF Sleep, ClaimFails, rows, history
<1>5. CASE RequeueStuck
  BY <1>5 DEF RequeueStuck, Stuck, pool
<1>6. CASE Restart
  BY <1>6, TaskRunnerAssumption DEF TaskRunnerAssumption, Restart
<1>7. CASE UNCHANGED vars
  BY <1>7 DEF vars, rows, pool, history
<1> QED BY <1>2, <1>3, <1>4, <1>5, <1>6, <1>7 DEF Next, Work, Record, RecordLost

\* Enqueue's insertion followed by its non-blocking send, and drainOnce's going on
\* until nothing is pending, never leave a task to the poll with everyone asleep.
THEOREM WakeupsReach == Spec => []NoLostWakeup
<1>1. Init => NoLostWakeup
  BY DEF Init, NoLostWakeup, Due
<1> QED BY <1>1, RunnerCorrect, NextWakeup, PTL DEF Spec

-----------------------------------------------------------------------------
(* The runner implements the queue.                                        *)

fate == [t \in Tasks |-> FateOf(status[t])]

\* A step that changes neither a fate nor a history is a stutter of the queue.
LEMMA Stutter ==
  ASSUME \A t \in Tasks : FateOf(status'[t]) = FateOf(status[t]),
         UNCHANGED <<ran, overrun>>
  PROVE  UNCHANGED Queue!vars
BY DEF Queue!vars

LEMMA RecordImplements ==
  ASSUME RunnerInv, NEW w \in Workers, Record(w)
  PROVE  [Queue!Next]_(Queue!vars)
<1> DEFINE t == task[w]
<1>1. /\ t \in Tasks
      /\ status[t] = "running" \/ t \in overrun
      /\ at[w] = "succeeded" => t \in ran
      /\ status' = [status EXCEPT ![t] = Outcome(w)]
      /\ UNCHANGED <<ran, overrun>>
  BY DEF Record, RunnerInv, HandsOnRunning, SuccessesRan, Busy
<1>2. /\ Outcome(w) \in {"done", "failed", "pending"}
      /\ Outcome(w) = "done" => at[w] = "succeeded"
  BY DEF Outcome, Record, Verdicts
<1>3. fate' = [fate EXCEPT ![t] = FateOf(Outcome(w))]
  BY <1>1 DEF fate, RunnerInv, TypeOK
<1>4. fate[t] = FateOf(status[t])
  BY <1>1 DEF fate
<1> HIDE DEF t
<1>5. CASE t \in overrun
  <2>1. Queue!Overwrite(t)
    BY <1>1, <1>2, <1>3, <1>5 DEF Queue!Overwrite, fate, FateOf
  <2> QED BY <1>1, <2>1 DEF Queue!Next
<1>6. CASE status[t] = "running"
  <2>1. fate[t] = "due"
    BY <1>4, <1>6 DEF FateOf
  <2>2. CASE Outcome(w) = "done"
    BY <1>1, <1>2, <1>3, <2>1, <2>2 DEF Queue!Next, Queue!Complete, fate, FateOf
  <2>3. CASE Outcome(w) = "failed"
    BY <1>1, <1>3, <2>1, <2>3 DEF Queue!Next, Queue!GiveUp, fate, FateOf
  <2>4. CASE Outcome(w) = "pending"
    <3>1. fate' = fate
      BY <1>1, <1>3, <2>1, <2>4 DEF fate, FateOf
    <3> QED BY <1>1, <3>1 DEF Queue!vars, fate
  <2> QED BY <1>2, <2>2, <2>3, <2>4
<1> QED BY <1>1, <1>5, <1>6

LEMMA StepImplements ==
  ASSUME RunnerInv, [Next]_vars
  PROVE  [Queue!Next]_(Queue!vars)
<1>1. ASSUME NEW t \in Tasks, Enqueue(t) PROVE [Queue!Next]_(Queue!vars)
  <2>1. Queue!Submit(t)
    BY <1>1 DEF Enqueue, Queue!Submit, FateOf, RunnerInv, TypeOK, history
  <2> QED BY <2>1 DEF Queue!Next
<1>2. ASSUME NEW t \in Tasks, Ring(t) PROVE [Queue!Next]_(Queue!vars)
  BY <1>2, Stutter DEF Ring, rows, history
<1>3. ASSUME NEW t \in Tasks, Age(t) PROVE [Queue!Next]_(Queue!vars)
  <2>1. CASE overrun' = overrun
    BY <1>3, <2>1, Stutter DEF Age
  <2>2. CASE overrun' = overrun \cup {t}
    <3>1. Queue!TakenForStuck(t)
      BY <1>3, <2>2 DEF Age, Queue!TakenForStuck, FateOf
    <3> QED BY <3>1 DEF Queue!Next
  <2> QED BY <1>3, <2>1, <2>2 DEF Age
<1>4. ASSUME NEW w \in Workers, Claim(w) PROVE [Queue!Next]_(Queue!vars)
  <2>1. \A t \in Tasks : FateOf(status'[t]) = FateOf(status[t])
    BY <1>4 DEF Claim, Due, FateOf, RunnerInv, TypeOK
  <2> QED BY <1>4, <2>1, Stutter DEF Claim
<1>5. ASSUME NEW w \in Workers, Sleep(w) \/ Awaken(w) \/ Poll(w) \/ RecordLost(w) \/ ClaimFails(w)
      PROVE  [Queue!Next]_(Queue!vars)
  BY <1>5, Stutter DEF Sleep, Awaken, Poll, RecordLost, ClaimFails, rows, history
<1>6. ASSUME NEW w \in Workers, Handle(w) PROVE [Queue!Next]_(Queue!vars)
  <2>1. CASE ran' = ran
    BY <1>6, <2>1, Stutter DEF Handle, rows
  <2>2. CASE ran' = ran \cup {task[w]}
    <3>1. task[w] \in Tasks /\ (status[task[w]] = "running" \/ task[w] \in overrun)
      BY <1>6 DEF Handle, RunnerInv, HandsOnRunning, Busy
    <3>2. Queue!Execute(task[w])
      BY <1>6, <2>2, <3>1 DEF Handle, Queue!Execute, FateOf, rows
    <3> QED BY <3>1, <3>2 DEF Queue!Next
  <2> QED BY <1>6, <2>1, <2>2 DEF Handle
<1>7. CASE RequeueStuck
  <2>1. \A t \in Tasks : FateOf(status'[t]) = FateOf(status[t])
    BY <1>7 DEF RequeueStuck, Stuck, FateOf
  <2> QED BY <1>7, <2>1, Stutter DEF RequeueStuck
<1>8. CASE Restart
  <2>1. \A t \in Tasks : FateOf(status'[t]) = FateOf(status[t])
    BY <1>8 DEF Restart, FateOf
  <2> QED BY <1>8, <2>1, Stutter DEF Restart
<1>9. CASE UNCHANGED vars
  BY <1>9, Stutter DEF vars, rows, history
<1> QED BY <1>1, <1>2, <1>3, <1>4, <1>5, <1>6, <1>7, <1>8, <1>9, RecordImplements
        DEF Next, Work

\* The runner implements the task queue: what enqueueDelete and enqueuePhysical
\* rely on holds for every size of pool and table.
THEOREM RunnerImplementsQueue == Spec => ImplementsQueue
<1>1. Init => Queue!Init
  BY DEF Init, Queue!Init, FateOf
<1> QED BY <1>1, RunnerCorrect, StepImplements, PTL DEF Spec, ImplementsQueue, Queue!Spec

-----------------------------------------------------------------------------
(* Retries.  Every execution in hand, and a row that is due, may still fail *)
(* as often as its copy of attempts is away from MaxAttempts.  These claims *)
(* on the future and the errors so far never pass what the cleaner granted. *)

Hands(t) == {w \in Workers : Busy(w) /\ task[w] = t}

\* The failures worker w may record when it starts from s attempts.
Block(w, s) == {w} \X ((s + 1) .. MaxAttempts)
Credit(t) == {c \in Workers \X (1 .. MaxAttempts) : c[1] \in Hands(t) /\ c[2] > seen[c[1]]}

\* The row is due, or running with nobody that claimed it as it is.
Loose(t) == \/ status[t] = "pending"
            \/ status[t] = "running" /\ \A w \in Hands(t) : seen[w] # attempts[t]
RowCredit(t) == IF Loose(t) THEN MaxAttempts - attempts[t] ELSE 0

\* What the cleaner grants.
Grant(t) == MaxAttempts * (1 + late[t])

InCredit(t) ==
  /\ errors[t] + Cardinality(Credit(t)) + RowCredit(t) <= Grant(t)
  /\ status[t] = "absent" => errors[t] = 0 /\ attempts[t] = 0 /\ Hands(t) = {}

RetryInv == \A t \in Tasks : InCredit(t)

Pairs == SUBSET (Workers \X (1 .. MaxAttempts))

LEMMA CreditCount ==
  ASSUME NEW A \in Pairs, NEW B \in Pairs
  PROVE  /\ IsFiniteSet(A) /\ Cardinality(A) \in Nat
         /\ B \subseteq A => Cardinality(B) <= Cardinality(A)
<1>1. 1 \in Int /\ MaxAttempts \in Int /\ IsFiniteSet(Workers)
  BY TaskRunnerAssumption DEF TaskRunnerAssumption
<1>2. IsFiniteSet(1 .. MaxAttempts)
  BY <1>1, FS_Interval, Zenon
<1>3. IsFiniteSet(Workers \X (1 .. MaxAttempts))
  BY <1>1, <1>2, FS_Product, Zenon
<1>4. IsFiniteSet(A)
  BY <1>3, FS_Subset DEF Pairs
<1> QED BY <1>4, FS_Subset, FS_CardinalityType

LEMMA BlockCount ==
  ASSUME NEW w \in Workers, NEW s \in 0 .. MaxAttempts
  PROVE  Block(w, s) \in Pairs /\ Cardinality(Block(w, s)) = MaxAttempts - s
<1>1. MaxAttempts \in Nat
  BY TaskRunnerAssumption DEF TaskRunnerAssumption
<1>2. IsFiniteSet((s + 1) .. MaxAttempts) /\ Cardinality((s + 1) .. MaxAttempts) = MaxAttempts - s
  <2>1. PICK a \in Int : a = s + 1 /\ MaxAttempts \in Int
    BY <1>1
  <2>2. /\ IsFiniteSet(a .. MaxAttempts)
        /\ Cardinality(a .. MaxAttempts) = IF a > MaxAttempts THEN 0 ELSE MaxAttempts - a + 1
    BY <2>1, FS_Interval, Zenon
  <2> QED BY <1>1, <2>1, <2>2
<1>3. IsFiniteSet({w}) /\ Cardinality({w}) = 1
  BY FS_Singleton
<1>4. Cardinality(Block(w, s)) = 1 * (MaxAttempts - s)
  <2>1. Cardinality({w} \X ((s + 1) .. MaxAttempts)) = Cardinality({w}) * Cardinality((s + 1) .. MaxAttempts)
    BY <1>2, <1>3, FS_Product, Zenon
  <2>2. Cardinality(Block(w, s)) = Cardinality({w}) * Cardinality((s + 1) .. MaxAttempts)
    BY <2>1, Zenon DEF Block
  <2> QED BY <1>2, <1>3, <2>2, Zenon
<1>5. Block(w, s) \in Pairs
  BY <1>1 DEF Block, Pairs
<1> QED BY <1>1, <1>4, <1>5

\* A block more, or a block less.
LEMMA CreditBlock ==
  ASSUME NEW A \in Pairs, NEW B \in Pairs, NEW w \in Workers, NEW s \in 0 .. MaxAttempts
  PROVE  /\ B \subseteq A \cup Block(w, s) => Cardinality(B) <= Cardinality(A) + (MaxAttempts - s)
         /\ Block(w, s) \subseteq A /\ B \subseteq A \ Block(w, s) =>
              Cardinality(B) + (MaxAttempts - s) <= Cardinality(A)
<1> DEFINE C == Block(w, s)
<1>1. MaxAttempts \in Nat /\ s \in Nat
  BY TaskRunnerAssumption DEF TaskRunnerAssumption
<1>2. C \in Pairs /\ Cardinality(C) = MaxAttempts - s
  BY BlockCount
<1> HIDE DEF C
<1>3. /\ IsFiniteSet(A) /\ IsFiniteSet(C) /\ Cardinality(A) \in Nat /\ Cardinality(B) \in Nat
      /\ Cardinality(C) \in Nat
  BY <1>2, CreditCount
<1>4. ASSUME B \subseteq A \cup C PROVE Cardinality(B) <= Cardinality(A) + (MaxAttempts - s)
  <2>1. A \cup C \in Pairs /\ A \cap C \in Pairs
    BY <1>2 DEF Pairs
  <2>2. Cardinality(A \cup C) = Cardinality(A) + Cardinality(C) - Cardinality(A \cap C)
    BY <1>3, FS_Union
  <2>3. Cardinality(A \cap C) \in Nat /\ Cardinality(A \cup C) \in Nat
    BY <2>1, CreditCount
  <2>4. Cardinality(B) <= Cardinality(A \cup C)
    BY <1>4, <2>1, CreditCount
  <2> QED BY <1>1, <1>2, <1>3, <2>2, <2>3, <2>4
<1>5. ASSUME C \subseteq A, B \subseteq A \ C PROVE Cardinality(B) + (MaxAttempts - s) <= Cardinality(A)
  <2>1. A \ C \in Pairs /\ A \cap C = C
    BY <1>5 DEF Pairs
  <2>2. Cardinality(A \ C) = Cardinality(A) - Cardinality(C)
    BY <1>3, <2>1, FS_Difference
  <2>3. Cardinality(B) <= Cardinality(A \ C) /\ Cardinality(A \ C) \in Nat
    BY <1>5, <2>1, CreditCount
  <2> QED BY <1>1, <1>2, <1>3, <2>2, <2>3
<1> QED BY <1>4, <1>5 DEF C

LEMMA CreditIs ==
  ASSUME RunnerInv, NEW t \in Tasks
  PROVE  /\ Credit(t) \in Pairs /\ Cardinality(Credit(t)) \in Nat
         /\ attempts[t] \in 0 .. MaxAttempts /\ errors[t] \in Nat /\ late[t] \in Nat
         /\ RowCredit(t) \in Nat /\ RowCredit(t) <= MaxAttempts
         /\ MaxAttempts \in Nat /\ MaxAttempts > 0
         /\ \A w \in Hands(t) : w \in Workers /\ seen[w] \in 0 .. MaxAttempts /\ seen[w] < MaxAttempts
                                  /\ Block(w, seen[w]) \subseteq Credit(t)
<1>1. MaxAttempts \in Nat /\ MaxAttempts > 0
  BY TaskRunnerAssumption DEF TaskRunnerAssumption
<1>2. Credit(t) \in Pairs
  BY DEF Credit, Pairs
<1>3. Cardinality(Credit(t)) \in Nat
  BY <1>2, CreditCount
<1>4. attempts[t] \in 0 .. MaxAttempts /\ errors[t] \in Nat /\ late[t] \in Nat
  BY DEF RunnerInv, TypeOK
<1>5. RowCredit(t) \in Nat /\ RowCredit(t) <= MaxAttempts
  BY <1>1, <1>4 DEF RowCredit
<1>6. ASSUME NEW w \in Hands(t)
      PROVE  /\ w \in Workers /\ seen[w] \in 0 .. MaxAttempts /\ seen[w] < MaxAttempts
             /\ Block(w, seen[w]) \subseteq Credit(t)
  <2>1. w \in Workers /\ seen[w] \in 0 .. MaxAttempts /\ seen[w] < MaxAttempts
    BY <1>6 DEF Hands, RunnerInv, TypeOK, AttemptsLeft
  <2>2. Block(w, seen[w]) \subseteq Credit(t)
    BY <1>1, <1>6, <2>1 DEF Block, Credit
  <2> QED BY <2>1, <2>2
<1> QED BY <1>1, <1>2, <1>3, <1>4, <1>5, <1>6

LEMMA GrantIs ==
  ASSUME NEW n \in Nat, MaxAttempts \in Nat
  PROVE  /\ MaxAttempts * (1 + n) \in Nat
         /\ MaxAttempts * (1 + n) >= MaxAttempts
         /\ MaxAttempts * (1 + (n + 1)) = MaxAttempts * (1 + n) + MaxAttempts
<1>1. MaxAttempts * (1 + n) = MaxAttempts + MaxAttempts * n /\ MaxAttempts * n \in Nat
  OBVIOUS
<1>2. MaxAttempts * (1 + (n + 1)) = MaxAttempts * (1 + n) + MaxAttempts
  OBVIOUS
<1> QED BY <1>1, <1>2

\* A step that leaves row, hands and errors of a task alone.
LEMMA SameCredit ==
  ASSUME NEW t \in Tasks, InCredit(t),
         Hands(t)' = Hands(t), \A w \in Hands(t) : seen'[w] = seen[w],
         status'[t] = status[t], attempts'[t] = attempts[t], errors'[t] = errors[t], late'[t] = late[t]
  PROVE  InCredit(t)'
<1>1. Credit(t)' = Credit(t)
  BY DEF Credit
<1>2. Loose(t)' <=> Loose(t)
  BY DEF Loose
<1> QED BY <1>1, <1>2 DEF InCredit, RowCredit, Grant

\* A worker lets go of its task, whatever becomes of the row.
LEMMA LetGo ==
  ASSUME RunnerInv, NEW w \in Workers, Busy(w), Free(w), NEW t \in Tasks
  PROVE  /\ Hands(t)' = Hands(t) \ {w}
         /\ \A v \in Hands(t) \ {w} : seen'[v] = seen[v]
         /\ task[w] # t => Hands(t)' = Hands(t)
         /\ task[w] = t => /\ w \in Hands(t)
                           /\ Cardinality(Credit(t)') + (MaxAttempts - seen[w]) <= Cardinality(Credit(t))
         /\ Credit(t)' \in Pairs /\ Cardinality(Credit(t)') \in Nat
<1>1. \A v \in Workers : v # w => at'[v] = at[v] /\ task'[v] = task[v] /\ seen'[v] = seen[v]
  BY DEF Free, RunnerInv, TypeOK
<1>2. at'[w] = "drain"
  BY FreeInv
<1>3. Hands(t)' = Hands(t) \ {w}
  BY <1>1, <1>2 DEF Hands, Busy, Verdicts
<1>4. \A v \in Hands(t) \ {w} : seen'[v] = seen[v]
  BY <1>1 DEF Hands
<1>5. task[w] # t => w \notin Hands(t)
  BY DEF Hands
<1>6. Credit(t) \in Pairs /\ Credit(t)' \in Pairs
  BY DEF Credit, Pairs
<1>7. ASSUME task[w] = t
      PROVE  /\ w \in Hands(t)
             /\ Cardinality(Credit(t)') + (MaxAttempts - seen[w]) <= Cardinality(Credit(t))
  <2>1. w \in Hands(t)
    BY <1>7 DEF Hands
  <2>2. Block(w, seen[w]) \subseteq Credit(t) /\ seen[w] \in 0 .. MaxAttempts
    BY <2>1, CreditIs
  <2>3. Credit(t)' \subseteq Credit(t) \ Block(w, seen[w])
    BY <1>3, <1>4 DEF Credit, Block
  <2> QED BY <1>6, <2>1, <2>2, <2>3, CreditBlock
<1>8. Cardinality(Credit(t)') \in Nat
  BY <1>6, CreditCount
<1> QED BY <1>3, <1>4, <1>5, <1>6, <1>7, <1>8

LEMMA CreditNext ==
  ASSUME RunnerInv', NEW t \in Tasks
  PROVE  /\ Credit(t)' \in Pairs /\ Cardinality(Credit(t)') \in Nat
         /\ attempts'[t] \in 0 .. MaxAttempts /\ errors'[t] \in Nat /\ late'[t] \in Nat
         /\ RowCredit(t)' \in Nat /\ RowCredit(t)' <= MaxAttempts - attempts'[t]
         /\ RowCredit(t)' <= MaxAttempts
<1>1. MaxAttempts \in Nat
  BY TaskRunnerAssumption DEF TaskRunnerAssumption
<1>2. Credit(t)' \in Pairs
  BY DEF Credit, Pairs
<1>3. Cardinality(Credit(t)') \in Nat
  BY <1>2, CreditCount
<1>4. attempts'[t] \in 0 .. MaxAttempts /\ errors'[t] \in Nat /\ late'[t] \in Nat
  BY DEF RunnerInv, TypeOK
<1>5. /\ RowCredit(t)' \in Nat /\ RowCredit(t)' <= MaxAttempts - attempts'[t]
      /\ RowCredit(t)' <= MaxAttempts
  BY <1>1, <1>4 DEF RowCredit
<1> QED BY <1>2, <1>3, <1>4, <1>5

\* Credit moves between the row, the hands and the errors of a task, and grows only
\* by what the cleaner grants.
LEMMA Moved ==
  ASSUME RunnerInv, RunnerInv', NEW t \in Tasks, InCredit(t), status'[t] # "absent",
         \/ /\ late'[t] = late[t]
            /\ errors'[t] + Cardinality(Credit(t)') + RowCredit(t)'
                 <= errors[t] + Cardinality(Credit(t)) + RowCredit(t)
         \/ /\ late'[t] = late[t] + 1
            /\ errors'[t] + Cardinality(Credit(t)')
                 <= errors[t] + Cardinality(Credit(t))
  PROVE  InCredit(t)'
<1>1. /\ Cardinality(Credit(t)) \in Nat /\ errors[t] \in Nat /\ late[t] \in Nat /\ RowCredit(t) \in Nat
      /\ MaxAttempts \in Nat
  BY CreditIs
<1>2. /\ Cardinality(Credit(t)') \in Nat /\ errors'[t] \in Nat /\ RowCredit(t)' \in Nat
      /\ RowCredit(t)' <= MaxAttempts
  BY CreditNext
<1>3. PICK n \in Nat : n = late[t]
  BY <1>1
<1>4. /\ Grant(t) = MaxAttempts * (1 + n) /\ MaxAttempts * (1 + n) \in Nat
      /\ MaxAttempts * (1 + (n + 1)) = MaxAttempts * (1 + n) + MaxAttempts
  BY <1>1, <1>3, GrantIs DEF Grant
<1>5. errors[t] + Cardinality(Credit(t)) + RowCredit(t) <= Grant(t) /\ Grant(t) \in Nat
  BY <1>4 DEF InCredit
<1>6. late'[t] = late[t] + 1 => Grant(t)' = Grant(t) + MaxAttempts
  <2>1. ASSUME late'[t] = late[t] + 1 PROVE Grant(t)' = MaxAttempts * (1 + (n + 1))
    BY <1>3, <2>1 DEF Grant
  <2> QED BY <1>4, <2>1
<1>7. late'[t] = late[t] => Grant(t)' = Grant(t)
  BY DEF Grant
<1>8. errors'[t] + Cardinality(Credit(t)') + RowCredit(t)' <= Grant(t)'
  BY <1>1, <1>2, <1>5, <1>6, <1>7
<1> QED BY <1>8 DEF InCredit

LEMMA EnqueueCredit ==
  ASSUME RunnerInv, RunnerInv', NEW s \in Tasks, Enqueue(s), NEW t \in Tasks, InCredit(t)
  PROVE  InCredit(t)'
<1>1. /\ status' = [status EXCEPT ![s] = "pending"]
      /\ UNCHANGED <<attempts, at, task, seen, errors, late>>
      /\ status[s] = "absent"
  BY DEF Enqueue, pool, history
<1>2. \A r \in Tasks : Hands(r)' = Hands(r) /\ Credit(r)' = Credit(r)
  BY <1>1 DEF Hands, Credit, Busy
<1>3. CASE t # s
  BY <1>1, <1>2, <1>3, SameCredit DEF RunnerInv, TypeOK
<1>4. CASE t = s
  <2>1. errors[t] = 0 /\ attempts[t] = 0 /\ Hands(t) = {}
    BY <1>1, <1>4 DEF InCredit
  <2>2. Credit(t) = {}
    BY <2>1 DEF Credit
  <2>3. Cardinality(Credit(t)') = 0
    BY <1>2, <2>2, FS_EmptySet
  <2>4. RowCredit(t)' <= MaxAttempts /\ RowCredit(t)' \in Nat
    BY CreditNext
  <2>5. late[t] \in Nat /\ MaxAttempts \in Nat
    BY CreditIs
  <2>6. MaxAttempts <= Grant(t) /\ Grant(t) \in Nat
    BY <2>5, GrantIs DEF Grant
  <2>7. Grant(t)' = Grant(t)
    BY <1>1 DEF Grant
  <2>8. errors'[t] + Cardinality(Credit(t)') + RowCredit(t)' <= Grant(t)'
    BY <1>1, <2>1, <2>3, <2>4, <2>5, <2>6, <2>7
  <2>9. status'[t] = "pending"
    BY <1>1, <1>4 DEF RunnerInv, TypeOK
  <2> QED BY <2>8, <2>9 DEF InCredit
<1> QED BY <1>3, <1>4

\* Claiming moves what the row may fail to the worker's hands.
LEMMA ClaimCredit ==
  ASSUME RunnerInv, RunnerInv', NEW w \in Workers, Claim(w), NEW t \in Tasks, InCredit(t)
  PROVE  InCredit(t)'
<1>1. PICK s \in Due : /\ status' = [status EXCEPT ![s] = "running"]
                       /\ at' = [at EXCEPT ![w] = "handle"]
                       /\ task' = [task EXCEPT ![w] = s]
                       /\ seen' = [seen EXCEPT ![w] = attempts[s]]
  BY DEF Claim
<1>2. /\ s \in Tasks /\ status[s] = "pending" /\ at[w] = "drain"
      /\ UNCHANGED <<attempts, errors, late>>
  BY DEF Due, Claim
<1>3. /\ \A v \in Workers : v # w => at'[v] = at[v] /\ task'[v] = task[v] /\ seen'[v] = seen[v]
      /\ at'[w] = "handle" /\ task'[w] = s /\ seen'[w] = attempts[s]
      /\ status'[s] = "running" /\ \A r \in Tasks : r # s => status'[r] = status[r]
  BY <1>1, <1>2 DEF RunnerInv, TypeOK
<1>4. \A r \in Tasks : w \notin Hands(r)
  BY <1>2 DEF Hands, Busy, Verdicts
<1>5. CASE t # s
  <2>1. Hands(t)' = Hands(t)
    BY <1>3, <1>4, <1>5 DEF Hands, Busy
  <2>2. \A v \in Hands(t) : seen'[v] = seen[v]
    BY <1>3, <1>4 DEF Hands
  <2> QED BY <1>2, <1>3, <1>5, <2>1, <2>2, SameCredit
<1>6. CASE t = s
  <2>1. Hands(t)' = Hands(t) \cup {w}
    BY <1>3, <1>4, <1>6 DEF Hands, Busy
  <2>2. \A v \in Hands(t) : seen'[v] = seen[v]
    BY <1>3, <1>4 DEF Hands
  <2>3. Credit(t)' \subseteq Credit(t) \cup Block(w, attempts[t])
    <3>1. \A c \in Workers \X (1 .. MaxAttempts) :
            c[1] = w /\ c[2] > attempts[t] => c \in Block(w, attempts[t])
      BY CreditIs DEF Block
    <3> QED BY <1>3, <1>6, <2>1, <2>2, <3>1 DEF Credit
  <2>4. /\ Credit(t) \in Pairs /\ Credit(t)' \in Pairs /\ attempts[t] \in 0 .. MaxAttempts
        /\ MaxAttempts \in Nat /\ errors[t] \in Nat /\ Cardinality(Credit(t)) \in Nat
        /\ Cardinality(Credit(t)') \in Nat
    BY CreditIs, CreditNext
  <2>5. Cardinality(Credit(t)') <= Cardinality(Credit(t)) + (MaxAttempts - attempts[t])
    BY <2>3, <2>4, CreditBlock
  <2>6. RowCredit(t) = MaxAttempts - attempts[t]
    BY <1>2, <1>6 DEF RowCredit, Loose
  <2>7. RowCredit(t)' = 0
    <3>1. ~ Loose(t)'
      BY <1>2, <1>3, <1>6, <2>1 DEF Loose
    <3> QED BY <3>1 DEF RowCredit
  <2>8. errors'[t] + Cardinality(Credit(t)') + RowCredit(t)'
          <= errors[t] + Cardinality(Credit(t)) + RowCredit(t)
    BY <1>2, <2>4, <2>5, <2>6, <2>7
  <2> QED BY <1>2, <1>3, <1>6, <2>8, Moved
<1> QED BY <1>5, <1>6

\* Recording a result: the failure is one that the worker's credit allowed, and the
\* row takes up what is left of it.
LEMMA RecordCredit ==
  ASSUME RunnerInv, RunnerInv', NEW w \in Workers, Record(w), NEW t \in Tasks, InCredit(t)
  PROVE  InCredit(t)'
<1>1. PICK s \in Tasks : s = task[w]
  BY DEF Record, RunnerInv, HandsOnRunning, Busy
<1>2. /\ status' = [status EXCEPT ![s] = Outcome(w)]
      /\ late' = late
      /\ \/ at[w] = "erred" /\ attempts' = [attempts EXCEPT ![s] = seen[w] + 1]
                            /\ errors' = [errors EXCEPT ![s] = @ + 1]
         \/ at[w] # "erred" /\ UNCHANGED <<attempts, errors>>
      /\ Free(w) /\ Busy(w)
  BY <1>1 DEF Record, Busy
<1>3. /\ Outcome(w) \in {"done", "failed", "pending"}
      /\ Outcome(w) = "pending" => at[w] = "erred"
  BY DEF Outcome, Record, Verdicts
<1>4. /\ Hands(t)' = Hands(t) \ {w}
      /\ \A v \in Hands(t) \ {w} : seen'[v] = seen[v]
      /\ s # t => Hands(t)' = Hands(t)
      /\ s = t => Cardinality(Credit(t)') + (MaxAttempts - seen[w]) <= Cardinality(Credit(t))
  BY <1>1, <1>2, LetGo
<1>5. CASE t # s
  BY <1>2, <1>4, <1>5, SameCredit DEF RunnerInv, TypeOK
<1>6. CASE t = s
  <2>1. status'[t] = Outcome(w) /\ late'[t] = late[t] /\ status'[t] # "absent"
    BY <1>2, <1>3, <1>6 DEF RunnerInv, TypeOK
  <2>2. /\ MaxAttempts \in Nat /\ errors[t] \in Nat /\ Cardinality(Credit(t)) \in Nat
        /\ Cardinality(Credit(t)') \in Nat /\ RowCredit(t) \in Nat /\ RowCredit(t)' \in Nat
        /\ RowCredit(t)' <= MaxAttempts - attempts'[t] /\ attempts'[t] \in Nat
    BY CreditIs, CreditNext
  <2>3. seen[w] \in Nat /\ seen[w] < MaxAttempts
    BY DEF RunnerInv, TypeOK, AttemptsLeft
  <2>4. CASE at[w] = "erred"
    <3>1. attempts'[t] = seen[w] + 1 /\ errors'[t] = errors[t] + 1
      BY <1>2, <1>6, <2>4 DEF RunnerInv, TypeOK
    <3>2. errors'[t] + Cardinality(Credit(t)') + RowCredit(t)'
            <= errors[t] + Cardinality(Credit(t)) + RowCredit(t)
      <4>1. CASE RowCredit(t)' = 0
        BY <1>4, <1>6, <2>2, <2>3, <3>1, <4>1
      <4>2. RowCredit(t)' <= MaxAttempts - (seen[w] + 1)
        BY <2>2, <3>1
      <4> QED BY <1>4, <1>6, <2>2, <2>3, <3>1, <4>2
    <3> QED BY <2>1, <3>2, Moved
  <2>5. CASE at[w] # "erred"
    <3>1. errors'[t] = errors[t]
      BY <1>2, <2>5
    <3>2. RowCredit(t)' = 0
      BY <1>3, <2>1, <2>5 DEF RowCredit, Loose
    <3>3. errors'[t] + Cardinality(Credit(t)') + RowCredit(t)'
            <= errors[t] + Cardinality(Credit(t)) + RowCredit(t)
      BY <1>4, <1>6, <2>2, <2>3, <3>1, <3>2
    <3> QED BY <2>1, <3>3, Moved
  <2> QED BY <2>4, <2>5
<1> QED BY <1>5, <1>6

\* A lost result: the row is loose if the worker was the last that held it as it is.
LEMMA RecordLostCredit ==
  ASSUME RunnerInv, RunnerInv', NEW w \in Workers, RecordLost(w), NEW t \in Tasks, InCredit(t)
  PROVE  InCredit(t)'
<1>1. /\ UNCHANGED <<status, attempts, errors, late>>
      /\ Free(w) /\ Busy(w)
  BY DEF RecordLost, Busy, rows, history
<1>2. /\ Hands(t)' = Hands(t) \ {w}
      /\ \A v \in Hands(t) \ {w} : seen'[v] = seen[v]
      /\ task[w] # t => Hands(t)' = Hands(t)
      /\ task[w] = t => /\ w \in Hands(t)
                        /\ Cardinality(Credit(t)') + (MaxAttempts - seen[w]) <= Cardinality(Credit(t))
  BY <1>1, LetGo
<1>3. CASE task[w] # t
  BY <1>1, <1>2, <1>3, SameCredit
<1>4. CASE task[w] = t
  <2>1. status[t] # "absent"
    BY <1>2, <1>4 DEF InCredit
  <2>2. /\ MaxAttempts \in Nat /\ errors[t] \in Nat /\ Cardinality(Credit(t)) \in Nat
        /\ Cardinality(Credit(t)') \in Nat /\ RowCredit(t) \in Nat /\ RowCredit(t)' \in Nat
        /\ RowCredit(t)' <= MaxAttempts - attempts'[t] /\ attempts'[t] \in Nat
    BY CreditIs, CreditNext
  <2>3. seen[w] \in Nat /\ seen[w] < MaxAttempts
    BY DEF RunnerInv, TypeOK, AttemptsLeft
  <2>4. RowCredit(t)' <= RowCredit(t) \/ seen[w] = attempts[t]
    <3>1. Loose(t)' => Loose(t) \/ seen[w] = attempts[t]
      BY <1>1, <1>2 DEF Loose
    <3> QED BY <1>1, <2>2, <3>1 DEF RowCredit
  <2>5. errors'[t] + Cardinality(Credit(t)') + RowCredit(t)'
          <= errors[t] + Cardinality(Credit(t)) + RowCredit(t)
    <3>1. CASE RowCredit(t)' <= RowCredit(t)
      BY <1>1, <1>2, <1>4, <2>2, <2>3, <3>1
    <3>2. CASE seen[w] = attempts[t]
      BY <1>1, <1>2, <1>4, <2>2, <2>3, <3>2
    <3> QED BY <2>4, <3>1, <3>2
  <2> QED BY <1>1, <2>1, <2>5, Moved
<1> QED BY <1>3, <1>4

\* The cleaner: a requeued row may fail MaxAttempts times more.
LEMMA RequeueCredit ==
  ASSUME RunnerInv, RunnerInv', RequeueStuck, NEW t \in Tasks, InCredit(t)
  PROVE  InCredit(t)'
<1>1. /\ UNCHANGED <<attempts, at, task, seen, errors>>
      /\ status' = [s \in Tasks |-> IF s \in {r \in Tasks : Stuck(r)} THEN "pending" ELSE status[s]]
      /\ late' = [s \in Tasks |-> IF s \in {r \in Tasks : Stuck(r)} THEN late[s] + 1 ELSE late[s]]
  BY DEF RequeueStuck, pool
<1>2. Hands(t)' = Hands(t) /\ Credit(t)' = Credit(t)
  BY <1>1 DEF Hands, Credit, Busy
<1>3. CASE Stuck(t)
  <2>1. status'[t] = "pending" /\ late'[t] = late[t] + 1 /\ errors'[t] = errors[t]
    BY <1>1, <1>3
  <2>2. errors'[t] + Cardinality(Credit(t)') <= errors[t] + Cardinality(Credit(t))
    BY <1>2, <2>1, CreditIs
  <2> QED BY <2>1, <2>2, Moved
<1>4. CASE ~ Stuck(t)
  BY <1>1, <1>2, <1>4, SameCredit
<1> QED BY <1>3, <1>4

\* A start: what the hands held of a running row goes back to the row.
LEMMA RestartCredit ==
  ASSUME RunnerInv, RunnerInv', Restart, NEW t \in Tasks, InCredit(t)
  PROVE  InCredit(t)'
<1>1. /\ UNCHANGED <<attempts, errors, late>>
      /\ status'[t] = status[t] \/ (status[t] = "running" /\ status'[t] = "pending")
      /\ \A v \in Workers : at'[v] = "drain"
  BY DEF Restart
<1>2. Hands(t)' = {} /\ Credit(t)' = {}
  BY <1>1 DEF Hands, Credit, Busy, Verdicts
<1>3. Cardinality(Credit(t)') = 0
  BY <1>2, FS_EmptySet
<1>4. /\ MaxAttempts \in Nat /\ errors[t] \in Nat /\ Cardinality(Credit(t)) \in Nat
      /\ RowCredit(t) \in Nat /\ RowCredit(t)' \in Nat
      /\ RowCredit(t)' <= MaxAttempts - attempts[t]
  BY <1>1, CreditIs, CreditNext
<1>5. CASE status[t] = "absent"
  BY <1>1, <1>2, <1>5, SameCredit DEF InCredit
<1>6. RowCredit(t)' <= RowCredit(t) \/ RowCredit(t)' <= Cardinality(Credit(t))
  <2>1. CASE Loose(t)
    <3>1. RowCredit(t) = MaxAttempts - attempts[t]
      BY <2>1 DEF RowCredit
    <3> QED BY <1>4, <3>1
  <2>2. CASE ~ Loose(t) /\ status[t] = "running"
    <3>1. PICK v \in Hands(t) : seen[v] = attempts[t]
      BY <2>2 DEF Loose
    <3>2. v \in Workers /\ seen[v] \in 0 .. MaxAttempts /\ Block(v, seen[v]) \subseteq Credit(t)
          /\ Credit(t) \in Pairs
      BY CreditIs
    <3>3. Block(v, seen[v]) \in Pairs /\ Cardinality(Block(v, seen[v])) = MaxAttempts - seen[v]
      BY <3>2, BlockCount
    <3>4. MaxAttempts - attempts[t] <= Cardinality(Credit(t))
      BY <3>1, <3>2, <3>3, CreditCount
    <3> QED BY <1>4, <3>4, CreditIs
  <2>3. CASE status[t] # "running" /\ status[t] # "pending"
    BY <1>1, <1>4, <2>3 DEF RowCredit, Loose
  <2> QED BY <2>1, <2>2, <2>3 DEF Loose
<1>7. errors'[t] + Cardinality(Credit(t)') + RowCredit(t)'
        <= errors[t] + Cardinality(Credit(t)) + RowCredit(t)
  BY <1>1, <1>3, <1>4, <1>6
<1>8. CASE status[t] # "absent"
  BY <1>1, <1>7, <1>8, Moved
<1> QED BY <1>5, <1>8

LEMMA IdleCredit ==
  ASSUME RunnerInv, RunnerInv', NEW t \in Tasks, InCredit(t),
         \/ \E s \in Tasks : Ring(s) \/ Age(s)
         \/ \E w \in Workers : Sleep(w) \/ Awaken(w) \/ Poll(w) \/ Handle(w) \/ ClaimFails(w)
  PROVE  InCredit(t)'
<1>1. UNCHANGED <<status, attempts, task, seen, errors, late>>
  BY DEF Ring, Age, Sleep, Awaken, Poll, Handle, ClaimFails, rows, pool, history
<1>2. \A w \in Workers : Busy(w)' <=> Busy(w)
  BY DEF Ring, Age, Sleep, Awaken, Poll, Handle, ClaimFails, pool, Busy, Verdicts, RunnerInv, TypeOK
<1>3. Hands(t)' = Hands(t)
  BY <1>1, <1>2 DEF Hands
<1> QED BY <1>1, <1>3, SameCredit

LEMMA InitCredit == Init => RetryInv
<1> SUFFICES ASSUME Init, NEW t \in Tasks PROVE InCredit(t)
  BY DEF RetryInv
<1>1. Hands(t) = {} /\ Credit(t) = {}
  BY DEF Init, Hands, Credit, Busy, Verdicts
<1>2. Cardinality(Credit(t)) = 0
  BY <1>1, FS_EmptySet
<1>3. status[t] = "absent" /\ errors[t] = 0 /\ attempts[t] = 0 /\ late[t] = 0
  BY DEF Init
<1>4. MaxAttempts \in Nat
  BY TaskRunnerAssumption DEF TaskRunnerAssumption
<1>5. RowCredit(t) = 0
  BY <1>3 DEF RowCredit, Loose
<1>6. 0 <= Grant(t)
  BY <1>3, <1>4 DEF Grant
<1> QED BY <1>1, <1>2, <1>3, <1>5, <1>6 DEF InCredit

\* A task fails at most MaxAttempts times, and as often again for each time the cleaner
\* requeued it, though results that come late turn its attempts back: for every size of
\* pool and table, and however many records, claims and processes are lost.
THEOREM RetriesAreBounded == Spec => []RetriesBounded
<1>1. RunnerInv /\ RunnerInv' /\ RetryInv /\ [Next]_vars => RetryInv'
  <2> SUFFICES ASSUME RunnerInv, RunnerInv', RetryInv, [Next]_vars, NEW t \in Tasks
               PROVE  InCredit(t)'
    BY DEF RetryInv
  <2>1. InCredit(t)
    BY DEF RetryInv
  <2>2. CASE Next
    BY <2>1, <2>2, EnqueueCredit, ClaimCredit, RecordCredit, RecordLostCredit, RequeueCredit,
       RestartCredit, IdleCredit, Zenon DEF Next, Work
  <2>3. CASE UNCHANGED vars
    <3>1. UNCHANGED <<status, attempts, at, task, seen, errors, late>>
      BY <2>3 DEF vars, rows, pool, history
    <3>2. Hands(t)' = Hands(t)
      BY <3>1 DEF Hands, Busy
    <3> QED BY <2>1, <3>1, <3>2, SameCredit
  <2> QED BY <2>2, <2>3
<1>2. RunnerInv /\ RetryInv => RetriesBounded
  <2> SUFFICES ASSUME RunnerInv, RetryInv, NEW t \in Tasks PROVE errors[t] <= Grant(t)
    BY DEF RetriesBounded, Grant
  <2>1. /\ Cardinality(Credit(t)) \in Nat /\ errors[t] \in Nat /\ RowCredit(t) \in Nat
        /\ MaxAttempts \in Nat /\ late[t] \in Nat
    BY CreditIs
  <2>2. Grant(t) \in Nat
    BY <2>1, GrantIs DEF Grant
  <2> QED BY <2>1, <2>2 DEF RetryInv, InCredit
<1> QED BY <1>1, <1>2, InitCredit, RunnerCorrect, PTL DEF Spec

-----------------------------------------------------------------------------
(* The start of the process: what the steps behind it have reached, which  *)
(* the next ones rely on.                                                  *)

\* What the steps that are behind have done to the schema ...
SchemaReached ==
  /\ step >= 3 => db.tables = "all"
  /\ step >= 6 => db.indexes
  /\ step >= 7 => ~db.blank
  /\ step >= 8 => ~db.oldIndex
  /\ step >= 9 => 1 .. 7 \subseteq db.versions
  /\ step >= 11 => 8 \in db.versions
  /\ step >= 15 => 9 \in db.versions
  /\ step \in {13, 14} => 9 \notin db.versions

\* ... to its foreign keys ...
KeysReached ==
  /\ step <= 1 /\ db.tables \in {"versioned", "all"} /\ ~db.old /\ db.keys # "all" => cut
  /\ step > 1 /\ ~fresh /\ ~db.old /\ db.keys # "all" => cut
  /\ step >= 5 => db.keys = "all" \/ (db.dialect = "sqlite" /\ (db.old \/ cut))

\* ... and to what an administrator has not written ...
DefaultsReached ==
  /\ group["exts"] # "zero" /\ group["quota"] # "stock" /\ group["life"] # "stock"
  /\ step >= 10 /\ chosen["quota"] = "none" => group["quota"] # "zero"
  /\ (9 \in db.versions \/ step = 14) /\ chosen["exts"] = "none" => group["exts"] # "stock"
  /\ step = 16 => "settings" \in seeded
  /\ step = 16 => \A c \in S!Columns : chosen[c] = "none" => group[c] \in {"default", "custom"}

\* ... or has.
ChoicesStay ==
  /\ chosen["exts"] # "none" => 9 \in db.versions
  /\ \A c \in S!Columns : chosen[c] # "none" => chosen[c] \in {"zero", "custom", "stock"} /\ group[c] \in S!Reset(c, chosen[c])

StartInv == S!TypeOK /\ SchemaReached /\ KeysReached /\ DefaultsReached /\ ChoicesStay

LEMMA StepNumbers ==
  /\ Len(S!Steps) = 16 /\ DOMAIN S!Steps = 1 .. 16
  /\ S!Steps[1] = "look" /\ S!Steps[2] = "tables" /\ S!Steps[3] = "orphans" /\ S!Steps[4] = "keys"
  /\ S!Steps[5] = "indexes" /\ S!Steps[6] = "surfaces" /\ S!Steps[7] = "oldIndex" /\ S!Steps[8] = "seven"
  /\ S!Steps[9] = "quota" /\ S!Steps[10] = "eight" /\ S!Steps[11] = "private" /\ S!Steps[12] = "check"
  /\ S!Steps[13] = "exts" /\ S!Steps[14] = "nine" /\ S!Steps[15] = "seed" /\ S!Steps[16] = "run"
BY DEF S!Steps

LEMMA StepCount == Len(S!Steps) = 16
BY StepNumbers

LEMMA Names ==
  ASSUME step \in 0 .. 16
  PROVE  /\ S!At("look") <=> step = 1
         /\ S!At("tables") <=> step = 2
         /\ S!At("orphans") <=> step = 3
         /\ S!At("keys") <=> step = 4
         /\ S!At("indexes") <=> step = 5
         /\ S!At("surfaces") <=> step = 6
         /\ S!At("oldIndex") <=> step = 7
         /\ S!At("seven") <=> step = 8
         /\ S!At("quota") <=> step = 9
         /\ S!At("eight") <=> step = 10
         /\ S!At("private") <=> step = 11
         /\ S!At("check") <=> step = 12
         /\ S!At("exts") <=> step = 13
         /\ S!At("nine") <=> step = 14
         /\ S!At("seed") <=> step = 15
         /\ S!At("run") <=> step = 16
<1>1. step \in {0, 1, 2, 3, 4, 5, 6, 7, 8, 9, 10, 11, 12, 13, 14, 15, 16}
  OBVIOUS
<1> QED BY <1>1, StepNumbers DEF S!At

LEMMA Jumps ==
  /\ (CHOOSE n \in DOMAIN S!Steps : S!Steps[n] = "indexes") = 5
  /\ (CHOOSE n \in DOMAIN S!Steps : S!Steps[n] = "seed") = 15
<1>1. \A n \in DOMAIN S!Steps : n \in {1, 2, 3, 4, 5, 6, 7, 8, 9, 10, 11, 12, 13, 14, 15, 16}
  BY StepNumbers
<1>2. \A n \in DOMAIN S!Steps : S!Steps[n] = "indexes" <=> n = 5
  BY <1>1, StepNumbers
<1>3. \A n \in DOMAIN S!Steps : S!Steps[n] = "seed" <=> n = 15
  BY <1>1, StepNumbers
<1>4. 5 \in DOMAIN S!Steps /\ 15 \in DOMAIN S!Steps
  BY StepNumbers
<1> QED BY <1>2, <1>3, <1>4

LEMMA StartupInit == S!Init => StartInv
<1> SUFFICES ASSUME S!Init PROVE StartInv
  OBVIOUS
<1>1. PICK dialect \in {"sqlite", "postgres"} :
        \/ db = S!New(dialect) /\ group = S!Untouched /\ seeded = {}
        \/ /\ db = S!Old(dialect)
           /\ group \in [quota: {"zero"}, life: {"zero", "custom"}, exts: {"stock", "custom"}]
           /\ seeded = {"policy"}
  BY DEF S!Init
<1>2. step = 0 /\ fresh = FALSE /\ starts = 0 /\ edits = 0 /\ chosen = S!Untouched /\ cut = FALSE
  BY DEF S!Init
<1>3. chosen \in [S!Columns -> S!Contents] /\ \A c \in S!Columns : chosen[c] = "none"
  BY <1>2 DEF S!Untouched, S!Contents
<1>6. step \in 0 .. Len(S!Steps) /\ starts \in 0 .. MaxStarts /\ edits \in 0 .. MaxEdits
  BY <1>2, StartupAssumption, StepCount
<1>4. CASE db = S!New(dialect) /\ group = S!Untouched /\ seeded = {}
  <2>1. db \in S!Schemas /\ db.tables = "none" /\ 9 \notin db.versions
    BY <1>4 DEF S!New, S!Schemas, S!Some
  <2>2. group \in [S!Columns -> S!Contents] /\ \A c \in S!Columns : group[c] = "none"
    BY <1>4 DEF S!Untouched, S!Contents
  <2>3. S!TypeOK
    BY <1>2, <1>3, <1>4, <1>6, <2>1, <2>2 DEF S!TypeOK
  <2>4. SchemaReached /\ KeysReached
    BY <1>2, <2>1 DEF SchemaReached, KeysReached
  <2>5. DefaultsReached /\ ChoicesStay
    BY <1>2, <1>3, <2>1, <2>2 DEF DefaultsReached, ChoicesStay, S!Columns
  <2> QED BY <2>3, <2>4, <2>5 DEF StartInv
<1>5. CASE /\ db = S!Old(dialect)
           /\ group \in [quota: {"zero"}, life: {"zero", "custom"}, exts: {"stock", "custom"}]
           /\ seeded = {"policy"}
  <2>1. db \in S!Schemas /\ db.old = TRUE /\ 9 \notin db.versions
    BY <1>5 DEF S!Old, S!Schemas, S!Some
  <2>2. DOMAIN group = S!Columns
    BY <1>5 DEF S!Columns
  <2>3. group["quota"] \in {"zero"} /\ group["life"] \in {"zero", "custom"} /\ group["exts"] \in {"stock", "custom"}
    BY <1>5
  <2>4. group \in [S!Columns -> S!Contents]
    <3>1. group = [c \in S!Columns |-> group[c]]
      BY <1>5, <2>2
    <3> QED BY <2>3, <3>1 DEF S!Columns, S!Contents
  <2>5. S!TypeOK
    BY <1>2, <1>3, <1>5, <1>6, <2>1, <2>4 DEF S!TypeOK
  <2>6. SchemaReached /\ KeysReached
    BY <1>2, <2>1 DEF SchemaReached, KeysReached
  <2>7. DefaultsReached /\ ChoicesStay
    BY <1>2, <1>3, <2>1, <2>3 DEF DefaultsReached, ChoicesStay, S!Columns
  <2> QED BY <2>5, <2>6, <2>7 DEF StartInv
<1> QED BY <1>1, <1>4, <1>5

-----------------------------------------------------------------------------
\* What a step of the start may do; the schema only grows.
LEMMA Typed ==
  ASSUME StartInv
  PROVE  /\ step \in 0 .. 16 /\ db \in S!Schemas /\ group \in [S!Columns -> S!Contents] /\ chosen \in [S!Columns -> S!Contents]
         /\ seeded \subseteq {"policy", "settings"} /\ fresh \in BOOLEAN /\ cut \in BOOLEAN
         /\ starts \in 0 .. MaxStarts /\ edits \in 0 .. MaxEdits
BY StepCount DEF StartInv, S!TypeOK

LEMMA Passing ==
  ASSUME StartInv, NEW name, S!Passes(name)
  PROVE  /\ name = "look" => step = 1
         /\ name = "tables" => step = 2
         /\ name = "orphans" => step = 3
         /\ name = "keys" => step = 4
         /\ name = "indexes" => step = 5
         /\ name = "surfaces" => step = 6
         /\ name = "oldIndex" => step = 7
         /\ name = "seven" => step = 8
         /\ name = "quota" => step = 9
         /\ name = "eight" => step = 10
         /\ name = "private" => step = 11
         /\ name = "check" => step = 12
         /\ name = "exts" => step = 13
         /\ name = "nine" => step = 14
         /\ name = "seed" => step = 15
         /\ UNCHANGED <<starts, edits, chosen, cut>>
BY Typed, Names DEF S!Passes

LEMMA SchemaTyped ==
  ASSUME NEW d \in S!Schemas
  PROVE  /\ d.dialect \in {"sqlite", "postgres"} /\ d.old \in BOOLEAN /\ d.tables \in {"none", "some", "versioned", "all"}
         /\ d.keys \in S!Some /\ d.indexes \in BOOLEAN /\ d.oldIndex \in BOOLEAN /\ d.blank \in BOOLEAN
         /\ d.orphans \in BOOLEAN /\ d.versions \in SUBSET (1 .. 9)
BY DEF S!Schemas

\* The schema as records: a field of it changes, the others stay.
LEMMA SchemaStep ==
  ASSUME StartInv, step' \in 0 .. 16, UNCHANGED <<group, seeded, starts, edits, chosen, cut>>, fresh' \in BOOLEAN,
         db' \in S!Schemas, db'.versions = db.versions, step' # 14 /\ step' # 16, step' >= 10 => step >= 10,
         SchemaReached', KeysReached'
  PROVE  StartInv'
<1>1. S!TypeOK'
  BY StepCount DEF StartInv, S!TypeOK
<1>2. DefaultsReached'
  BY DEF StartInv, DefaultsReached
<1>3. ChoicesStay'
  BY DEF StartInv, ChoicesStay, S!Reset
<1> QED BY <1>1, <1>2, <1>3 DEF StartInv

LEMMA DiesKeeps ==
  ASSUME StartInv, S!Start \/ S!Dies
  PROVE  StartInv'
<1>1. /\ UNCHANGED <<S!disk, fresh, edits, chosen>>
      /\ step' \in {0, 1} /\ starts' \in 0 .. MaxStarts /\ cut' \in BOOLEAN
      /\ cut => cut'
      /\ step \in {0, 1} \/ cut' = (cut \/ (db.tables \in {"versioned", "all"} /\ db.keys # "all" /\ ~db.old))
  <2>1. CASE S!Start
    <3>1. starts' \in 0 .. MaxStarts
      BY <2>1, Typed, StartupAssumption DEF S!Start
    <3> QED BY <2>1, <3>1, Typed DEF S!Start, S!disk
  <2>2. CASE S!Dies
    <3>1. step > 1 => cut' = (cut \/ (db.tables \in {"versioned", "all"} /\ db.keys # "all" /\ ~db.old))
      BY <2>2 DEF S!Dies
    <3>2. step \in {0, 1} \/ step > 1
      BY Typed
    <3>3. cut' \in BOOLEAN /\ (cut => cut')
      BY <2>2, Zenon DEF S!Dies
    <3> QED BY <2>2, <3>1, <3>2, <3>3, Typed DEF S!Dies, S!disk
  <2> QED BY <2>1, <2>2
<1>2. S!TypeOK'
  BY <1>1, StepCount DEF StartInv, S!TypeOK, S!disk
<1>3. SchemaReached' /\ DefaultsReached' /\ ChoicesStay'
  <2>1. SchemaReached'
    BY <1>1 DEF StartInv, SchemaReached, S!disk
  <2>2. DefaultsReached'
    BY <1>1 DEF StartInv, DefaultsReached, S!disk
  <2>3. ChoicesStay'
    BY <1>1 DEF StartInv, ChoicesStay, S!disk, S!Reset
  <2> QED BY <2>1, <2>2, <2>3
<1>4. KeysReached'
  BY <1>1, Typed DEF StartInv, KeysReached, S!disk
<1> QED BY <1>2, <1>3, <1>4 DEF StartInv

LEMMA LookKeeps ==
  ASSUME StartInv, S!Look
  PROVE  StartInv'
<1>1. /\ step = 1 /\ step' = 2 /\ UNCHANGED <<S!disk, starts, edits, chosen, cut>>
      /\ fresh' \in BOOLEAN /\ (db.tables \in {"none", "some"} => fresh')
  <2>1. step = 1 /\ step' = 2 /\ UNCHANGED <<S!disk, starts, edits, chosen, cut>>
    BY Passing DEF S!Look, S!Onward
  <2>2. fresh' \in BOOLEAN /\ (db.tables \in {"none", "some"} => fresh')
    <3>1. fresh' = (db.tables \in {"none", "some"})
      BY DEF S!Look
    <3>2. (db.tables \in {"none", "some"}) \in BOOLEAN
      OBVIOUS
    <3>3. fresh' \in BOOLEAN
      BY <3>1, <3>2, Zenon
    <3> QED BY <3>1, <3>3, Zenon
  <2> QED BY <2>1, <2>2
<1>2. SchemaReached'
  BY <1>1 DEF StartInv, SchemaReached, S!disk
<1>3. KeysReached'
  <2>1. db.tables \in {"none", "some", "versioned", "all"}
    BY Typed, SchemaTyped
  <2> QED BY <1>1, <2>1 DEF StartInv, KeysReached, S!disk
<1> QED BY <1>1, <1>2, <1>3, Typed, SchemaStep DEF S!disk

LEMMA AutoMigrateKeeps ==
  ASSUME StartInv, S!AutoMigrate
  PROVE  StartInv'
<1>1. /\ step = 2 /\ step' \in {2, 3} /\ UNCHANGED <<group, seeded, fresh, starts, edits, chosen, cut>>
      /\ db' \in S!Schemas /\ db'.versions = db.versions /\ db'.keys = db.keys /\ db'.old = db.old
      /\ step' = 3 => db'.tables = "all"
  <2>1. step = 2 /\ step' \in {2, 3} /\ UNCHANGED <<group, seeded, fresh, starts, edits, chosen, cut>>
    BY Passing DEF S!AutoMigrate, S!Onward
  <2>2. \/ db' = [db EXCEPT !.tables = "some"] /\ step' = step
        \/ db' = [db EXCEPT !.tables = "versioned"] /\ step' = step
        \/ db' = [db EXCEPT !.tables = "all", !.indexes = TRUE]
    BY DEF S!AutoMigrate
  <2>3. db \in S!Schemas
    BY Typed
  <2>4. /\ db' \in S!Schemas /\ db'.versions = db.versions /\ db'.keys = db.keys /\ db'.old = db.old
        /\ step' # step => db'.tables = "all"
    <3>1. CASE db' = [db EXCEPT !.tables = "some"] /\ step' = step
      BY <2>3, <3>1 DEF S!Schemas
    <3>2. CASE db' = [db EXCEPT !.tables = "versioned"] /\ step' = step
      BY <2>3, <3>2 DEF S!Schemas
    <3>3. CASE db' = [db EXCEPT !.tables = "all", !.indexes = TRUE]
      BY <2>3, <3>3 DEF S!Schemas
    <3> QED BY <2>2, <3>1, <3>2, <3>3
  <2> QED BY <2>1, <2>4
<1>2. SchemaReached' /\ KeysReached'
  BY <1>1 DEF StartInv, SchemaReached, KeysReached
<1> QED BY <1>1, <1>2, Typed, SchemaStep

LEMMA KeysKeep ==
  ASSUME StartInv, S!ClearOrphans \/ S!CreateKeys
  PROVE  StartInv'
<1>1. /\ step \in {3, 4} /\ step' \in {4, 5} /\ UNCHANGED <<group, seeded, fresh, starts, edits, chosen, cut>>
      /\ db' \in S!Schemas /\ db'.versions = db.versions /\ db'.tables = db.tables /\ db'.old = db.old
      /\ db'.dialect = db.dialect
      /\ db'.keys = db.keys \/ (db.keys # "all" /\ db'.keys \in S!Some)
      /\ step' = 5 => db'.keys = "all" \/ (db.dialect = "sqlite" /\ ~fresh)
  <2>3. db \in S!Schemas
    BY Typed
  <2>1. CASE S!ClearOrphans
    <3>1. step = 3 /\ UNCHANGED <<group, seeded, fresh, starts, edits, chosen, cut>>
      BY <2>1, Passing DEF S!ClearOrphans
    <3>2. \/ db.dialect = "sqlite" /\ ~fresh /\ step' = 5 /\ db' = db
          \/ step' = 4 /\ (db' = db \/ db' = [db EXCEPT !.orphans = FALSE])
      <4>1. CASE db.dialect = "sqlite" /\ ~fresh
        BY <2>1, <4>1, Jumps DEF S!ClearOrphans, S!To
      <4>2. CASE ~(db.dialect = "sqlite" /\ ~fresh)
        BY <2>1, <3>1, <4>2 DEF S!ClearOrphans, S!Onward
      <4> QED BY <4>1, <4>2
    <3>3. CASE db' = db
      BY <2>3, <3>1, <3>2, <3>3
    <3>4. CASE db' = [db EXCEPT !.orphans = FALSE] /\ step' = 4
      <4>1. /\ db' \in S!Schemas /\ db'.versions = db.versions /\ db'.tables = db.tables /\ db'.old = db.old
            /\ db'.dialect = db.dialect /\ db'.keys = db.keys
        BY <2>3, <3>4 DEF S!Schemas
      <4> QED BY <3>1, <3>4, <4>1
    <3> QED BY <3>2, <3>3, <3>4
  <2>2. CASE S!CreateKeys
    <3>1. step = 4 /\ UNCHANGED <<group, seeded, fresh, starts, edits, chosen, cut>>
      BY <2>2, Passing DEF S!CreateKeys
    <3>2. PICK rebuilt \in BOOLEAN :
            \/ db.keys = "none" /\ db' = [db EXCEPT !.keys = "some", !.indexes = rebuilt] /\ step' = 4
            \/ db.keys = "some" /\ db' = [db EXCEPT !.keys = "all", !.indexes = rebuilt] /\ step' = 4
            \/ db.keys = "all" /\ step' = 5 /\ db' = db
      <4> DEFINE rebuilt == db.indexes /\ db.dialect # "sqlite"
      <4>1. rebuilt \in BOOLEAN
        OBVIOUS
      <4>2. \/ db.keys = "none" /\ db' = [db EXCEPT !.keys = "some", !.indexes = rebuilt] /\ step' = 4
            \/ db.keys = "some" /\ db' = [db EXCEPT !.keys = "all", !.indexes = rebuilt] /\ step' = 4
            \/ db.keys = "all" /\ step' = 5 /\ db' = db
        BY <2>2, <3>1 DEF S!CreateKeys, S!Onward
      <4> HIDE DEF rebuilt
      <4> QED BY <4>1, <4>2
    <3>3. ASSUME NEW k \in S!Some, db' = [db EXCEPT !.keys = k, !.indexes = rebuilt]
          PROVE  /\ db' \in S!Schemas /\ db'.versions = db.versions /\ db'.tables = db.tables /\ db'.old = db.old
                 /\ db'.dialect = db.dialect /\ db'.keys = k
      BY <2>3, <3>3 DEF S!Schemas
    <3>4. CASE step' = 4
      <4>1. PICK k \in S!Some : db.keys # "all" /\ db' = [db EXCEPT !.keys = k, !.indexes = rebuilt]
        BY <3>2, <3>4 DEF S!Some
      <4>2. /\ db' \in S!Schemas /\ db'.versions = db.versions /\ db'.tables = db.tables /\ db'.old = db.old
            /\ db'.dialect = db.dialect /\ db'.keys = k
        BY <3>3, <4>1
      <4> QED BY <3>1, <3>4, <4>1, <4>2
    <3>5. CASE db.keys = "all" /\ step' = 5 /\ db' = db
      BY <2>3, <3>1, <3>5
    <3> QED BY <3>2, <3>4, <3>5
  <2> QED BY <2>1, <2>2
<1>2. SchemaReached'
  BY <1>1 DEF StartInv, SchemaReached
<1>3. KeysReached'
  BY <1>1 DEF StartInv, KeysReached
<1> QED BY <1>1, <1>2, <1>3, Typed, SchemaStep

LEMMA IndexesKeep ==
  ASSUME StartInv, S!EnsureIndexes \/ S!MigrateSurface
  PROVE  StartInv'
<1>1. /\ step \in {5, 6, 7} /\ step' = step + 1 /\ UNCHANGED <<group, seeded, fresh, starts, edits, chosen, cut>>
      /\ db' \in S!Schemas /\ db'.versions = db.versions /\ db'.tables = db.tables /\ db'.old = db.old
      /\ db'.dialect = db.dialect /\ db'.keys = db.keys
      /\ db.indexes \/ step = 5 => db'.indexes
      /\ ~db.blank \/ step = 6 => ~db'.blank
      /\ step = 7 => ~db'.oldIndex
  <2>1. CASE S!EnsureIndexes
    <3>1. step = 5 /\ step' = 6 /\ db' = [db EXCEPT !.indexes = TRUE] /\ db \in S!Schemas
          /\ UNCHANGED <<group, seeded, fresh, starts, edits, chosen, cut>>
      BY <2>1, Passing, Typed DEF S!EnsureIndexes, S!Onward
    <3>2. /\ db' \in S!Schemas /\ db'.versions = db.versions /\ db'.tables = db.tables /\ db'.old = db.old
          /\ db'.dialect = db.dialect /\ db'.keys = db.keys /\ db'.indexes /\ (~db.blank => ~db'.blank)
      BY <3>1 DEF S!Schemas
    <3>3. step # 6 /\ step # 7 /\ step' = step + 1 /\ step \in {5, 6, 7}
      BY <3>1
    <3> QED BY <3>1, <3>2, <3>3
  <2>2. CASE S!MigrateSurface
    <3>1. /\ \/ step = 6 /\ db' = [db EXCEPT !.blank = FALSE]
             \/ step = 7 /\ db' = [db EXCEPT !.oldIndex = FALSE]
          /\ step' = step + 1 /\ UNCHANGED <<group, seeded, fresh, starts, edits, chosen, cut>>
      BY <2>2, Passing DEF S!MigrateSurface, S!Onward
    <3>2. db \in S!Schemas
      BY Typed
    <3>3. CASE step = 6 /\ db' = [db EXCEPT !.blank = FALSE]
      <4>1. /\ db' \in S!Schemas /\ db'.versions = db.versions /\ db'.tables = db.tables /\ db'.old = db.old
            /\ db'.dialect = db.dialect /\ db'.keys = db.keys /\ db'.indexes = db.indexes /\ db'.blank = FALSE
        BY <3>2, <3>3 DEF S!Schemas
      <4> QED BY <3>1, <3>3, <4>1
    <3>4. CASE step = 7 /\ db' = [db EXCEPT !.oldIndex = FALSE]
      <4>1. /\ db' \in S!Schemas /\ db'.versions = db.versions /\ db'.tables = db.tables /\ db'.old = db.old
            /\ db'.dialect = db.dialect /\ db'.keys = db.keys /\ db'.indexes = db.indexes /\ db'.blank = db.blank
            /\ db'.oldIndex = FALSE
        BY <3>2, <3>4 DEF S!Schemas
      <4> QED BY <3>1, <3>4, <4>1
    <3> QED BY <3>1, <3>3, <3>4
  <2> QED BY <2>1, <2>2
<1>2. SchemaReached'
  BY <1>1 DEF StartInv, SchemaReached
<1>3. KeysReached'
  BY <1>1 DEF StartInv, KeysReached
<1> QED BY <1>1, <1>2, <1>3, Typed, SchemaStep

LEMMA VersionsKeep ==
  ASSUME StartInv, S!RecordVersion
  PROVE  StartInv'
<1>1. UNCHANGED <<group, seeded, fresh, starts, edits, chosen, cut>> /\ db \in S!Schemas /\ db.versions \subseteq 1 .. 9
  BY Typed DEF S!RecordVersion, S!Passes, S!Schemas
<1>2. ASSUME NEW more \in SUBSET (1 .. 9), db' = [db EXCEPT !.versions = db.versions \cup more],
             \/ step = 8 /\ step' = 8 /\ more \subseteq 1 .. 7
             \/ step = 8 /\ step' = 9 /\ more = {} /\ 1 .. 7 \subseteq db.versions
             \/ step = 10 /\ step' = 11 /\ more = {8}
             \/ step = 14 /\ step' = 15 /\ more = {9}
      PROVE  StartInv'
  <2>3. /\ db'.versions = db.versions \cup more /\ db'.tables = db.tables /\ db'.old = db.old /\ db'.dialect = db.dialect
        /\ db'.keys = db.keys /\ db'.indexes = db.indexes /\ db'.blank = db.blank /\ db'.oldIndex = db.oldIndex
        /\ db' \in S!Schemas
    BY <1>1, <1>2 DEF S!Schemas
  <2>4. step \in 0 .. 16 /\ step' \in 0 .. 16
    BY <1>2
  <2>5. S!TypeOK'
    BY <1>1, <2>3, <2>4, StepCount DEF StartInv, S!TypeOK
  <2>6. SchemaReached'
    BY <1>2, <2>3 DEF StartInv, SchemaReached
  <2>7. KeysReached'
    BY <1>1, <1>2, <2>3 DEF StartInv, KeysReached
  <2>8. DefaultsReached'
    BY <1>1, <1>2, <2>3 DEF StartInv, DefaultsReached
  <2>9. ChoicesStay'
    BY <1>1, <1>2, <2>3 DEF StartInv, ChoicesStay, S!Reset
  <2> QED BY <2>5, <2>6, <2>7, <2>8, <2>9 DEF StartInv
<1>3. CASE S!Passes("eight") /\ db' = [db EXCEPT !.versions = @ \cup {8}] /\ S!Onward
  <2>1. step = 10 /\ step' = 11
    BY <1>3, Passing DEF S!Onward
  <2>2. {8} \in SUBSET (1 .. 9) /\ db' = [db EXCEPT !.versions = db.versions \cup {8}]
    BY <1>1, <1>3
  <2> QED BY <1>2, <2>1, <2>2
<1>4. CASE S!Passes("nine") /\ db' = [db EXCEPT !.versions = @ \cup {9}] /\ S!Onward
  <2>1. step = 14 /\ step' = 15
    BY <1>4, Passing DEF S!Onward
  <2>2. {9} \in SUBSET (1 .. 9) /\ db' = [db EXCEPT !.versions = db.versions \cup {9}]
    BY <1>1, <1>4
  <2> QED BY <1>2, <2>1, <2>2
<1>5. CASE S!Passes("seven") /\ (1 .. 7) \ db.versions = {} /\ S!Onward /\ UNCHANGED db
  <2>1. step = 8 /\ step' = 9
    BY <1>5, Passing DEF S!Onward
  <2>2. {} \in SUBSET (1 .. 9) /\ 1 .. 7 \subseteq db.versions
    BY <1>5
  <2>3. db' = [db EXCEPT !.versions = db.versions \cup {}]
    <3>1. db.versions \cup {} = db.versions
      BY <1>1
    <3>2. db = [db EXCEPT !.versions = db.versions]
      BY <1>1 DEF S!Schemas
    <3> QED BY <1>5, <3>1, <3>2
  <2> QED BY <1>2, <2>1, <2>2, <2>3
<1>6. ASSUME NEW v \in (1 .. 7) \ db.versions, S!Passes("seven"), db' = [db EXCEPT !.versions = @ \cup {v}], UNCHANGED step
      PROVE  StartInv'
  <2>1. step = 8 /\ step' = 8
    BY <1>6, Passing
  <2>2. {v} \in SUBSET (1 .. 9) /\ db' = [db EXCEPT !.versions = db.versions \cup {v}] /\ {v} \subseteq 1 .. 7
    BY <1>1, <1>6
  <2> QED BY <1>2, <2>1, <2>2
<1>7. \/ S!Passes("eight") /\ db' = [db EXCEPT !.versions = @ \cup {8}] /\ S!Onward
      \/ S!Passes("nine") /\ db' = [db EXCEPT !.versions = @ \cup {9}] /\ S!Onward
      \/ S!Passes("seven") /\ (1 .. 7) \ db.versions = {} /\ S!Onward /\ UNCHANGED db
      \/ \E v \in (1 .. 7) \ db.versions :
           S!Passes("seven") /\ db' = [db EXCEPT !.versions = @ \cup {v}] /\ UNCHANGED step
  BY DEF S!RecordVersion
<1> QED BY <1>3, <1>4, <1>5, <1>6, <1>7

\* The schema stays, and the start goes on behind its keys and indexes.
LEMMA RestKeeps ==
  ASSUME StartInv, step \in 9 .. 15, step' \in 0 .. 16, step' > step, UNCHANGED <<db, fresh, starts, edits, chosen, cut>>,
         step' >= 11 => step # 9, step' >= 15 => 9 \in db.versions, step' \in {13, 14} => 9 \notin db.versions,
         step # 10
  PROVE  SchemaReached' /\ KeysReached'
<1>1. SchemaReached'
  BY DEF StartInv, SchemaReached
<1>2. KeysReached'
  BY DEF StartInv, KeysReached
<1> QED BY <1>1, <1>2

LEMMA DefaultsKeep ==
  ASSUME StartInv, S!BandwidthDefaults
  PROVE  StartInv'
<1>1. /\ step = 9 /\ step' = 10 /\ UNCHANGED <<db, seeded, fresh, starts, edits, chosen, cut>>
      /\ group' = IF group["quota"] = "zero" THEN [group EXCEPT !["quota"] = "default"] ELSE group
  BY Passing DEF S!BandwidthDefaults, S!Onward
<1>2. SchemaReached' /\ KeysReached'
  BY <1>1, RestKeeps
<1>3. group' \in [S!Columns -> S!Contents] /\ group'["quota"] # "zero" /\ \A c \in S!Columns : group'[c] = group[c] \/
        (c = "quota" /\ group[c] = "zero" /\ group'[c] = "default")
  BY <1>1, Typed DEF S!Columns, S!Contents
<1>4. S!TypeOK'
  BY <1>1, <1>3, StepCount DEF StartInv, S!TypeOK
<1>5. DefaultsReached'
  BY <1>1, <1>3 DEF StartInv, DefaultsReached, S!Columns
<1>6. ChoicesStay'
  BY <1>1, <1>3 DEF StartInv, ChoicesStay, S!Reset
<1> QED BY <1>2, <1>4, <1>5, <1>6 DEF StartInv

LEMMA PrivateKeeps ==
  ASSUME StartInv, S!PrivateAlbumImages
  PROVE  StartInv'
<1>1. step = 11 /\ step' = 12 /\ UNCHANGED <<S!disk, fresh, starts, edits, chosen, cut>>
  BY Passing DEF S!PrivateAlbumImages, S!Onward
<1>2. SchemaReached' /\ KeysReached'
  BY <1>1, RestKeeps DEF S!disk
<1> QED BY <1>1, <1>2, Typed, SchemaStep DEF S!disk

LEMMA HeicKeeps ==
  ASSUME StartInv, S!StockHeic
  PROVE  StartInv'
<1>1. CASE S!Passes("check")
  <2>1. /\ step = 12 /\ UNCHANGED <<S!disk, fresh, starts, edits, chosen, cut>>
        /\ step' = IF 9 \in db.versions THEN 15 ELSE 13
    <3>1. step = 12
      BY <1>1, Passing
    <3>2. ~S!Passes("exts")
      BY <3>1, Passing
    <3>3. /\ UNCHANGED <<S!disk, fresh>> /\ UNCHANGED <<starts, edits, chosen, cut>>
          /\ IF 9 \in db.versions THEN S!To("seed") ELSE S!Onward
      BY <1>1, <3>2, Passing DEF S!StockHeic, S!NineIsDone, S!disk
    <3>4. step' = IF 9 \in db.versions THEN 15 ELSE 13
      <4>1. CASE 9 \in db.versions
        BY <3>3, <4>1, Jumps DEF S!To
      <4>2. CASE 9 \notin db.versions
        BY <3>1, <3>3, <4>2 DEF S!Onward
      <4> QED BY <4>1, <4>2
    <3> QED BY <3>1, <3>3, <3>4 DEF S!disk
  <2>2. SchemaReached' /\ KeysReached'
    BY <2>1, RestKeeps DEF S!disk
  <2> QED BY <2>1, <2>2, Typed, SchemaStep DEF S!disk
<1>2. CASE ~S!Passes("check")
  <2>1. /\ step = 13 /\ step' = 14 /\ UNCHANGED <<db, seeded, fresh, starts, edits, chosen, cut>>
        /\ group' = IF group["exts"] = "stock" THEN [group EXCEPT !["exts"] = "default"] ELSE group
    BY <1>2, Passing DEF S!StockHeic, S!Onward
  <2>2. 9 \notin db.versions /\ chosen["exts"] = "none"
    BY <2>1 DEF StartInv, SchemaReached, ChoicesStay
  <2>3. SchemaReached' /\ KeysReached'
    BY <2>1, <2>2, RestKeeps
  <2>4. group' \in [S!Columns -> S!Contents] /\ group'["exts"] # "stock" /\ \A c \in S!Columns : group'[c] = group[c] \/
          (c = "exts" /\ group'[c] = "default")
    BY <2>1, Typed DEF S!Columns, S!Contents
  <2>5. S!TypeOK'
    BY <2>1, <2>4, StepCount DEF StartInv, S!TypeOK
  <2>6. DefaultsReached'
    BY <2>1, <2>4 DEF StartInv, DefaultsReached, S!Columns
  <2>7. ChoicesStay'
    BY <2>1, <2>2, <2>4 DEF StartInv, ChoicesStay, S!Reset
  <2> QED BY <2>3, <2>5, <2>6, <2>7 DEF StartInv
<1> QED BY <1>1, <1>2

LEMMA SeedKeeps ==
  ASSUME StartInv, S!Seed
  PROVE  StartInv'
<1>1. /\ step = 15 /\ step' = 16 /\ UNCHANGED <<db, fresh, starts, edits, chosen, cut>>
      /\ group' = [c \in S!Columns |-> IF group[c] = "none" \/ (c = "life" /\ group[c] = "zero") THEN "default" ELSE group[c]]
      /\ seeded' = {"policy", "settings"}
  BY Passing DEF S!Seed, S!Onward
<1>2. 9 \in db.versions
  BY <1>1 DEF StartInv, SchemaReached
<1>3. SchemaReached' /\ KeysReached'
  BY <1>1, <1>2, RestKeeps
<1>4. group' \in [S!Columns -> S!Contents]
  BY <1>1, Typed DEF S!Contents
<1>5. S!TypeOK'
  BY <1>1, <1>4, StepCount DEF StartInv, S!TypeOK
<1>6. /\ group'["quota"] = IF group["quota"] = "none" THEN "default" ELSE group["quota"]
      /\ group'["life"] = IF group["life"] \in {"none", "zero"} THEN "default" ELSE group["life"]
      /\ group'["exts"] = IF group["exts"] = "none" THEN "default" ELSE group["exts"]
  BY <1>1 DEF S!Columns
<1>7. DefaultsReached'
  <2>1. \A c \in S!Columns : group[c] \in S!Contents
    BY Typed
  <2> QED BY <1>1, <1>2, <1>6, <2>1 DEF StartInv, DefaultsReached, S!Columns, S!Contents
<1>8. ChoicesStay'
  BY <1>1, <1>6 DEF StartInv, ChoicesStay, S!Reset, S!Columns
<1> QED BY <1>3, <1>5, <1>7, <1>8 DEF StartInv

LEMMA EditsKeep ==
  ASSUME StartInv, (\E column \in S!Columns, value \in {"zero", "custom", "stock"} : S!Edit(column, value)) \/ S!DeletePolicy
  PROVE  StartInv'
<1>1. step = 16 /\ UNCHANGED <<db, step, fresh, starts, cut>> /\ edits' \in 0 .. MaxEdits
  BY Typed, Names, StartupAssumption DEF S!Edit, S!DeletePolicy, S!Running
<1>2. SchemaReached' /\ KeysReached' /\ 9 \in db.versions
  BY <1>1 DEF StartInv, SchemaReached, KeysReached
<1>3. CASE S!DeletePolicy
  <2>1. seeded' = seeded \ {"policy"} /\ UNCHANGED <<group, chosen>>
    BY <1>3 DEF S!DeletePolicy
  <2>2. S!TypeOK'
    BY <1>1, <2>1 DEF StartInv, S!TypeOK
  <2>3. DefaultsReached' /\ ChoicesStay'
    BY <1>1, <2>1 DEF StartInv, DefaultsReached, ChoicesStay, S!Reset
  <2> QED BY <1>2, <2>2, <2>3 DEF StartInv
<1>4. ASSUME NEW column \in S!Columns, NEW value \in {"zero", "custom", "stock"}, S!Edit(column, value) PROVE StartInv'
  <2>1. /\ group' = [group EXCEPT ![column] = value] /\ chosen' = [chosen EXCEPT ![column] = value] /\ UNCHANGED seeded
        /\ (value = "stock" => column = "exts") /\ (value = "zero" => column # "exts")
    BY <1>4 DEF S!Edit
  <2>2. /\ group' \in [S!Columns -> S!Contents] /\ chosen' \in [S!Columns -> S!Contents]
        /\ group'[column] = value /\ chosen'[column] = value
        /\ \A c \in S!Columns : c # column => group'[c] = group[c] /\ chosen'[c] = chosen[c]
    BY <2>1, Typed DEF S!Contents
  <2>3. S!TypeOK'
    BY <1>1, <2>1, <2>2 DEF StartInv, S!TypeOK
  <2>4. DefaultsReached'
    BY <1>1, <2>1, <2>2 DEF StartInv, DefaultsReached, S!Columns
  <2>5. ChoicesStay'
    BY <1>1, <1>2, <2>1, <2>2 DEF StartInv, ChoicesStay, S!Reset
  <2> QED BY <1>2, <2>3, <2>4, <2>5 DEF StartInv
<1> QED BY <1>3, <1>4

LEMMA StartupStep == StartInv /\ [S!Next]_(S!startup) => StartInv'
<1> SUFFICES ASSUME StartInv, [S!Next]_(S!startup) PROVE StartInv'
  OBVIOUS
<1>1. CASE UNCHANGED S!startup
  BY <1>1 DEF S!startup, S!disk, StartInv, S!TypeOK, SchemaReached, KeysReached, DefaultsReached, ChoicesStay, S!Reset
<1> QED BY <1>1, DiesKeeps, LookKeeps, AutoMigrateKeeps, KeysKeep, IndexesKeep, VersionsKeep, DefaultsKeep,
           PrivateKeeps, HeicKeeps, SeedKeeps, EditsKeep, Zenon DEF S!Next

LEMMA StartInvIs == StartInv => S!TypeOK /\ S!StartsComplete
<1> SUFFICES ASSUME StartInv, S!Running PROVE S!StartsComplete
  BY DEF StartInv, S!StartsComplete
<1>1. step = 16
  BY Typed, Names DEF S!Running
<1>2. db.versions \subseteq 1 .. 9 /\ \A n \in 1 .. 9 : n \in 1 .. 7 \/ n = 8 \/ n = 9
  BY Typed DEF S!Schemas
<1>3. db.versions = 1 .. 9
  BY <1>1, <1>2 DEF StartInv, SchemaReached
<1>4. db.tables = "all" /\ db.indexes /\ ~db.oldIndex /\ ~db.blank
  BY <1>1 DEF StartInv, SchemaReached
<1>5. db.keys = "all" \/ (db.dialect = "sqlite" /\ (db.old \/ cut))
  BY <1>1 DEF StartInv, KeysReached
<1>6. /\ \A c \in S!Columns :
           IF chosen[c] = "none" THEN group[c] \in {"default", "custom"} ELSE group[c] \in S!Reset(c, chosen[c])
      /\ "settings" \in seeded
  BY <1>1 DEF StartInv, DefaultsReached, ChoicesStay
<1> QED BY <1>3, <1>4, <1>5, <1>6 DEF S!StartsComplete

\* Startup: however often a start is cut short, at whichever step, a server
\* that runs has a whole schema, defaults where nobody chose, and what an
\* administrator chose before (Migrate, Seed).
THEOREM StartsAreComplete == S!Spec => [](S!TypeOK /\ S!StartsComplete)
<1>1. S!Init => StartInv
  BY StartupInit
<1>2. StartInv /\ [S!Next]_(S!startup) => StartInv'
  BY StartupStep
<1> QED BY <1>1, <1>2, StartInvIs, PTL DEF S!Spec

-----------------------------------------------------------------------------
(* The process.                                                            *)

\* The process that is checked is a task runner: what is proved of Spec above
\* holds of it, whether it is its tasks or its start that is followed.
THEOREM ProcessIsRunner == Process => Spec
<1>1. ProcessInit => Init
  BY DEF ProcessInit
<1>2. [ProcessNext]_<<part, vars, starting>> => [Next]_vars
  BY DEF ProcessNext
<1> QED BY <1>1, <1>2, PTL DEF Process, Spec

\* Where its start is followed, a server that runs has a whole schema and what
\* was chosen before.
THEOREM ProcessStartsComplete == Process => []StartsComplete
<1> DEFINE Inv == part = "startup" => StartInv
<1>1. ProcessInit => Inv
  BY StartupInit DEF ProcessInit
<1>2. Inv /\ [ProcessNext]_<<part, vars, starting>> => Inv'
  <2> SUFFICES ASSUME Inv, [ProcessNext]_<<part, vars, starting>>, part' = "startup" PROVE StartInv'
    OBVIOUS
  <2>1. part = "startup" /\ [S!Next]_(S!startup)
    BY DEF ProcessNext, starting, S!startup, S!disk
  <2> QED BY <2>1, StartupStep
<1>3. Inv => StartsComplete
  BY StartInvIs DEF StartsComplete
<1> QED BY <1>1, <1>2, <1>3, PTL DEF Process

=============================================================================
