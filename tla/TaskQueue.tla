------------------------------ MODULE TaskQueue ------------------------------
(***************************************************************************)
(* What the background task table promises to the code that enqueues a     *)
(* task: its handler is executed, possibly several times; it settles as    *)
(* done only after a successful execution; and it stays as it settled,     *)
(* unless one of its executions outlived the fifteen minutes after which a *)
(* running task is taken for stuck.                                        *)
(***************************************************************************)

CONSTANT Tasks

VARIABLES
  fate,     \* what has become of each task
  ran,      \* tasks whose handler has returned without error
  overrun   \* tasks with an execution that was taken for stuck

vars == <<fate, ran, overrun>>

Init ==
  /\ fate = [t \in Tasks |-> "none"]
  /\ ran = {}
  /\ overrun = {}

Submit(t) ==
  /\ fate[t] = "none"
  /\ fate' = [fate EXCEPT ![t] = "due"]
  /\ UNCHANGED <<ran, overrun>>

Execute(t) ==
  /\ fate[t] = "due" \/ t \in overrun
  /\ ran' = ran \cup {t}
  /\ UNCHANGED <<fate, overrun>>

TakenForStuck(t) ==
  /\ fate[t] # "none"
  /\ overrun' = overrun \cup {t}
  /\ UNCHANGED <<fate, ran>>

Complete(t) ==
  /\ fate[t] = "due"
  /\ t \in ran
  /\ fate' = [fate EXCEPT ![t] = "done"]
  /\ UNCHANGED <<ran, overrun>>

GiveUp(t) ==
  /\ fate[t] = "due"
  /\ fate' = [fate EXCEPT ![t] = "failed"]
  /\ UNCHANGED <<ran, overrun>>

\* The record of a late execution replaces the one of the execution that
\* took its place.
Overwrite(t) ==
  /\ t \in overrun
  /\ \E f \in {"due", "done", "failed"} :
       /\ f = "done" => t \in ran
       /\ fate' = [fate EXCEPT ![t] = f]
  /\ UNCHANGED <<ran, overrun>>

Next ==
  \E t \in Tasks : \/ Submit(t) \/ Execute(t) \/ TakenForStuck(t)
                   \/ Complete(t) \/ GiveUp(t) \/ Overwrite(t)

Spec == Init /\ [][Next]_vars

=============================================================================
