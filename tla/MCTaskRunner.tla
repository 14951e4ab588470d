---------------------------- MODULE MCTaskRunner ----------------------------
(***************************************************************************)
(* Instance for TLC of the process in the background: its Startup, and     *)
(* then TaskRunner.  Neither reads a variable of the other, so that every  *)
(* behaviour of both is a shuffle of behaviours of each; the initial state *)
(* chooses the one that is followed.                                       *)
(***************************************************************************)
EXTENDS TaskRunner

CONSTANTS MaxStarts, MaxEdits

VARIABLES
  part,
  db, group, seeded, step, fresh, starts, edits, chosen, cut

S == INSTANCE Startup

ASSUME StartupAssumption == MaxStarts \in Nat /\ MaxEdits \in Nat

starting == <<db, group, seeded, step, fresh, starts, edits, chosen, cut>>

\* What is not followed has no state.
NoStart ==
  /\ db = None /\ group = None /\ seeded = None /\ step = None /\ fresh = None /\ starts = None /\ edits = None
  /\ chosen = None /\ cut = None

ProcessInit ==
  /\ Init
  /\ \/ part = "tasks" /\ NoStart
     \/ part = "startup" /\ S!Init

ProcessNext ==
  /\ UNCHANGED part
  /\ \/ part = "tasks" /\ Next /\ UNCHANGED starting
     \/ part = "startup" /\ S!Next /\ UNCHANGED vars

Process == ProcessInit /\ [][ProcessNext]_<<part, vars, starting>> /\ Fairness

-----------------------------------------------------------------------------
\* Startup: a server that runs has a whole schema and what was chosen before
\* (and its variables their types).
StartsComplete == part = "startup" => S!TypeOK /\ S!StartsComplete

-----------------------------------------------------------------------------
\* One of the two tasks has a type that no handler is registered for.
OnlyFirst == {1}

=============================================================================
