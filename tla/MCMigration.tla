---------------------------- MODULE MCMigration ------------------------------
(***************************************************************************)
(* Instance of Migration for TLC: two policies, a job either way that      *)
(* deletes its source.  What is stored at the start is on the first.       *)
(***************************************************************************)
EXTENDS Migration, TLC

CONSTANTS p1, p2

Job(from, to, dry, limit) ==
  [from |-> from, to |-> to, dry |-> dry, delete |-> TRUE, limit |-> limit, only |-> Files]

MCOptions == {Job(p1, p2, FALSE, 0), Job(p2, p1, FALSE, 1)}

SeededInit == Init /\ \A f \in 1 .. Seeded : files[f] = p1
Moving == SeededInit /\ [][Next]_vars

Symmetry == Permutations(Jobs)

=============================================================================
