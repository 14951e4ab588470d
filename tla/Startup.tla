------------------------------- MODULE Startup --------------------------------
(***************************************************************************)
(* The start of the process: the database is migrated step by step, not in *)
(* one transaction, defaults are seeded, and the server runs.  A start may *)
(* fail or be killed at any step and is begun again; while the server      *)
(* runs, an administrator changes what was seeded.                         *)
(*                                                                         *)
(* The group stands for the default group and the guest group, its "zero"  *)
(* for 0 in the columns a version added, its "default" for the values the  *)
(* program sets.  What the repair of private albums does is in Albums.     *)
(***************************************************************************)
EXTENDS Integers, Sequences

CONSTANTS
  MaxStarts,   \* bound on starts
  MaxEdits     \* bound on changes by an administrator

VARIABLES
  db,          \* the schema
  group,       \* the groups' traffic quota, lifecycle and extensions
  seeded,      \* the local policy and the settings
  step,        \* the step the process is at, 0 when it is down
  fresh,       \* whether this start found no schema version table
  starts, edits,
  chosen,      \* history: what an administrator set last
  cut          \* history: a start ended after the version table and before the foreign keys

disk == <<db, group, seeded>>
startup == <<disk, step, fresh, starts, edits, chosen, cut>>

Columns == {"quota", "life", "exts"}
Contents == {"none", "zero", "default", "custom", "stock"}
Some == {"none", "some", "all"}
Schemas == [dialect: {"sqlite", "postgres"}, old: BOOLEAN, tables: {"none", "some", "versioned", "all"}, keys: Some,
            indexes: BOOLEAN, oldIndex: BOOLEAN, blank: BOOLEAN, orphans: BOOLEAN, versions: SUBSET (1 .. 9)]

\* The extensions are recorded as done before they are.
StepsRecordingFirst ==
  <<"look", "tables", "orphans", "keys", "indexes", "surfaces", "oldIndex", "seven", "quota", "eight", "private",
    "check", "nine", "exts", "seed", "run">>

\* Migrate, then Seed.
Steps ==
  <<"look", "tables", "orphans", "keys", "indexes", "surfaces", "oldIndex", "seven", "quota", "eight", "private",
    "check", "exts", "nine", "seed", "run">>

At(name) == step > 0 /\ Steps[step] = name
Running == At("run")
To(name) == step' = CHOOSE n \in DOMAIN Steps : Steps[n] = name
Onward == step' = step + 1

Untouched == [c \in Columns |-> "none"]

\* A new database, or that of an older version: without keys on SQLite, with
\* the single-column index, empty surfaces and the groups of that version.
New(dialect) ==
  [dialect |-> dialect, old |-> FALSE, tables |-> "none", keys |-> "none", indexes |-> FALSE, oldIndex |-> FALSE,
   blank |-> FALSE, orphans |-> FALSE, versions |-> {}]
Old(dialect) ==
  [dialect |-> dialect, old |-> TRUE, tables |-> "versioned", keys |-> "none", indexes |-> FALSE, oldIndex |-> TRUE,
   blank |-> TRUE, orphans |-> TRUE, versions |-> 1 .. 4]

Init ==
  /\ \E dialect \in {"sqlite", "postgres"} :
       \/ db = New(dialect) /\ group = Untouched /\ seeded = {}
       \/ /\ db = Old(dialect)
          /\ group \in [quota: {"zero"}, life: {"zero", "custom"}, exts: {"stock", "custom"}]
          /\ seeded = {"policy"}
  /\ step = 0 /\ fresh = FALSE
  /\ starts = 0 /\ edits = 0
  /\ chosen = Untouched /\ cut = FALSE

-----------------------------------------------------------------------------
(* A start.                                                                *)

Start ==
  /\ step = 0 /\ starts < MaxStarts /\ starts' = starts + 1
  /\ step' = 1
  /\ UNCHANGED <<disk, fresh, edits, chosen, cut>>

\* Every step may be the last one.
Dies ==
  /\ step > 0
  /\ step' = 0
  /\ cut' = (cut \/ (db.tables \in {"versioned", "all"} /\ db.keys # "all" /\ ~db.old /\ step > 1))
  /\ UNCHANGED <<disk, fresh, starts, edits, chosen>>

Passes(name) == At(name) /\ UNCHANGED <<starts, edits, chosen, cut>>

\* Migrate looks for the version table first.
Look ==
  /\ Passes("look")
  /\ fresh' = (db.tables \in {"none", "some"})
  /\ Onward
  /\ UNCHANGED disk

\* AutoMigrate: tables, columns and indexes, one table after the other.
AutoMigrate ==
  /\ Passes("tables")
  /\ \/ db.tables = "none" /\ db' = [db EXCEPT !.tables = "some"] /\ UNCHANGED step
     \/ db.tables = "some" /\ db' = [db EXCEPT !.tables = "versioned"] /\ UNCHANGED step
     \/ db.tables \in {"versioned", "all"} /\ db' = [db EXCEPT !.tables = "all", !.indexes = TRUE] /\ Onward
  /\ UNCHANGED <<group, seeded, fresh>>

\* applyForeignKeys leaves a SQLite file that is not new as it is; elsewhere
\* references to albums that are gone are cleared ...
ClearOrphans ==
  /\ Passes("orphans")
  /\ IF db.dialect = "sqlite" /\ ~fresh THEN To("indexes") /\ UNCHANGED db
     ELSE Onward /\ db' = IF fresh THEN db ELSE [db EXCEPT !.orphans = FALSE]
  /\ UNCHANGED <<group, seeded, fresh>>

\* ... and the constraints created one by one, which an orphan would refuse;
\* on SQLite each one rebuilds its table, without the indexes.
CreateKeys ==
  /\ Passes("keys") /\ ~db.orphans
  /\ LET rebuilt == db.indexes /\ db.dialect # "sqlite" IN
     \/ db.keys = "none" /\ db' = [db EXCEPT !.keys = "some", !.indexes = rebuilt] /\ UNCHANGED step
     \/ db.keys = "some" /\ db' = [db EXCEPT !.keys = "all", !.indexes = rebuilt] /\ UNCHANGED step
     \/ db.keys = "all" /\ Onward /\ UNCHANGED db
  /\ UNCHANGED <<group, seeded, fresh>>

EnsureIndexes ==
  /\ Passes("indexes")
  /\ db' = [db EXCEPT !.indexes = TRUE]
  /\ Onward
  /\ UNCHANGED <<group, seeded, fresh>>

\* migrateSurface: two statements.
MigrateSurface ==
  /\ \/ Passes("surfaces") /\ db' = [db EXCEPT !.blank = FALSE]
     \/ Passes("oldIndex") /\ db' = [db EXCEPT !.oldIndex = FALSE]
  /\ Onward
  /\ UNCHANGED <<group, seeded, fresh>>

\* The version rows, created one by one unless they are there.
RecordVersion ==
  /\ \/ /\ Passes("seven")
        /\ LET missing == (1 .. 7) \ db.versions IN
           IF missing = {} THEN Onward /\ UNCHANGED db
           ELSE \E v \in missing : /\ \A u \in missing : v <= u
                                   /\ db' = [db EXCEPT !.versions = @ \cup {v}] /\ UNCHANGED step
     \/ Passes("eight") /\ db' = [db EXCEPT !.versions = @ \cup {8}] /\ Onward
     \/ Passes("nine") /\ db' = [db EXCEPT !.versions = @ \cup {9}] /\ Onward
  /\ UNCHANGED <<group, seeded, fresh>>

\* migrateBandwidthDefaults: at every start, whichever versions are recorded.
BandwidthDefaults ==
  /\ Passes("quota")
  /\ group' = IF group.quota = "zero" THEN [group EXCEPT !.quota = "default"] ELSE group
  /\ Onward
  /\ UNCHANGED <<db, seeded, fresh>>

PrivateAlbumImages ==
  /\ Passes("private")
  /\ Onward
  /\ UNCHANGED <<disk, fresh>>

NineIsDone == 9 \in db.versions

\* applySchemaV9StockHeic: once, unless it was cut short; lists that are not
\* the old default stay.
StockHeic ==
  /\ \/ /\ Passes("check")
        /\ IF NineIsDone THEN To("seed") ELSE Onward
        /\ UNCHANGED group
     \/ /\ Passes("exts")
        /\ group' = IF group.exts = "stock" THEN [group EXCEPT !.exts = "default"] ELSE group
        /\ Onward
  /\ UNCHANGED <<db, seeded, fresh>>

\* Seed, in a transaction: what is missing is created, a lifecycle of zeros set.
Seed ==
  /\ Passes("seed")
  /\ group' = [c \in Columns |-> IF group[c] = "none" \/ (c = "life" /\ group[c] = "zero") THEN "default" ELSE group[c]]
  /\ seeded' = {"policy", "settings"}
  /\ Onward
  /\ UNCHANGED <<db, fresh>>

-----------------------------------------------------------------------------
(* An administrator, while the server runs.                                *)

Edit(column, value) ==
  /\ Running /\ edits < MaxEdits /\ edits' = edits + 1
  /\ value = "stock" => column = "exts"
  /\ value = "zero" => column # "exts"
  /\ group' = [group EXCEPT ![column] = value]
  /\ chosen' = [chosen EXCEPT ![column] = value]
  /\ UNCHANGED <<db, seeded, step, fresh, starts, cut>>

DeletePolicy ==
  /\ Running /\ edits < MaxEdits /\ edits' = edits + 1
  /\ seeded' = seeded \ {"policy"}
  /\ UNCHANGED <<db, group, step, fresh, starts, chosen, cut>>

Next ==
  \/ Start \/ Dies
  \/ Look \/ AutoMigrate \/ ClearOrphans \/ CreateKeys \/ EnsureIndexes \/ MigrateSurface \/ RecordVersion
  \/ BandwidthDefaults \/ PrivateAlbumImages \/ StockHeic \/ Seed
  \/ \E column \in Columns, value \in {"zero", "custom", "stock"} : Edit(column, value)
  \/ DeletePolicy

Spec == Init /\ [][Next]_startup

-----------------------------------------------------------------------------
(* Properties.                                                             *)

TypeOK ==
  /\ db \in Schemas
  /\ group \in [Columns -> Contents] /\ chosen \in [Columns -> Contents]
  /\ seeded \subseteq {"policy", "settings"}
  /\ step \in 0 .. Len(Steps) /\ fresh \in BOOLEAN /\ cut \in BOOLEAN
  /\ starts \in 0 .. MaxStarts /\ edits \in 0 .. MaxEdits

\* What a start resets: a traffic quota of 0 and a lifecycle of zeros.
Reset(column, value) == IF column # "exts" /\ value = "zero" THEN {"zero", "default"} ELSE {value}

\* However often starts were cut short, a server that runs has all tables,
\* indexes and versions, one file row per hash and surface, foreign keys but on
\* a SQLite file that is old or whose first start ended between the version
\* table and the keys, and groups that an older version left with defaults; and
\* what an administrator chose stays through every start, but for zeros, which
\* are taken for columns never written (Migrate, applyForeignKeys,
\* ensureIndexes, applySchemaV9StockHeic, Seed).
StartsComplete ==
  Running =>
    /\ db.tables = "all" /\ db.indexes /\ ~db.oldIndex /\ ~db.blank /\ db.versions = 1 .. 9
    /\ db.keys = "all" \/ (db.dialect = "sqlite" /\ (db.old \/ cut))
    /\ \A c \in Columns :
         IF chosen[c] = "none" THEN group[c] \in {"default", "custom"} ELSE group[c] \in Reset(c, chosen[c])
    /\ "settings" \in seeded

=============================================================================
