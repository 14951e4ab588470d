------------------------------- MODULE Upgrade --------------------------------
(***************************************************************************)
(* The one-click upgrade: a release is downloaded and checked, copied      *)
(* beside the binary, the binary is renamed to its backup and the copy to  *)
(* the binary, and the process executes it.  Nothing keeps two requests    *)
(* from doing so at once, with the same names beside the binary.           *)
(*                                                                         *)
(* Releases are numbers.  A file is its release and whether it is whole;   *)
(* a writer holds the file it opened, under whatever name it has by then.  *)
(***************************************************************************)
EXTENDS Integers, FiniteSets

CONSTANTS
  Requests,    \* upgrade requests
  Releases,    \* releases a request may ask for, numbers above 0
  MaxRequests, \* bound on requests
  MaxFaults    \* bound on failed writes and renames, and on crashes

VARIABLES
  dir,         \* the binary, its backup and the copy beside it
  running,     \* the release the process is, 0 when it is down
  req,         \* the requests
  asked,       \* requests so far
  faults,      \* faults so far
  overlapped,  \* history: two requests were at work beside the binary at once
  oldest       \* history: the release the last process that ran was

files == <<dir, running, req, asked, faults, overlapped, oldest>>

Names == {"exe", "bak", "new"}
NoFile == [release |-> 0, whole |-> FALSE]
Whole(r) == [release |-> r, whole |-> TRUE]
Part(r) == [release |-> r, whole |-> FALSE]
FileRecords == {NoFile} \cup [release: {1} \cup Releases, whole: BOOLEAN]

\* Where a request stands, whether the archive it downloaded is the released
\* one, and the name of the file it writes.
Steps == {"idle", "fetch", "verify", "open", "copy", "unbackup", "backup", "install", "restore", "exec"}
RequestRecords == [at: Steps, to: {0} \cup Releases, genuine: BOOLEAN, writes: {"none"} \cup Names]
Idle == [at |-> "idle", to |-> 0, genuine |-> FALSE, writes |-> "none"]

AtWork == {r \in Requests : req[r].at \notin {"idle", "fetch", "verify", "exec"}}

Init ==
  /\ dir = [n \in Names |-> IF n = "exe" THEN Whole(1) ELSE NoFile]
  /\ running = 1 /\ oldest = 1
  /\ req = [r \in Requests |-> Idle]
  /\ asked = 0 /\ faults = 0 /\ overlapped = FALSE

There(n) == dir[n] # NoFile
Failing == faults < MaxFaults /\ faults' = faults + 1
Goes(r, at) == req' = [req EXCEPT ![r].at = at]
Ends(r) == req' = [req EXCEPT ![r] = Idle]

\* A rename takes the file along, and those who still write it.
Renamed(from, to, r, at) ==
  /\ dir' = [dir EXCEPT ![to] = dir[from], ![from] = NoFile]
  /\ req' = [q \in Requests |->
       LET moved == [req[q] EXCEPT !.writes = CASE @ = from -> to [] @ = to -> "none" [] OTHER -> @] IN
       IF q = r THEN [moved EXCEPT !.at = at] ELSE moved]

Removed(n, r, at) ==
  /\ dir' = [dir EXCEPT ![n] = NoFile]
  /\ req' = [q \in Requests |->
       LET left == [req[q] EXCEPT !.writes = IF @ = n THEN "none" ELSE @] IN
       IF q # r THEN left ELSE IF at = "idle" THEN Idle ELSE [left EXCEPT !.at = at]]

-----------------------------------------------------------------------------
\* UpgradeBinary: a release newer than the process is asked for ...
Newer(release) == running < release

Ask(r, release) ==
  /\ running > 0 /\ req[r].at = "idle" /\ asked < MaxRequests /\ asked' = asked + 1
  /\ Newer(release)
  /\ req' = [req EXCEPT ![r] = [Idle EXCEPT !.at = "fetch", !.to = release]]
  /\ UNCHANGED <<dir, running, faults, overlapped, oldest>>

\* ... downloaded to a directory of the request's own, damaged or not ...
Fetch(r) ==
  /\ req[r].at = "fetch"
  /\ \/ req' = [req EXCEPT ![r].at = "verify", ![r].genuine = TRUE] /\ UNCHANGED faults
     \/ Failing /\ Goes(r, "verify")
  /\ UNCHANGED <<dir, running, asked, overlapped, oldest>>

\* ... and its checksum compared, or the request fails.
Verify(r) ==
  /\ req[r].at = "verify"
  /\ IF req[r].genuine THEN Goes(r, "open") /\ overlapped' = (overlapped \/ AtWork # {})
     ELSE Ends(r) /\ UNCHANGED overlapped
  /\ UNCHANGED <<dir, running, asked, faults, oldest>>

\* The copy beside the binary is created, or truncated if it is there.
Create(r) ==
  /\ req[r].at = "open"
  /\ dir' = [dir EXCEPT !["new"] = Part(req[r].to)]
  /\ req' = [req EXCEPT ![r].at = "copy", ![r].writes = "new"]
  /\ UNCHANGED <<running, asked, faults, overlapped, oldest>>

\* It is written to the end, under the name it has now, if it still has one.
\* A request that shares the file has truncated it or writes over it.
Copy(r) ==
  LET n == req[r].writes
      alone == \A q \in Requests \ {r} : req[q].at = "copy" => req[q].writes # n IN
  /\ req[r].at = "copy"
  /\ dir' = IF n = "none" THEN dir
            ELSE [dir EXCEPT ![n] = IF alone /\ dir[n].release = req[r].to THEN Whole(req[r].to) ELSE Part(dir[n].release)]
  /\ req' = [req EXCEPT ![r].at = "unbackup", ![r].writes = "none"]
  /\ UNCHANGED <<running, asked, faults, overlapped, oldest>>

\* A copy that fails is removed, by name.
CopyFails(r) ==
  /\ req[r].at = "copy" /\ Failing
  /\ Removed("new", r, "idle")
  /\ UNCHANGED <<running, asked, overlapped, oldest>>

\* The backup of the upgrade before goes.
RemoveBackup(r) ==
  /\ req[r].at = "unbackup"
  /\ Removed("bak", r, "backup")
  /\ UNCHANGED <<running, asked, faults, overlapped, oldest>>

\* The binary is moved out of the way first ...
Backup(r) ==
  /\ req[r].at = "backup"
  /\ IF There("exe") THEN Renamed("exe", "bak", r, "install") /\ UNCHANGED faults
     ELSE Removed("new", r, "idle") /\ UNCHANGED faults
  /\ UNCHANGED <<running, asked, overlapped, oldest>>

BackupFails(r) ==
  /\ req[r].at = "backup" /\ Failing
  /\ Removed("new", r, "idle")
  /\ UNCHANGED <<running, asked, overlapped, oldest>>

\* A failure to install is reported at once.
RestoreNever(r) == Removed("new", r, "idle")

\* The backup is put back.
Restore(r) == IF There("bak") THEN Renamed("bak", "exe", r, "restore") ELSE Goes(r, "restore") /\ UNCHANGED dir

\* ... and the copy takes its name ...
Install(r) ==
  /\ req[r].at = "install"
  /\ IF There("new") THEN Renamed("new", "exe", r, "exec") ELSE Restore(r)
  /\ UNCHANGED <<running, asked, faults, overlapped, oldest>>

InstallFails(r) ==
  /\ req[r].at = "install" /\ Failing
  /\ Restore(r)
  /\ UNCHANGED <<running, asked, overlapped, oldest>>

\* ... or, after the backup was put back, is removed.
Discard(r) ==
  /\ req[r].at = "restore"
  /\ Removed("new", r, "idle")
  /\ UNCHANGED <<running, asked, faults, overlapped, oldest>>

\* scheduleReexec: whatever has the binary's name takes the process over, and
\* every request in it ends; without it the process goes on.
Reexec(r) ==
  /\ req[r].at = "exec"
  /\ IF dir["exe"].whole
       THEN running' = dir["exe"].release /\ oldest' = dir["exe"].release /\ req' = [q \in Requests |-> Idle]
       ELSE Ends(r) /\ UNCHANGED <<running, oldest>>
  /\ UNCHANGED <<dir, asked, faults, overlapped>>

Crash ==
  /\ running > 0 /\ Failing
  /\ running' = 0
  /\ req' = [r \in Requests |-> Idle]
  /\ UNCHANGED <<dir, asked, overlapped, oldest>>

\* The service manager starts the binary, if there is one.
Start ==
  /\ running = 0 /\ dir["exe"].whole
  /\ running' = dir["exe"].release /\ oldest' = dir["exe"].release
  /\ UNCHANGED <<dir, req, asked, faults, overlapped>>

Next ==
  \/ \E r \in Requests :
       \/ \E release \in Releases : Ask(r, release)
       \/ Fetch(r) \/ Verify(r) \/ Create(r) \/ Copy(r) \/ CopyFails(r) \/ RemoveBackup(r) \/ Backup(r) \/ BackupFails(r)
       \/ Install(r) \/ InstallFails(r) \/ Discard(r) \/ Reexec(r)
  \/ Crash \/ Start

Spec == Init /\ [][Next]_files

-----------------------------------------------------------------------------
(* Properties.                                                             *)

TypeOK ==
  /\ dir \in [Names -> FileRecords]
  /\ running \in {0, 1} \cup Releases /\ oldest \in {1} \cup Releases
  /\ req \in [Requests -> RequestRecords]
  /\ asked \in 0 .. MaxRequests /\ faults \in 0 .. MaxFaults /\ overlapped \in BOOLEAN

\* Unless two upgrades overlapped, the binary is whole and no older than the
\* process, whatever write or rename failed and wherever the process was
\* killed; only between the two renames, and after a crash there, is it the
\* backup that is (UpgradeBinary, replaceExecutable).
BinaryIsKept ==
  overlapped \/
    \/ dir["exe"].whole /\ dir["exe"].release >= oldest
    \/ /\ ~There("exe") /\ dir["bak"].whole /\ dir["bak"].release >= oldest
       /\ running = 0 \/ \E r \in Requests : req[r].at = "install"

=============================================================================
