------------------------------ MODULE Delivery ------------------------------
(***************************************************************************)
(* How the bytes of an original travel once the gate has let a request     *)
(* through: a redirect to the policy's CDN, a signed URL, or a stream from *)
(* the driver that Resolver keeps for each storage policy.  Meanwhile      *)
(* administrators edit policies and probe them, owners change the image,   *)
(* and a migration moves its file.                                         *)
(*                                                                         *)
(* The image has a file on each surface and one from before there were     *)
(* surfaces, whose object key has no prefix.  A policy is an end to talk   *)
(* to, whether it signs URLs, and whether it has a cdn_domain; one made of *)
(* blanks passes the validation, is stored as it is and counts as one.     *)
(***************************************************************************)
EXTENDS Integers

CONSTANTS
  Requests,   \* requests served at the same time
  Policies,   \* storage policies, by id
  Endpoints,  \* servers and directories a policy can point to
  MaxChanges  \* bound on edits, updates, moves and restarts, together

VARIABLES
  row,     \* the storage_policies table
  built,   \* Resolver.cache: the configuration each driver was built from
  image,   \* the images row
  home,    \* the policy of each file, 0 when there is no such row
  req,     \* requests for the original
  probe,   \* TestPolicy
  changes  \* changes so far

vars == <<row, built, image, home, req, probe, changes>>

Files == {"public", "private", "old"}
Configs == [end: Endpoints, signs: BOOLEAN]
AnyConfig == [end |-> CHOOSE e \in Endpoints : TRUE, signs |-> FALSE]
NoDriver == [end |-> "none", signs |-> FALSE]
RowRecords == [config: Configs, cdn: BOOLEAN]
ImageRecords == [public: BOOLEAN, limited: BOOLEAN, file: Files]

\* "crossed": something changed since the request read the image.
ReqRecords == [pc: {"idle", "file", "policy", "cdn", "sign", "stream", "done"}, image: ImageRecords,
               policy: Policies \cup {0}, row: RowRecords, way: {"none", "cdn", "signed", "stream"},
               end: Endpoints \cup {"none"}, crossed: BOOLEAN]
ProbeRecords == [pc: {"idle", "put", "open", "delete", "done"}, policy: Policies \cup {0}, end: Endpoints \cup {"none"},
                 passed: BOOLEAN, left: BOOLEAN, crossed: BOOLEAN]

NewImage == [public |-> TRUE, limited |-> FALSE, file |-> "old"]
NoRow == [config |-> AnyConfig, cdn |-> FALSE]
Idle == [pc |-> "idle", image |-> NewImage, policy |-> 0, row |-> NoRow, way |-> "none", end |-> "none",
         crossed |-> FALSE]
NoProbe == [pc |-> "idle", policy |-> 0, end |-> "none", passed |-> FALSE, left |-> FALSE, crossed |-> FALSE]

TypeOK ==
  /\ row \in [Policies -> RowRecords]
  /\ built \in [Policies -> Configs \cup {NoDriver}]
  /\ image \in ImageRecords
  /\ home \in [Files -> Policies \cup {0}]
  /\ req \in [Requests -> ReqRecords]
  /\ probe \in ProbeRecords
  /\ changes \in 0 .. MaxChanges

Init ==
  /\ row = [p \in Policies |-> NoRow]
  /\ built = [p \in Policies |-> NoDriver]
  /\ \E f \in Files : /\ image = [NewImage EXCEPT !.public = f # "private", !.file = f]
                      /\ \E p \in Policies : home = [g \in Files |-> IF g = f THEN p ELSE 0]
  /\ req = [r \in Requests |-> Idle]
  /\ probe = NoProbe
  /\ changes = 0

-----------------------------------------------------------------------------
(* One request.                                                            *)

At(r, step) == req[r].pc = step
Answers(r, way, end) ==
  req' = [req EXCEPT ![r] = [Idle EXCEPT !.pc = "done", !.way = way, !.end = end, !.crossed = req[r].crossed]]

Find(r) ==
  /\ At(r, "idle")
  /\ req' = [req EXCEPT ![r] = [Idle EXCEPT !.pc = "file", !.image = image]]
  /\ UNCHANGED <<row, built, image, home, probe, changes>>

\* LoadFilePolicy reads the file by the id in the image's row ...
LoadFile(r) ==
  /\ At(r, "file")
  /\ LET p == home[req[r].image.file] IN
     req' = [req EXCEPT ![r] = IF p = 0 THEN Idle ELSE [@ EXCEPT !.pc = "policy", !.policy = p]]
  /\ UNCHANGED <<row, built, image, home, probe, changes>>

\* ... and the policy by the id in the file's.
LoadPolicy(r) ==
  /\ At(r, "policy")
  /\ req' = [req EXCEPT ![r].pc = "cdn", ![r].row = row[req[r].policy]]
  /\ UNCHANGED <<row, built, image, home, probe, changes>>

\* CDNEligibleObjectKey: by the prefix of the key.
CDNEligible(f) == f # "private"

\* ObjectURL is empty without a cdn_domain, and only then.
ObjectURL(cfg, f) == cfg.cdn /\ CDNEligible(f)

\* Original asks for the image, the surface and the key to be public.
Redirect(r) ==
  /\ At(r, "cdn")
  /\ LET q == req[r] IN
     IF ~q.image.limited /\ q.image.public /\ q.image.file \in {"old", "public"} /\ ObjectURL(q.row, q.image.file)
       THEN Answers(r, "cdn", "none")
       ELSE req' = [req EXCEPT ![r].pc = IF q.image.public THEN "stream" ELSE "sign"]
  /\ UNCHANGED <<row, built, image, home, probe, changes>>

\* A driver is used again if it was built from this very configuration.
Hit(p, config) == built[p] = config

\* Resolver.Driver, under its mutex: the driver the caller goes on with.
Driver(r) == LET q == req[r] IN IF Hit(q.policy, q.row.config) THEN built[q.policy] ELSE q.row.config
Keeps(r) == built' = [built EXCEPT ![req[r].policy] = Driver(r)]

\* A signed URL, if the driver signs; whatever fails here falls back to the
\* stream, which asks for the driver again.
Presign(r) ==
  /\ At(r, "sign")
  /\ \/ /\ Keeps(r)
        /\ Driver(r).signs
        /\ Answers(r, "signed", Driver(r).end)
     \/ /\ Keeps(r) \/ UNCHANGED built
        /\ req' = [req EXCEPT ![r].pc = "stream"]
  /\ UNCHANGED <<row, image, home, probe, changes>>

\* streamFile, or a driver that cannot be built.
Stream(r) ==
  /\ At(r, "stream")
  /\ \/ /\ Keeps(r)
        /\ Answers(r, "stream", Driver(r).end)
     \/ /\ ~Hit(req[r].policy, req[r].row.config)
        /\ req' = [req EXCEPT ![r] = Idle]
        /\ UNCHANGED built
  /\ UNCHANGED <<row, image, home, probe, changes>>

Finish(r) ==
  /\ At(r, "done")
  /\ req' = [req EXCEPT ![r] = Idle]
  /\ UNCHANGED <<row, built, image, home, probe, changes>>

-----------------------------------------------------------------------------
(* A probe: put, open, compare and delete an object nobody else names,     *)
(* with a driver of its own.                                               *)

\* What is left of an object whose write or deletion failed.
Perhaps(q) == {[q EXCEPT !.pc = "done", !.left = x] : x \in BOOLEAN}

TestPolicy(p) ==
  /\ probe.pc = "idle"
  /\ probe' = [NoProbe EXCEPT !.pc = "put", !.policy = p, !.end = row[p].config.end]
  /\ UNCHANGED <<row, built, image, home, req, changes>>

ProbePut ==
  /\ probe.pc = "put"
  /\ probe' \in {[probe EXCEPT !.pc = "open", !.left = TRUE]} \cup Perhaps(probe)
  /\ UNCHANGED <<row, built, image, home, req, changes>>

ProbeOpen ==
  /\ probe.pc = "open"
  /\ probe' \in {[probe EXCEPT !.pc = "delete"]} \cup Perhaps(probe)
  /\ UNCHANGED <<row, built, image, home, req, changes>>

\* The probe passes only if its own object could be deleted.
ProbeDelete ==
  /\ probe.pc = "delete"
  /\ probe' \in {[probe EXCEPT !.pc = "done", !.left = FALSE, !.passed = TRUE]} \cup Perhaps(probe)
  /\ UNCHANGED <<row, built, image, home, req, changes>>

ProbeFinish ==
  /\ probe.pc = "done"
  /\ probe' = NoProbe
  /\ UNCHANGED <<row, built, image, home, req, changes>>

-----------------------------------------------------------------------------
(* What changes under them.                                                *)

Changes ==
  /\ changes < MaxChanges
  /\ changes' = changes + 1
  /\ req' = [r \in Requests |-> IF At(r, "idle") THEN req[r] ELSE [req[r] EXCEPT !.crossed = TRUE]]
  /\ probe' = IF probe.pc = "idle" THEN probe ELSE [probe EXCEPT !.crossed = TRUE]

\* UpdatePolicy writes the columns of the patch and leaves the cache alone.
UpdatePolicy(p) ==
  /\ Changes
  /\ \/ \E c \in Configs \ {row[p].config} : row' = [row EXCEPT ![p].config = c]
     \/ row' = [row EXCEPT ![p].cdn = ~@]
  /\ UNCHANGED <<built, image, home>>

\* A switch takes the image to the file of its new surface, or leaves the two
\* apart when it is overtaken; a file that others use stays.
Switched(public, moves, shared) ==
  LET f == image.file
      g == IF ~moves \/ public = (f # "private") THEN f
           ELSE IF public THEN "public" ELSE "private" IN
  /\ image' = [image EXCEPT !.public = public, !.file = g]
  /\ image' # image
  /\ home' = [home EXCEPT ![f] = IF shared \/ f = g THEN @ ELSE 0,
                          ![g] = IF @ = 0 THEN home[f] ELSE @]

\* Update: a limit or a password, or a switch.
Update ==
  /\ Changes
  /\ \/ /\ image' = [image EXCEPT !.limited = ~@]
        /\ UNCHANGED home
     \/ \E public \in BOOLEAN, moves \in BOOLEAN, shared \in BOOLEAN : Switched(public, moves, shared)
  /\ UNCHANGED <<row, built>>

\* MigrateFiles points the file to another policy.
Migrate(p) ==
  /\ Changes
  /\ home[image.file] # p
  /\ home' = [home EXCEPT ![image.file] = p]
  /\ UNCHANGED <<row, built, image>>

Restart ==
  /\ changes < MaxChanges
  /\ changes' = changes + 1
  /\ built' = [p \in Policies |-> NoDriver]
  /\ req' = [r \in Requests |-> Idle]
  /\ probe' = NoProbe
  /\ UNCHANGED <<row, image, home>>

Serve(r) ==
  \/ Find(r) \/ LoadFile(r) \/ LoadPolicy(r) \/ Redirect(r)
  \/ Presign(r) \/ Stream(r) \/ Finish(r)

\* Requests and probes have nothing in common but the rows they read.
Delivering ==
  \/ \E r \in Requests : Serve(r)
  \/ \E p \in Policies : UpdatePolicy(p) \/ Migrate(p)
  \/ Update \/ Restart

Probing ==
  \/ \E p \in Policies : TestPolicy(p) \/ UpdatePolicy(p)
  \/ ProbePut \/ ProbeOpen \/ ProbeDelete \/ ProbeFinish

-----------------------------------------------------------------------------
\* A request that nothing crosses is sent where the tables say now, whoever
\* came before it with what the tables said then: to the server its policy
\* points to, and to the public CDN only for an image that is public, without
\* a limit, and not on the private surface (Resolver.Driver, Original).
DeliveredAsStored ==
  \A r \in Requests :
    req[r].pc = "done" /\ ~req[r].crossed =>
      LET now == row[home[image.file]] IN
      CASE req[r].way = "cdn" ->
             image.public /\ ~image.limited /\ image.file # "private" /\ now.cdn
        [] req[r].way = "signed" -> ~image.public /\ now.config.signs /\ req[r].end = now.config.end
        [] OTHER -> req[r].end = now.config.end

\* A probe that passes has left nothing behind where the policy points to
\* (TestPolicy).
ProbesCleanUp ==
  probe.passed => ~probe.left /\ (probe.crossed \/ probe.end = row[probe.policy].config.end)

=============================================================================
