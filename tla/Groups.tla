-------------------------------- MODULE Groups --------------------------------
(***************************************************************************)
(* User groups and storage policies: what administrators may change while  *)
(* uploads are decided by it.  Every request reads and checks first and    *)
(* writes later; no transaction spans the two.                             *)
(*                                                                         *)
(* There is one user and the groups it may be in; group 1 is the built-in  *)
(* default one.  A duration is a number, 0 for "none" or "for ever"; an    *)
(* image's expiry is the time it has left at most.  View limits follow the *)
(* same rules and are left out, like names, quotas and rates; an image     *)
(* stands for its file.  Legacy SQLite tables have no foreign keys.        *)
(***************************************************************************)
EXTENDS Integers, Sequences, FiniteSets, Functions

CONSTANTS
  NumGroups,   \* groups, by id
  NumPolicies, \* storage policies, by id
  NumImages,   \* images, by id
  Admins,      \* requests in flight
  Endpoints,   \* ends a policy can point to
  Edits,       \* what administrators send for a group
  Limit,       \* images that one ApplyLifecycle covers
  MaxEdits     \* bound on requests

GroupIds  == 1 .. NumGroups
PolicyIds == 1 .. NumPolicies
Images    == 1 .. NumImages
Durations == 0 .. 2
Lists     == {l \in UNION {[1 .. n -> PolicyIds] : n \in 0 .. NumPolicies} : IsInjective(l)}

VARIABLES
  group,     \* the user_groups table
  policy,    \* the storage_policies table
  member,    \* the user's group
  image,     \* the images table, with the policy of the file
  work,      \* requests in flight
  fk,        \* the tables have their foreign keys
  edits,     \* requests so far
  mixed,     \* history: groups where edits that overlapped were combined
  former,    \* history: images admitted under other limits than today's
  crossed    \* history: references written while their target was being deleted

desk == <<group, policy, member, image, work, fk, edits, mixed, former, crossed>>

GroupRecords  == [st: {"none", "live", "gone"}, def: Durations, max: Durations, force: Durations, allowed: Lists]
PolicyRecords == [st: {"none", "live", "gone"}, enabled: BOOLEAN, endpoint: Endpoints, secret: Endpoints]
ImageRecords  == [st: {"none", "live"}, exp: Durations, policy: 0 .. NumPolicies]
Keep == -1
EditRecords == [def: {Keep} \cup Durations, max: {Keep} \cup Durations, force: {Keep} \cup Durations,
                allowed: {<<Keep>>} \cup Lists]
References == ({"group"} \X GroupIds) \cup ({"file"} \X Images) \cup ({"user"} \X {1})
WorkRecords ==
  [pc: {"idle", "newgroup", "group", "dropgroup", "user", "disable", "policy", "referees", "droppolicy",
        "resolve", "commit", "expiry", "clamp"},
   g: 0 .. NumGroups, p: 0 .. NumPolicies, i: 0 .. NumImages, edit: EditRecords, allowed: Lists, exp: Durations,
   cfg: PolicyRecords, left: SUBSET Images, covers: SUBSET Images, since: SUBSET References, stale: BOOLEAN]

AnyEnd  == CHOOSE e \in Endpoints : TRUE
NoGroup == [st |-> "none", def |-> 0, max |-> 0, force |-> 0, allowed |-> <<>>]
NoPolicy == [st |-> "none", enabled |-> FALSE, endpoint |-> AnyEnd, secret |-> AnyEnd]
NoImage == [st |-> "none", exp |-> 0, policy |-> 0]
NoEdit  == [def |-> Keep, max |-> Keep, force |-> Keep, allowed |-> <<Keep>>]
NoWork  == [pc |-> "idle", g |-> 0, p |-> 0, i |-> 0, edit |-> NoEdit, allowed |-> <<>>, exp |-> 0,
            cfg |-> NoPolicy, left |-> {}, covers |-> {}, since |-> {}, stale |-> FALSE]

\* Seed: the default group and the local policy it allows.
Init ==
  /\ group = [g \in GroupIds |-> IF g = 1 THEN [NoGroup EXCEPT !.st = "live", !.allowed = <<1>>] ELSE NoGroup]
  /\ policy = [p \in PolicyIds |-> IF p = 1 THEN [NoPolicy EXCEPT !.st = "live", !.enabled = TRUE] ELSE NoPolicy]
  /\ member = 1
  /\ image = [i \in Images |-> NoImage]
  /\ work = [a \in Admins |-> NoWork]
  /\ fk \in BOOLEAN
  /\ edits = 0 /\ mixed = {} /\ former = {} /\ crossed = {}

Begins(a, record) ==
  /\ work[a].pc = "idle" /\ edits < MaxEdits
  /\ edits' = edits + 1
  /\ work' = [work EXCEPT ![a] = record]
  /\ UNCHANGED <<group, policy, member, image, fk, mixed, former, crossed>>

Ends(a) == work' = [work EXCEPT ![a] = NoWork]

\* A reference is written: deletions that looked before do not know of it.
Refers(a, ref, there) ==
  /\ work' = [b \in Admins |-> IF b = a THEN NoWork ELSE [work[b] EXCEPT !.since = @ \cup {ref}]]
  /\ crossed' = IF there THEN crossed \ {ref} ELSE crossed \cup {ref}

Live(g) == group[g].st = "live"
AllLive(list) == \A p \in Range(list) \ {Keep} : policy[p].st = "live"

-----------------------------------------------------------------------------
(* Groups: adminsvc.                                                       *)

\* validateGroupLifecycle: a default beyond the maximum is refused, one
\* beyond the forced age is not.
ValidLifecycle(def, max) == max = 0 \/ def <= max

Patched(row, e) ==
  [row EXCEPT !.def = IF e.def = Keep THEN @ ELSE e.def, !.max = IF e.max = Keep THEN @ ELSE e.max,
              !.force = IF e.force = Keep THEN @ ELSE e.force, !.allowed = IF e.allowed = <<Keep>> THEN @ ELSE e.allowed]

\* policyIDsExist and validateGroupLifecycle, on the row as it is read.
Accepts(row, e) ==
  /\ AllLive(e.allowed)
  /\ ValidLifecycle(Patched(row, e).def, Patched(row, e).max)

\* effectiveExpiresCapSec: the smaller of the maximum and the forced age.
CapOf(row) == IF row.force > 0 /\ (row.max = 0 \/ row.force < row.max) THEN row.force ELSE row.max

\* The limits an image was checked against are another group's now, or changed.
LimitsMove(was, now) ==
  IF was = now THEN UNCHANGED former
  ELSE former' = {i \in Images : image[i].st = "live"}

BeginCreateGroup(a, g, e) ==
  /\ group[g].st = "none" /\ \A b \in Admins : ~(work[b].pc = "newgroup" /\ work[b].g = g)
  /\ Accepts(NoGroup, e)
  /\ Begins(a, [NoWork EXCEPT !.pc = "newgroup", !.g = g, !.edit = e])

CreateGroup(a) ==
  LET g == work[a].g
      row == [Patched(NoGroup, work[a].edit) EXCEPT !.st = "live"] IN
  /\ work[a].pc = "newgroup"
  /\ group' = [group EXCEPT ![g] = row]
  /\ Refers(a, <<"group", g>>, AllLive(row.allowed))
  /\ UNCHANGED <<policy, member, image, fk, edits, mixed, former>>

BeginUpdateGroup(a, g, e) ==
  /\ Live(g) /\ e # NoEdit /\ Accepts(group[g], e)
  /\ Begins(a, [NoWork EXCEPT !.pc = "group", !.g = g, !.edit = e])

\* Only the columns of the patch are written, so that overlapping edits are
\* combined; a group deleted meanwhile is not found.
UpdateGroup(a) ==
  LET g   == work[a].g
      row == Patched(group[g], work[a].edit) IN
  /\ work[a].pc = "group"
  /\ IF ~Live(g)
       THEN Ends(a) /\ UNCHANGED <<group, mixed, former, crossed>>
       ELSE /\ group' = [group EXCEPT ![g] = row]
            /\ mixed' = IF ValidLifecycle(row.def, row.max) THEN mixed \ {g}
                        ELSE IF work[a].stale THEN mixed \cup {g} ELSE mixed
            /\ work' = [b \in Admins |->
                 IF b = a THEN NoWork
                 ELSE [work[b] EXCEPT !.stale = TRUE,
                         !.since = IF work[a].edit.allowed = <<Keep>> THEN @ ELSE @ \cup {<<"group", g>>}]]
            /\ crossed' = IF work[a].edit.allowed = <<Keep>> THEN crossed
                          ELSE IF AllLive(row.allowed) THEN crossed \ {<<"group", g>>}
                          ELSE crossed \cup {<<"group", g>>}
            /\ IF g = member THEN LimitsMove(CapOf(group[g]), CapOf(row)) ELSE UNCHANGED former
  /\ UNCHANGED <<policy, member, image, fk, edits>>

\* The built-in group stays; a group with users is in use.
BeginDeleteGroup(a, g) ==
  /\ Live(g) /\ g # 1 /\ member # g
  /\ Begins(a, [NoWork EXCEPT !.pc = "dropgroup", !.g = g])

\* A foreign key refuses what the count did not see.
DeleteGroup(a) ==
  LET g == work[a].g IN
  /\ work[a].pc = "dropgroup"
  /\ Ends(a)
  /\ IF Live(g) /\ ~(fk /\ member = g)
       THEN /\ group' = [group EXCEPT ![g] = [NoGroup EXCEPT !.st = "gone"]]
            /\ crossed' = (crossed \ {<<"group", g>>}) \cup (work[a].since \cap {<<"user", 1>>})
            /\ mixed' = mixed \ {g}
            /\ IF g = member THEN LimitsMove(CapOf(group[g]), 0) ELSE UNCHANGED former
       ELSE UNCHANGED <<group, crossed, mixed, former>>
  /\ UNCHANGED <<policy, member, image, fk, edits>>

BeginUpdateUser(a, g) ==
  /\ Live(g)
  /\ Begins(a, [NoWork EXCEPT !.pc = "user", !.g = g])

UpdateUser(a) ==
  LET g == work[a].g IN
  /\ work[a].pc = "user"
  /\ IF fk /\ ~Live(g)
       THEN Ends(a) /\ UNCHANGED <<member, former, crossed>>
       ELSE /\ member' = g
            /\ LimitsMove(member, g)
            /\ work' = [b \in Admins |-> IF b = a THEN NoWork
                          ELSE [work[b] EXCEPT !.stale = TRUE, !.since = @ \cup {<<"user", 1>>}]]
            /\ crossed' = IF Live(g) THEN crossed \ {<<"user", 1>>} ELSE crossed \cup {<<"user", 1>>}
  /\ UNCHANGED <<group, policy, image, fk, edits, mixed>>

-----------------------------------------------------------------------------
(* Storage policies: adminsvc.                                             *)

\* A policy is inserted enabled, whatever was asked for ...
CreatePolicy(a, p, enabled, e) ==
  /\ policy[p].st = "none" /\ \A q \in PolicyIds : q < p => policy[q].st # "none"
  /\ work[a].pc = "idle" /\ edits < MaxEdits /\ edits' = edits + 1
  /\ policy' = [policy EXCEPT ![p] = [st |-> "live", enabled |-> TRUE, endpoint |-> e, secret |-> e]]
  /\ work' = [work EXCEPT ![a] = IF enabled THEN NoWork ELSE [NoWork EXCEPT !.pc = "disable", !.p = p]]
  /\ UNCHANGED <<group, member, image, fk, mixed, former, crossed>>

\* ... and disabled by a second statement.
DisablePolicy(a) ==
  /\ work[a].pc = "disable"
  /\ policy' = [policy EXCEPT ![work[a].p].enabled = FALSE]
  /\ Ends(a)
  /\ UNCHANGED <<group, member, image, fk, edits, mixed, former, crossed>>

\* A masked secret is kept as long as nothing that it points to is changed.
MaskKeeps(row, e) == e = row.endpoint

BeginUpdatePolicy(a, p, enabled, e, masked) ==
  /\ policy[p].st = "live" /\ (masked => MaskKeeps(policy[p], e))
  /\ Begins(a, [NoWork EXCEPT !.pc = "policy", !.p = p,
                  !.cfg = [st |-> "live", enabled |-> enabled, endpoint |-> e,
                           secret |-> IF masked THEN policy[p].secret ELSE e]])

UpdatePolicy(a) ==
  LET p == work[a].p IN
  /\ work[a].pc = "policy"
  /\ policy' = IF policy[p].st = "live" THEN [policy EXCEPT ![p] = work[a].cfg] ELSE policy
  /\ Ends(a)
  /\ UNCHANGED <<group, member, image, fk, edits, mixed, former, crossed>>

InUse(p) == \E i \in Images : image[i].st = "live" /\ image[i].policy = p

\* A group that allows the policy holds it.
InUseByGroup(p) == \E g \in GroupIds : Live(g) /\ p \in Range(group[g].allowed)

\* DeletePolicy: the files are counted ...
BeginDeletePolicy(a, p) ==
  /\ policy[p].st = "live" /\ ~InUse(p)
  /\ Begins(a, [NoWork EXCEPT !.pc = "referees", !.p = p])

\* ... the groups are read ...
DeletePolicyGroups(a) ==
  /\ work[a].pc = "referees"
  /\ work' = [work EXCEPT ![a] = IF InUseByGroup(work[a].p) THEN NoWork
                ELSE [work[a] EXCEPT !.pc = "droppolicy", !.since = @ \ ({"group"} \X GroupIds)]]
  /\ UNCHANGED <<group, policy, member, image, fk, edits, mixed, former, crossed>>

\* ... and the row goes, unless a foreign key holds it.
DeletePolicy(a) ==
  LET p == work[a].p IN
  /\ work[a].pc = "droppolicy"
  /\ Ends(a)
  /\ IF policy[p].st = "live" /\ ~(fk /\ InUse(p))
       THEN /\ policy' = [policy EXCEPT ![p] = [NoPolicy EXCEPT !.st = "gone"]]
            /\ crossed' = crossed \cup (work[a].since \ {<<"user", 1>>})
       ELSE UNCHANGED <<policy, crossed>>
  /\ UNCHANGED <<group, member, image, fk, edits, mixed, former>>

-----------------------------------------------------------------------------
(* What is decided by them: upload, imagesvc.                              *)

\* A default beyond the cap is taken as it is.
DefaultUncapped(def, cap) == IF def = 0 THEN cap ELSE def

\* No expiry asked for: the default, or the cap where there is none below it.
DefaultExpiry(def, cap) == IF def = 0 \/ def > cap THEN cap ELSE def

\* ApplyGroupAccess and checkGroupExpires: what the cap allows.
Within(exp, cap) == cap = 0 \/ (exp # 0 /\ exp <= cap)

\* Save reads the group, applies its limits ...
BeginUpload(a, i, exp) ==
  LET row == group[member]
      cap == CapOf(row) IN
  /\ image[i].st = "none" /\ \A b \in Admins : work[b].i # i
  /\ Live(member) /\ (exp = 0 \/ Within(exp, cap))
  /\ Begins(a, [NoWork EXCEPT !.pc = "resolve", !.i = i, !.allowed = row.allowed,
                  !.exp = IF exp = 0 /\ cap > 0 THEN DefaultExpiry(row.def, cap) ELSE exp])

Usable(p) == policy[p].st = "live" /\ policy[p].enabled

\* pickPolicy: the first the group allows, or the first there is.
PickPolicy(list) ==
  IF list # <<>> /\ Usable(Head(list)) THEN {Head(list)}
  ELSE {p \in PolicyIds : Usable(p) /\ \A q \in PolicyIds : Usable(q) => p <= q}

\* ... then resolves the policy, one asked for or one picked ...
ResolvePolicy(a, explicit) ==
  LET list   == work[a].allowed
      choice == IF explicit = 0 THEN PickPolicy(list) ELSE {p \in Range(list) : p = explicit /\ Usable(p)} IN
  /\ work[a].pc = "resolve"
  /\ work' = [work EXCEPT ![a] = IF choice = {} THEN NoWork
                ELSE [@ EXCEPT !.pc = "commit", !.p = CHOOSE p \in choice : TRUE]]
  /\ UNCHANGED <<group, policy, member, image, fk, edits, mixed, former, crossed>>

\* ... and writes the rows, after the bytes.
CommitUpload(a) ==
  LET i == work[a].i
      p == work[a].p
      there == policy[p].st = "live" IN
  /\ work[a].pc = "commit"
  /\ IF fk /\ ~there
       THEN Ends(a) /\ UNCHANGED <<image, former, crossed>>
       ELSE /\ image' = [image EXCEPT ![i] = [st |-> "live", exp |-> work[a].exp, policy |-> p]]
            /\ former' = IF work[a].stale THEN former \cup {i} ELSE former \ {i}
            /\ Refers(a, <<"file", i>>, there)
  /\ UNCHANGED <<group, policy, member, fk, edits, mixed>>

BeginUpdateExpiry(a, i, exp) ==
  /\ image[i].st = "live" /\ Live(member) /\ Within(exp, CapOf(group[member]))
  /\ Begins(a, [NoWork EXCEPT !.pc = "expiry", !.i = i, !.exp = exp])

\* The expiry is set; an ApplyLifecycle under way may have passed already.
UpdateExpiry(a) ==
  LET i == work[a].i IN
  /\ work[a].pc = "expiry"
  /\ image' = [image EXCEPT ![i].exp = work[a].exp]
  /\ former' = IF work[a].stale THEN former \cup {i} ELSE former \ {i}
  /\ work' = [b \in Admins |-> IF b = a THEN NoWork ELSE [work[b] EXCEPT !.covers = @ \ {i}]]
  /\ UNCHANGED <<group, policy, member, fk, edits, mixed, crossed>>

Beyond(i, cap) == image[i].st = "live" /\ ~Within(image[i].exp, cap)

\* ApplyLifecycle lists the first images that are beyond the cap ...
BeginApplyLifecycle(a) ==
  LET cap  == CapOf(group[member])
      over == {i \in Images : Beyond(i, cap)}
      list == {i \in over : Cardinality({j \in over : j < i}) < Limit} IN
  /\ Live(member) /\ list # {}
  /\ Begins(a, [NoWork EXCEPT !.pc = "clamp", !.exp = cap, !.left = list, !.covers = list])

\* ... and shortens one after the other, if it still is.
ApplyLifecycle(a) ==
  /\ work[a].pc = "clamp"
  /\ \E i \in work[a].left :
       /\ \A j \in work[a].left : i <= j
       /\ image' = IF Beyond(i, work[a].exp) THEN [image EXCEPT ![i].exp = work[a].exp] ELSE image
       /\ former' = IF i \in work[a].covers /\ ~work[a].stale THEN former \ {i} ELSE former
       /\ work' = [work EXCEPT ![a] = IF @.left = {i} THEN NoWork ELSE [work[a] EXCEPT !.left = @ \ {i}]]
  /\ UNCHANGED <<group, policy, member, fk, edits, mixed, crossed>>

-----------------------------------------------------------------------------
Next ==
  \E a \in Admins :
    \/ \E g \in GroupIds, e \in Edits : BeginCreateGroup(a, g, e) \/ BeginUpdateGroup(a, g, e)
    \/ \E g \in GroupIds : BeginDeleteGroup(a, g) \/ BeginUpdateUser(a, g)
    \/ CreateGroup(a) \/ UpdateGroup(a) \/ DeleteGroup(a) \/ UpdateUser(a)
    \/ \E p \in PolicyIds, enabled \in BOOLEAN, e \in Endpoints : CreatePolicy(a, p, enabled, e)
    \/ \E p \in PolicyIds, enabled, masked \in BOOLEAN, e \in Endpoints : BeginUpdatePolicy(a, p, enabled, e, masked)
    \/ \E p \in PolicyIds : BeginDeletePolicy(a, p)
    \/ DisablePolicy(a) \/ UpdatePolicy(a) \/ DeletePolicyGroups(a) \/ DeletePolicy(a)
    \/ \E i \in Images, exp \in Durations : BeginUpload(a, i, exp) \/ BeginUpdateExpiry(a, i, exp)
    \/ \E explicit \in 0 .. NumPolicies : ResolvePolicy(a, explicit)
    \/ CommitUpload(a) \/ UpdateExpiry(a) \/ BeginApplyLifecycle(a) \/ ApplyLifecycle(a)

Spec == Init /\ [][Next]_desk

-----------------------------------------------------------------------------
(* Properties.                                                             *)

TypeOK ==
  /\ group \in [GroupIds -> GroupRecords]
  /\ policy \in [PolicyIds -> PolicyRecords]
  /\ member \in GroupIds
  /\ image \in [Images -> ImageRecords]
  /\ work \in [Admins -> WorkRecords]
  /\ fk \in BOOLEAN /\ edits \in 0 .. MaxEdits
  /\ mixed \subseteq GroupIds /\ former \subseteq Images /\ crossed \subseteq References

\* A group's default stays within its maximum: every patch is validated
\* together with the row it was read with, and only edits that overlapped can
\* combine into what neither would have been allowed (UpdateGroup).
LimitsAgree == \A g \in GroupIds : Live(g) /\ ~ValidLifecycle(group[g].def, group[g].max) => g \in mixed

\* An image that outlives what its owner's group allows was admitted before
\* the limits changed, the owner moved or while that happened, and no
\* ApplyLifecycle has reached it since, whatever default, maximum and forced
\* age the group combines (ApplyGroupAccess, checkGroupExpires, ApplyLifecycle).
ImagesWithinCap == \A i \in Images : Live(member) /\ Beyond(i, CapOf(group[member])) => i \in former

\* No file, group or user refers to a policy or a group that is gone, except
\* where the reference was written while a deletion was between its checks and
\* its statement; where the tables have foreign keys only a group's list of
\* policies can (DeletePolicy, DeleteGroup, UpdateUser, policyIDsExist).
ReferencesHold ==
  /\ \A i \in Images : image[i].st = "live" /\ policy[image[i].policy].st # "live" =>
       ~fk /\ <<"file", i>> \in crossed
  /\ ~Live(member) => ~fk /\ <<"user", 1>> \in crossed
  /\ \A g \in GroupIds : Live(g) /\ ~AllLive(group[g].allowed) => <<"group", g>> \in crossed

\* A stored secret was typed for the end its policy points to, though masked
\* edits overtake one another (UpdatePolicy).
SecretsFollowEndpoints == \A p \in PolicyIds : policy[p].secret = policy[p].endpoint

\* The rules administrators set hold for what was decided under them.
RulesHold == LimitsAgree /\ ImagesWithinCap /\ ReferencesHold /\ SecretsFollowEndpoints

=============================================================================
