----------------------------- MODULE LocalState -----------------------------
(***************************************************************************)
(* What the process keeps in memory in front of the database: the cached   *)
(* settings (a boolean of settings.Service, the hotlink snapshot of        *)
(* stats.Service, the public statistics) and the view counters that a loop *)
(* flushes.  Administrators save settings key by key, with the secret of   *)
(* the mail server masked, while requests refresh the caches.              *)
(*                                                                         *)
(* A saved setting is 0 or 1, "the former" or "the new one".  A secret is  *)
(* named by the server it was typed for.  The settings cache is the one    *)
(* shared by the administration and the plaza; upload.New builds a second  *)
(* one, which nobody invalidates and which only its age renews.            *)
(***************************************************************************)
EXTENDS Integers, FiniteSets

CONSTANTS
  Writers,    \* administrators' requests in flight
  Readers,    \* requests that refresh a cache
  Servers,    \* mail servers
  Patches,    \* sets of keys that are saved together
  MaxEvents,  \* bound on saves of the settings and views recorded, together
  MaxFaults   \* bound on failed statements, slow requests at a stop and crashes

Cached == {"flag", "hotlink", "public"}
Keys == Cached \cup {"smtp"}
Flushers == {"loop", "final"}

ASSUME LocalStateAssumption ==
  /\ Patches \subseteq SUBSET Keys /\ {} \notin Patches
  /\ Servers # {} /\ IsFiniteSet(Writers)
  /\ {MaxEvents, MaxFaults} \subseteq Nat

VARIABLES
  row,       \* the cached keys in the settings table
  smtp,      \* the mail server's row
  cache,     \* the caches
  reader,    \* refreshes in flight
  writer,    \* saves in flight
  buffer,    \* views counted in memory
  hand,      \* views a flush has taken out of the buffer, -1 for no flush
  table,     \* views in access_stats
  phase,     \* "up", "stopping", "drained", "timedout" or "stopped"
  saves,     \* saves so far
  faults,    \* faults so far
  stranded,  \* history: keys a failed save wrote without clearing their cache
  overtaken, \* history: the public statistics were published by an older configuration
  views,     \* history: views recorded
  lost       \* history: views in memory at a crash

settings == <<row, smtp, cache, reader, writer, saves, stranded, overtaken>>
counters == <<buffer, hand, table, phase, views, lost>>
vars == <<settings, counters, faults>>

CacheRecords == [v: 0 .. 1, valid: BOOLEAN, fresh: BOOLEAN, gen: 0 .. MaxEvents]
ReaderRecords == [pc: {"idle", "query", "look", "publish"}, key: Cached, gen: 0 .. MaxEvents, v: 0 .. 1]
SmtpRecords == [server: Servers, secret: Servers]
WriterRecords == [pc: {"idle", "set", "forget", "public", "hotlink"}, left: SUBSET Keys,
                  done: SUBSET Keys, key: Keys, v: 0 .. 1, smtp: SmtpRecords]

Cold == [v |-> 0, valid |-> FALSE, fresh |-> FALSE, gen |-> 0]
NoReader == [pc |-> "idle", key |-> "flag", gen |-> 0, v |-> 0]
NoWriter(cfg) == [pc |-> "idle", left |-> {}, done |-> {}, key |-> "flag", v |-> 0, smtp |-> cfg]
AnySmtp == [server |-> CHOOSE s \in Servers : TRUE, secret |-> CHOOSE s \in Servers : TRUE]

Init ==
  /\ row = [k \in Cached |-> 0]
  /\ smtp = AnySmtp
  /\ cache = [k \in Cached |-> Cold]
  /\ reader = [r \in Readers |-> NoReader]
  /\ writer = [w \in Writers |-> NoWriter(AnySmtp)]
  /\ buffer = 0 /\ table = 0 /\ views = 0 /\ lost = 0
  /\ hand = [f \in Flushers |-> -1]
  /\ phase = "up"
  /\ saves = 0 /\ faults = 0
  /\ stranded = {} /\ overtaken = FALSE

\* From a stop on only the counters are followed: the caches end with it.
Running == phase = "up"

\* The nondeterministic failure of one statement.
Fault == faults < MaxFaults /\ faults' = faults + 1

-----------------------------------------------------------------------------
(* Reading through a cache.                                                *)

Hit(k) == cache[k].valid /\ cache[k].fresh

\* GetBool, GetBoolStrict and Hotlink: a cache that does not answer is renewed
\* at once, so that others go on with its old value, and its generation kept.
Refresh(r, k) ==
  /\ Running /\ reader[r].pc = "idle"
  /\ k # "public" /\ ~Hit(k)
  /\ cache' = [cache EXCEPT ![k].fresh = TRUE]
  /\ reader' = [reader EXCEPT ![r] = [NoReader EXCEPT !.pc = "query", !.key = k, !.gen = cache[k].gen]]
  /\ UNCHANGED <<row, smtp, writer, saves, stranded, overtaken, faults, counters>>

\* The row is read outside the lock; an error falls back to the old value.
Query(r) ==
  /\ Running /\ reader[r].pc = "query"
  /\ \/ /\ reader' = [reader EXCEPT ![r].pc = "publish", ![r].v = row[reader[r].key]]
        /\ UNCHANGED faults
     \/ /\ Fault
        /\ reader' = [reader EXCEPT ![r] = NoReader]
  /\ UNCHANGED <<row, smtp, cache, writer, saves, stranded, overtaken, counters>>

\* Config reads the configuration of the public statistics first ...
PublicConfig(r) ==
  /\ Running /\ reader[r].pc = "idle"
  /\ reader' = [reader EXCEPT ![r] = [NoReader EXCEPT !.pc = "look", !.key = "public",
                                        !.v = row["public"]]]
  /\ UNCHANGED <<row, smtp, cache, writer, saves, stranded, overtaken, faults, counters>>

\* ... and counts by it when the snapshot is too old.
PublicStatsSnapshotFor(r) ==
  /\ Running /\ reader[r].pc = "look"
  /\ reader' = [reader EXCEPT ![r] = IF Hit("public") THEN NoReader ELSE [@ EXCEPT !.pc = "publish"]]
  /\ UNCHANGED <<row, smtp, cache, writer, saves, stranded, overtaken, faults, counters>>

\* A refresh that publishes whatever happened since it began.
PublishableAnyway(r) == TRUE

\* A refresh publishes only if its cache was not invalidated meanwhile; the
\* public statistics have no generation.
Publishable(r) == reader[r].key = "public" \/ cache[reader[r].key].gen = reader[r].gen

Publish(r) ==
  /\ Running /\ reader[r].pc = "publish"
  /\ LET k == reader[r].key IN
     IF Publishable(r)
       THEN /\ cache' = [cache EXCEPT ![k] = [@ EXCEPT !.v = reader[r].v, !.valid = TRUE, !.fresh = TRUE]]
            /\ overtaken' = IF k = "public" THEN reader[r].v # row[k] ELSE overtaken
       ELSE UNCHANGED <<cache, overtaken>>
  /\ reader' = [reader EXCEPT ![r] = NoReader]
  /\ UNCHANGED <<row, smtp, writer, saves, stranded, faults, counters>>

\* Thirty seconds pass, or sixty for the public statistics.
Expire(k) ==
  /\ Running /\ cache[k].fresh
  /\ cache' = [cache EXCEPT ![k].fresh = FALSE]
  /\ UNCHANGED <<row, smtp, reader, writer, saves, stranded, overtaken, faults, counters>>

-----------------------------------------------------------------------------
(* PutSettings.                                                            *)

\* PrepareSMTP: a masked secret is kept only for the server it belongs to.
KeepsSecret(server) == server = smtp.server

\* All keys are validated before any is written.
PutSettings(w) ==
  /\ Running /\ writer[w].pc = "idle"
  /\ saves + views < MaxEvents
  /\ saves' = saves + 1
  /\ \E patch \in Patches, v \in 0 .. 1, server \in Servers, masked \in BOOLEAN :
       /\ "smtp" \in patch /\ masked => KeepsSecret(server)
       /\ "smtp" \notin patch => server = smtp.server /\ ~masked
       /\ patch = {"smtp"} => v = 0
       /\ writer' = [writer EXCEPT ![w] = [NoWriter(smtp) EXCEPT !.pc = "set", !.left = patch, !.v = v,
                       !.smtp = [server |-> server, secret |-> IF masked THEN smtp.secret ELSE server]]]
  /\ UNCHANGED <<row, smtp, cache, reader, stranded, overtaken, faults, counters>>

\* Set saves one key after the other, in the order of a Go map; an error ends
\* the request there, and with it the clearing of the last two caches.
SetSave(w) ==
  /\ Running /\ writer[w].pc = "set"
  /\ \/ /\ \E k \in writer[w].left :
             /\ row' = IF k \in Cached THEN [row EXCEPT ![k] = writer[w].v] ELSE row
             /\ smtp' = IF k = "smtp" THEN writer[w].smtp ELSE smtp
             /\ writer' = [writer EXCEPT ![w].pc = "forget", ![w].key = k, ![w].left = @ \ {k}]
        /\ UNCHANGED <<stranded, faults>>
     \/ /\ Fault
        /\ stranded' = stranded \cup (writer[w].done \cap {"hotlink", "public"})
        /\ writer' = [writer EXCEPT ![w] = NoWriter(AnySmtp)]
        /\ UNCHANGED <<row, smtp>>
  /\ UNCHANGED <<cache, reader, saves, overtaken, counters>>

\* A generation that runs ahead of the saves.
ForgetTwice(k) ==
  cache' = [cache EXCEPT ![k].valid = FALSE, ![k].gen = IF k = "public" THEN 0 ELSE @ + 2]

\* Invalidate, InvalidateHotlink and InvalidatePublicStatsCache.
Forget(k) ==
  cache' = [cache EXCEPT ![k].valid = FALSE, ![k].gen = IF k = "public" THEN 0 ELSE @ + 1]

\* Invalidate follows each save at once.
SetInvalidate(w) ==
  /\ Running /\ writer[w].pc = "forget"
  /\ IF writer[w].key = "flag" THEN Forget("flag") ELSE UNCHANGED cache
  /\ writer' = [writer EXCEPT ![w].done = @ \cup {writer[w].key},
                              ![w].pc = IF writer[w].left = {} THEN "public" ELSE "set"]
  /\ UNCHANGED <<row, smtp, reader, saves, stranded, overtaken, faults, counters>>

\* InvalidatePublicStatsCache comes after all keys are saved ...
ForgetPublic(w) ==
  /\ Running /\ writer[w].pc = "public"
  /\ IF "public" \in writer[w].done
       THEN Forget("public") /\ stranded' = stranded \ {"public"} /\ overtaken' = FALSE
       ELSE UNCHANGED <<cache, stranded, overtaken>>
  /\ writer' = [writer EXCEPT ![w].pc = "hotlink"]
  /\ UNCHANGED <<row, smtp, reader, saves, faults, counters>>

\* ... and the handler's InvalidateHotlink after the audit record.
ForgetHotlink(w) ==
  /\ Running /\ writer[w].pc = "hotlink"
  /\ IF "hotlink" \in writer[w].done
       THEN Forget("hotlink") /\ stranded' = stranded \ {"hotlink"}
       ELSE UNCHANGED <<cache, stranded>>
  /\ writer' = [writer EXCEPT ![w] = NoWriter(AnySmtp)]
  /\ UNCHANGED <<row, smtp, reader, saves, overtaken, faults, counters>>

-----------------------------------------------------------------------------
(* The view counters, the stop and the crash.                              *)

Record ==
  /\ phase \in {"up", "stopping", "timedout"}
  /\ saves + views < MaxEvents
  /\ views' = views + 1
  /\ buffer' = buffer + 1
  /\ UNCHANGED <<settings, faults, hand, table, phase, lost>>

\* Flush takes the counters out of the buffer: the loop on its ticker and once
\* when it is told to stop, Run once more after the requests have drained.
FlushTake(f) ==
  /\ hand[f] = -1
  /\ f = "loop" => (phase = "up" /\ buffer > 0) \/ phase = "stopping"
  /\ f = "final" => phase \in {"drained", "timedout"}
  /\ hand' = [hand EXCEPT ![f] = buffer]
  /\ buffer' = 0
  /\ UNCHANGED <<settings, faults, table, phase, views, lost>>

\* The counters of a failed flush take the place of newer ones.
PutBackOver(n) == n

\* The counters of a failed flush are merged back.
PutBack(n) == buffer + n

\* The transaction succeeds or fails as a whole; Run returns after its flush.
FlushWrite(f) ==
  /\ phase # "stopped"
  /\ hand[f] >= 0
  /\ \/ /\ table' = table + hand[f]
        /\ UNCHANGED <<buffer, faults>>
     \/ /\ Fault
        /\ buffer' = PutBack(hand[f])
        /\ UNCHANGED table
  /\ hand' = [hand EXCEPT ![f] = -1]
  /\ phase' = IF f = "final" THEN "stopped" ELSE phase
  /\ UNCHANGED <<settings, views, lost>>

ForgetCaches ==
  /\ cache' = [k \in Cached |-> Cold]
  /\ reader' = [r \in Readers |-> NoReader]
  /\ writer' = [w \in Writers |-> NoWriter(AnySmtp)]
  /\ stranded' = {} /\ overtaken' = FALSE
  /\ UNCHANGED <<row, smtp, saves>>

\* The context is cancelled: the requests in flight go on.
Stop ==
  /\ phase = "up"
  /\ phase' = "stopping"
  /\ ForgetCaches
  /\ UNCHANGED <<faults, buffer, hand, table, views, lost>>

\* Shutdown returns when the requests are done, or after thirty seconds.
Drained ==
  /\ phase = "stopping"
  /\ \/ phase' = "drained" /\ UNCHANGED faults
     \/ phase' = "timedout" /\ Fault
  /\ UNCHANGED <<settings, buffer, hand, table, views, lost>>

Held(f) == IF hand[f] > 0 THEN hand[f] ELSE 0

\* A crash and a new start: what was in memory is gone.
Crash ==
  /\ phase = "up" /\ Fault
  /\ ForgetCaches
  /\ lost' = lost + buffer + Held("loop")
  /\ buffer' = 0
  /\ hand' = [f \in Flushers |-> -1]
  /\ UNCHANGED <<table, phase, views>>

\* Requests read some of the caches; saves are of any keys.
SettingsNext(read) ==
  \/ \E r \in Readers : \/ \E k \in read : Refresh(r, k)
                        \/ "public" \in read /\ PublicConfig(r)
                        \/ Query(r) \/ PublicStatsSnapshotFor(r) \/ Publish(r)
  \/ \E k \in read : Expire(k)
  \/ \E w \in Writers : \/ PutSettings(w) \/ SetSave(w) \/ SetInvalidate(w)
                        \/ ForgetPublic(w) \/ ForgetHotlink(w)
  \/ Crash

CountersNext ==
  \/ Record \/ Stop \/ Drained \/ Crash
  \/ \E f \in Flushers : FlushTake(f) \/ FlushWrite(f)

Next == SettingsNext(Cached) \/ CountersNext

Spec == Init /\ [][Next]_vars

-----------------------------------------------------------------------------
(* Properties.                                                             *)

TypeOK ==
  /\ row \in [Cached -> 0 .. 1]
  /\ smtp \in SmtpRecords
  /\ cache \in [Cached -> CacheRecords]
  /\ \A k \in Cached : cache[k].gen <= saves
  /\ reader \in [Readers -> ReaderRecords]
  /\ writer \in [Writers -> WriterRecords]
  /\ buffer \in 0 .. MaxEvents /\ table \in 0 .. MaxEvents /\ views \in 0 .. MaxEvents /\ lost \in 0 .. MaxEvents
  /\ hand \in [Flushers -> -1 .. MaxEvents]
  /\ phase \in {"up", "stopping", "drained", "timedout", "stopped"}
  /\ saves \in 0 .. MaxEvents /\ faults \in 0 .. MaxFaults
  /\ stranded \subseteq {"hotlink", "public"} /\ overtaken \in BOOLEAN

\* Keys that a save has written and whose cache it has yet to clear.
Unannounced(w) ==
  (IF writer[w].pc = "forget" THEN {writer[w].key} ELSE {})
    \cup (writer[w].done \cap (IF writer[w].pc = "hotlink" THEN {"hotlink"} ELSE {"hotlink", "public"}))

\* Once a save has returned no cache answers with the former value, whatever
\* refresh was under way: an outdated cache belongs to a save that is still
\* running or that failed between its keys, or it is the public statistics
\* published by a request with the former configuration (Set, Invalidate,
\* Hotlink and InvalidateHotlink with their generations).
CachesFollowTheRows ==
  \A k \in Cached : cache[k].valid /\ cache[k].v # row[k] =>
    \/ \E w \in Writers : k \in Unannounced(w)
    \/ k \in stranded
    \/ k = "public" /\ overtaken

\* The stored secret, and any that a save is about to store, was typed for the
\* server it goes with, though administrators overtake one another (PrepareSMTP).
SecretStaysWithItsServer ==
  /\ smtp.secret = smtp.server
  /\ \A w \in Writers : writer[w].smtp.secret = writer[w].smtp.server

\* What a cache answers was true lately, and no masked save carries the mail
\* secret to a server it was not meant for (settings.Service, PutSettings).
SettingsHold == CachesFollowTheRows /\ SecretStaysWithItsServer

\* No view is lost or counted twice while flushes overlap with views and with
\* one another and fail; after a stop without faults the only views not in the
\* database are those the loop's own last flush still had in hand (Flush, Run).
ViewsConserved ==
  /\ views = table + buffer + Held("loop") + Held("final") + lost
  /\ phase = "stopped" /\ faults = 0 => buffer = 0

=============================================================================
