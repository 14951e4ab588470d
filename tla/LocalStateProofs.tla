--------------------------- MODULE LocalStateProofs ---------------------------
(***************************************************************************)
(* Theorems about LocalState, for any number of administrators, refreshes, *)
(* mail servers and faults, and any sets of keys saved together.           *)
(***************************************************************************)
EXTENDS LocalState, FiniteSetTheorems, TLAPS

-----------------------------------------------------------------------------
(* Types.  A generation never passes the number of saves: whoever is still *)
(* to clear a cache has been counted as a save and not yet as a clearing.  *)

\* The saves that are still to clear the cache of k.
Owes(k) == {w \in Writers : \/ k \in writer[w].left
                            \/ writer[w].pc = "forget" /\ writer[w].key = k
                            \/ k = "hotlink" /\ k \in writer[w].done}

Caches == [v: 0 .. 1, valid: BOOLEAN, fresh: BOOLEAN, gen: Nat]

RowsTyped ==
  /\ row \in [Cached -> 0 .. 1]
  /\ smtp \in SmtpRecords
  /\ stranded \subseteq {"hotlink", "public"} /\ overtaken \in BOOLEAN

CacheTyped ==
  /\ cache \in [Cached -> Caches]
  /\ reader \in [Readers -> ReaderRecords]

Generations ==
  /\ cache["public"].gen = 0
  /\ \A k \in {"flag", "hotlink"} : cache[k].gen + Cardinality(Owes(k)) <= saves

WriterTyped ==
  /\ writer \in [Writers -> WriterRecords]
  /\ \A w \in Writers :
       /\ writer[w].pc = "idle" => writer[w].left = {} /\ writer[w].done = {}
       /\ writer[w].pc = "forget" => writer[w].key \notin writer[w].left

Budget == saves \in Nat /\ views \in Nat /\ saves + views <= MaxEvents /\ faults \in 0 .. MaxFaults

\* The views recorded are in the database, in memory, in a flush's hand or lost.
Counters ==
  /\ buffer \in Nat /\ table \in Nat /\ lost \in Nat
  /\ hand \in [Flushers -> -1 .. MaxEvents]
  /\ views = table + buffer + Held("loop") + Held("final") + lost

\* After a stop without faults nothing comes into the buffer any more.
Stopping ==
  /\ phase \in {"up", "stopping", "drained", "timedout", "stopped"}
  /\ phase = "timedout" => faults > 0
  /\ hand["final"] >= 0 => phase \in {"drained", "timedout"}
  /\ faults = 0 /\ (phase = "stopped" \/ hand["final"] >= 0) => buffer = 0

SettingsInv == RowsTyped /\ CacheTyped /\ Generations /\ WriterTyped
TypeInv == SettingsInv /\ Budget /\ Counters /\ Stopping

LEMMA Bounds == MaxEvents \in Nat /\ MaxFaults \in Nat
BY LocalStateAssumption DEF LocalStateAssumption

LEMMA KeysAre ==
  /\ Keys = {"flag", "hotlink", "public", "smtp"} /\ Cached = {"flag", "hotlink", "public"}
  /\ Patches \subseteq SUBSET Keys
BY LocalStateAssumption DEF LocalStateAssumption, Keys, Cached

LEMMA AnySmtpIs == AnySmtp \in SmtpRecords /\ AnySmtp.secret = AnySmtp.server
<1>1. (CHOOSE s \in Servers : TRUE) \in Servers
  BY LocalStateAssumption DEF LocalStateAssumption
<1> QED BY <1>1 DEF AnySmtp, SmtpRecords

LEMMA NoWriterIs ==
  ASSUME NEW m \in SmtpRecords
  PROVE  /\ NoWriter(m) \in WriterRecords
         /\ NoWriter(m).pc = "idle" /\ NoWriter(m).left = {} /\ NoWriter(m).done = {}
         /\ NoWriter(m).smtp = m
BY KeysAre DEF NoWriter, WriterRecords

LEMMA NoReaderIs == NoReader \in ReaderRecords /\ NoReader.pc = "idle"
BY Bounds, KeysAre DEF NoReader, ReaderRecords

LEMMA ColdIs == Cold \in Caches /\ Cold.gen = 0 /\ ~Cold.valid
BY DEF Cold, Caches

\* How the number of a set of saves changes.
LEMMA SaveCount ==
  ASSUME NEW S \in SUBSET Writers, NEW T \in SUBSET Writers, NEW w \in Writers
  PROVE  /\ Cardinality(S) \in Nat
         /\ T \subseteq S => Cardinality(T) <= Cardinality(S)
         /\ T \subseteq S \cup {w} => Cardinality(T) <= Cardinality(S) + 1
         /\ w \in S /\ T \subseteq S \ {w} => Cardinality(T) + 1 <= Cardinality(S)
<1>1. IsFiniteSet(S) /\ IsFiniteSet(T)
  BY LocalStateAssumption, FS_Subset DEF LocalStateAssumption
<1>2. Cardinality(S) \in Nat /\ Cardinality(T) \in Nat
  BY <1>1, FS_CardinalityType
<1>3. T \subseteq S => Cardinality(T) <= Cardinality(S)
  BY <1>1, FS_Subset
<1>4. ASSUME T \subseteq S \cup {w} PROVE Cardinality(T) <= Cardinality(S) + 1
  <2>1. IsFiniteSet(S \cup {w}) /\ Cardinality(S \cup {w}) \in Nat
    BY <1>1, FS_AddElement, FS_CardinalityType
  <2>2. Cardinality(S \cup {w}) <= Cardinality(S) + 1
    <3>1. CASE w \in S
      BY <1>2, <3>1, S \cup {w} = S
    <3>2. CASE w \notin S
      <4>1. Cardinality(S \cup {w}) = Cardinality(S) + 1
        BY <1>1, <3>2, FS_AddElement
      <4> QED BY <1>2, <4>1
    <3> QED BY <3>1, <3>2
  <2>3. Cardinality(T) <= Cardinality(S \cup {w})
    BY <1>4, <2>1, FS_Subset
  <2> QED BY <1>2, <2>1, <2>2, <2>3
<1>5. ASSUME w \in S, T \subseteq S \ {w} PROVE Cardinality(T) + 1 <= Cardinality(S)
  <2>1. IsFiniteSet(S \ {w}) /\ Cardinality(S \ {w}) = Cardinality(S) - 1
    BY <1>1, <1>5, FS_RemoveElement
  <2>2. Cardinality(T) <= Cardinality(S \ {w})
    BY <1>5, <2>1, FS_Subset
  <2> QED BY <1>2, <2>1, <2>2
<1> QED BY <1>2, <1>3, <1>4, <1>5

LEMMA OwesAre == \A k : Owes(k) \in SUBSET Writers /\ Cardinality(Owes(k)) \in Nat
<1> SUFFICES ASSUME NEW k PROVE Owes(k) \in SUBSET Writers /\ Cardinality(Owes(k)) \in Nat
  OBVIOUS
<1>1. Owes(k) \in SUBSET Writers
  BY DEF Owes
<1> QED BY <1>1, LocalStateAssumption, FS_Subset, FS_CardinalityType DEF LocalStateAssumption

\* A generation fits its type.
LEMMA GenerationFits ==
  ASSUME SettingsInv, Budget, NEW k \in Cached
  PROVE  cache[k].gen \in 0 .. MaxEvents /\ cache[k].gen <= saves
<1>1. cache[k].gen \in Nat
  <2>1. cache[k] \in Caches
    BY DEF SettingsInv, CacheTyped
  <2> QED BY <2>1 DEF Caches
<1>2. k = "public" => cache[k].gen = 0
  BY DEF SettingsInv, Generations
<1>3. k # "public" => cache[k].gen + Cardinality(Owes(k)) <= saves
  BY KeysAre DEF SettingsInv, Generations
<1> QED BY <1>1, <1>2, <1>3, Bounds, OwesAre DEF Budget

LEMMA ReaderMoves ==
  ASSUME reader \in [Readers -> ReaderRecords], NEW r \in Readers, NEW x \in ReaderRecords,
         reader' = [reader EXCEPT ![r] = x]
  PROVE  reader' \in [Readers -> ReaderRecords] /\ reader'[r] = x
         /\ \A o \in Readers : o # r => reader'[o] = reader[o]
OBVIOUS

LEMMA WriterMoves ==
  ASSUME WriterTyped, NEW w \in Writers, NEW x \in WriterRecords,
         writer' = [writer EXCEPT ![w] = x],
         x.pc = "idle" => x.left = {} /\ x.done = {},
         x.pc = "forget" => x.key \notin x.left
  PROVE  WriterTyped' /\ writer'[w] = x /\ \A o \in Writers : o # w => writer'[o] = writer[o]
BY DEF WriterTyped

\* What a cache holds changes, and not its generation.
LEMMA CacheMoves ==
  ASSUME cache \in [Cached -> Caches], NEW k \in Cached, NEW x \in Caches, x.gen = cache[k].gen,
         cache' = [cache EXCEPT ![k] = x]
  PROVE  /\ cache' \in [Cached -> Caches] /\ \A j \in Cached : cache'[j].gen = cache[j].gen
         /\ cache'[k] = x /\ \A j \in Cached : j # k => cache'[j] = cache[j]
OBVIOUS

LEMMA GenerationsKept ==
  ASSUME Generations, \A j \in Cached : cache'[j].gen = cache[j].gen, UNCHANGED <<writer, saves>>
  PROVE  Generations'
BY KeysAre DEF Generations, Owes

\* Readers leave the saves and the generations alone.
LEMMA ReadForms ==
  ASSUME SettingsInv, Budget, NEW r \in Readers
  PROVE  /\ \A k \in Cached : Refresh(r, k) =>
              /\ reader' = [reader EXCEPT ![r] = [NoReader EXCEPT !.pc = "query", !.key = k, !.gen = cache[k].gen]]
              /\ [NoReader EXCEPT !.pc = "query", !.key = k, !.gen = cache[k].gen] \in ReaderRecords
         /\ Query(r) =>
              /\ \/ reader' = [reader EXCEPT ![r] = [reader[r] EXCEPT !.pc = "publish", !.v = row[reader[r].key]]]
                 \/ reader' = [reader EXCEPT ![r] = NoReader]
              /\ [reader[r] EXCEPT !.pc = "publish", !.v = row[reader[r].key]] \in ReaderRecords
         /\ PublicConfig(r) =>
              /\ reader' = [reader EXCEPT ![r] = [NoReader EXCEPT !.pc = "look", !.key = "public", !.v = row["public"]]]
              /\ [NoReader EXCEPT !.pc = "look", !.key = "public", !.v = row["public"]] \in ReaderRecords
         /\ PublicStatsSnapshotFor(r) =>
              /\ \/ reader' = [reader EXCEPT ![r] = [reader[r] EXCEPT !.pc = "publish"]]
                 \/ reader' = [reader EXCEPT ![r] = NoReader]
              /\ [reader[r] EXCEPT !.pc = "publish"] \in ReaderRecords
<1> reader \in [Readers -> ReaderRecords] /\ row \in [Cached -> 0 .. 1] /\ reader[r] \in ReaderRecords
  BY DEF SettingsInv, CacheTyped, RowsTyped
<1>1. ASSUME NEW k \in Cached, Refresh(r, k)
      PROVE  /\ reader' = [reader EXCEPT ![r] = [NoReader EXCEPT !.pc = "query", !.key = k, !.gen = cache[k].gen]]
             /\ [NoReader EXCEPT !.pc = "query", !.key = k, !.gen = cache[k].gen] \in ReaderRecords
  <2>1. cache[k].gen \in 0 .. MaxEvents
    BY GenerationFits
  <2> QED BY <1>1, <2>1, NoReaderIs DEF Refresh, ReaderRecords
<1>2. reader[r].key \in Cached /\ row[reader[r].key] \in 0 .. 1 /\ row["public"] \in 0 .. 1
  BY KeysAre DEF ReaderRecords
<1>3. ASSUME Query(r)
      PROVE  /\ \/ reader' = [reader EXCEPT ![r] = [reader[r] EXCEPT !.pc = "publish", !.v = row[reader[r].key]]]
                \/ reader' = [reader EXCEPT ![r] = NoReader]
             /\ [reader[r] EXCEPT !.pc = "publish", !.v = row[reader[r].key]] \in ReaderRecords
  BY <1>2, <1>3 DEF Query, ReaderRecords
<1>4. ASSUME PublicConfig(r)
      PROVE  /\ reader' = [reader EXCEPT ![r] = [NoReader EXCEPT !.pc = "look", !.key = "public", !.v = row["public"]]]
             /\ [NoReader EXCEPT !.pc = "look", !.key = "public", !.v = row["public"]] \in ReaderRecords
  BY <1>2, <1>4, NoReaderIs, KeysAre DEF PublicConfig, ReaderRecords
<1>5. ASSUME PublicStatsSnapshotFor(r)
      PROVE  /\ \/ reader' = [reader EXCEPT ![r] = [reader[r] EXCEPT !.pc = "publish"]]
                \/ reader' = [reader EXCEPT ![r] = NoReader]
             /\ [reader[r] EXCEPT !.pc = "publish"] \in ReaderRecords
  BY <1>5 DEF PublicStatsSnapshotFor, ReaderRecords
<1> QED BY <1>1, <1>3, <1>4, <1>5

LEMMA PublishForm ==
  ASSUME SettingsInv, NEW r \in Readers, Publish(r)
  PROVE  LET k == reader[r].key
             x == [cache[k] EXCEPT !.v = reader[r].v, !.valid = TRUE, !.fresh = TRUE]
         IN /\ k \in Cached /\ x \in Caches /\ x.gen = cache[k].gen /\ x.v = reader[r].v
            /\ reader' = [reader EXCEPT ![r] = NoReader]
            /\ \/ /\ Publishable(r)
                  /\ cache' = [cache EXCEPT ![k] = x]
                  /\ overtaken' = IF k = "public" THEN reader[r].v # row[k] ELSE overtaken
               \/ UNCHANGED <<cache, overtaken>>
<1>1. reader[r] \in ReaderRecords /\ cache \in [Cached -> Caches]
  BY DEF SettingsInv, CacheTyped
<1>2. reader[r].key \in Cached /\ reader[r].v \in 0 .. 1
  BY <1>1 DEF ReaderRecords
<1>3. cache[reader[r].key] \in Caches
  BY <1>1, <1>2
<1>4. [cache[reader[r].key] EXCEPT !.v = reader[r].v, !.valid = TRUE, !.fresh = TRUE] \in Caches
      /\ [cache[reader[r].key] EXCEPT !.v = reader[r].v, !.valid = TRUE, !.fresh = TRUE].gen = cache[reader[r].key].gen
      /\ [cache[reader[r].key] EXCEPT !.v = reader[r].v, !.valid = TRUE, !.fresh = TRUE].v = reader[r].v
  BY <1>2, <1>3 DEF Caches
<1> QED BY <1>2, <1>4 DEF Publish

LEMMA ReadTypes ==
  ASSUME SettingsInv, Budget, NEW r \in Readers,
         \/ \E k \in Cached : Refresh(r, k)
         \/ Query(r) \/ PublicConfig(r) \/ PublicStatsSnapshotFor(r) \/ Publish(r)
  PROVE  SettingsInv' /\ Budget'
<1>1. /\ reader' \in [Readers -> ReaderRecords]
      /\ cache' \in [Cached -> Caches] /\ \A j \in Cached : cache'[j].gen = cache[j].gen
      /\ overtaken' \in BOOLEAN
  <2> cache \in [Cached -> Caches] /\ reader \in [Readers -> ReaderRecords] /\ overtaken \in BOOLEAN
    BY DEF SettingsInv, CacheTyped, RowsTyped
  <2>1. ASSUME NEW k \in Cached, Refresh(r, k)
        PROVE  /\ cache' \in [Cached -> Caches] /\ \A j \in Cached : cache'[j].gen = cache[j].gen
               /\ UNCHANGED overtaken
    <3> DEFINE x == [cache[k] EXCEPT !.fresh = TRUE]
    <3>1. x \in Caches /\ x.gen = cache[k].gen
      BY DEF Caches
    <3>2. cache' = [cache EXCEPT ![k] = x] /\ UNCHANGED overtaken
      BY <2>1 DEF Refresh
    <3> HIDE DEF x
    <3> QED BY <3>1, <3>2, CacheMoves
  <2>2. ASSUME Publish(r)
        PROVE  /\ cache' \in [Cached -> Caches] /\ \A j \in Cached : cache'[j].gen = cache[j].gen
               /\ overtaken' \in BOOLEAN /\ reader' = [reader EXCEPT ![r] = NoReader]
    <3> DEFINE k == reader[r].key
               x == [cache[k] EXCEPT !.v = reader[r].v, !.valid = TRUE, !.fresh = TRUE]
    <3>1. /\ k \in Cached /\ x \in Caches /\ x.gen = cache[k].gen
          /\ reader' = [reader EXCEPT ![r] = NoReader]
          /\ \/ /\ cache' = [cache EXCEPT ![k] = x]
                /\ overtaken' = IF k = "public" THEN reader[r].v # row[k] ELSE overtaken
             \/ UNCHANGED <<cache, overtaken>>
      BY <2>2, PublishForm
    <3> HIDE DEF x, k
    <3> QED BY <3>1, CacheMoves
  <2>3. reader' \in [Readers -> ReaderRecords]
    BY ReadForms, NoReaderIs, ReaderMoves, <2>2
  <2>4. ASSUME Query(r) \/ PublicConfig(r) \/ PublicStatsSnapshotFor(r) PROVE UNCHANGED <<cache, overtaken>>
    BY <2>4 DEF Query, PublicConfig, PublicStatsSnapshotFor
  <2> QED BY <2>1, <2>2, <2>3, <2>4
<1>2. UNCHANGED <<row, smtp, writer, saves, stranded, views>> /\ faults' \in 0 .. MaxFaults
  <2>1. ASSUME Query(r)
        PROVE  UNCHANGED <<row, smtp, writer, saves, stranded, views>> /\ faults' \in 0 .. MaxFaults
    BY <2>1, Bounds DEF Query, Budget, Fault, counters
  <2>2. ASSUME (\E k \in Cached : Refresh(r, k)) \/ PublicConfig(r) \/ PublicStatsSnapshotFor(r) \/ Publish(r)
        PROVE  UNCHANGED <<row, smtp, writer, saves, stranded, views, faults>>
    BY <2>2 DEF Refresh, PublicConfig, PublicStatsSnapshotFor, Publish, counters
  <2> QED BY <2>1, <2>2 DEF Budget
<1>3. Generations' /\ WriterTyped'
  BY <1>1, <1>2, GenerationsKept DEF SettingsInv, WriterTyped
<1> QED BY <1>1, <1>2, <1>3 DEF SettingsInv, Budget, RowsTyped, CacheTyped

LEMMA ExpireTypes ==
  ASSUME SettingsInv, Budget, NEW k \in Cached, Expire(k)
  PROVE  SettingsInv' /\ Budget' /\ cache' \in [Cached -> Caches]
         /\ \A j \in Cached : cache'[j].gen = cache[j].gen /\ cache'[j].v = cache[j].v
                                /\ cache'[j].valid = cache[j].valid
<1>1. cache \in [Cached -> Caches]
  BY DEF SettingsInv, CacheTyped
<1>2. PICK x : x = [cache[k] EXCEPT !.fresh = FALSE]
  OBVIOUS
<1>3. x \in Caches /\ x.gen = cache[k].gen /\ x.v = cache[k].v /\ x.valid = cache[k].valid
  BY <1>1, <1>2 DEF Caches
<1>4. cache' = [cache EXCEPT ![k] = x]
  BY <1>2 DEF Expire
<1>5. cache' \in [Cached -> Caches] /\ cache'[k] = x /\ \A j \in Cached : j # k => cache'[j] = cache[j]
  BY <1>1, <1>3, <1>4, CacheMoves
<1>6. \A j \in Cached : cache'[j].gen = cache[j].gen /\ cache'[j].v = cache[j].v /\ cache'[j].valid = cache[j].valid
  BY <1>3, <1>5
<1>7. UNCHANGED <<row, smtp, reader, writer, saves, stranded, overtaken, faults, views>>
  BY DEF Expire, counters
<1>8. Generations'
  BY <1>6, <1>7, GenerationsKept DEF SettingsInv
<1> QED BY <1>5, <1>6, <1>7, <1>8 DEF SettingsInv, Budget, RowsTyped, CacheTyped, WriterTyped

\* Every step of a save changes the record of that save alone.
LEMMA WriterForms ==
  ASSUME SettingsInv, NEW w \in Writers
  PROVE  /\ PutSettings(w) =>
              \E x \in WriterRecords :
                 /\ writer' = [writer EXCEPT ![w] = x] /\ x.pc = "set" /\ x.done = {}
                 /\ writer[w].pc = "idle" /\ x.smtp.secret \in {x.smtp.server, smtp.secret}
                 /\ x.smtp.secret # x.smtp.server => x.smtp.server = smtp.server
         /\ SetSave(w) =>
              \/ /\ UNCHANGED <<stranded, faults>>
                 /\ \E k \in writer[w].left, x \in WriterRecords :
                      /\ writer' = [writer EXCEPT ![w] = x]
                      /\ x.pc = "forget" /\ x.key = k /\ x.left = writer[w].left \ {k} /\ x.done = writer[w].done
                      /\ x.smtp = writer[w].smtp
                      /\ row' = IF k \in Cached THEN [row EXCEPT ![k] = writer[w].v] ELSE row
                      /\ smtp' = IF k = "smtp" THEN writer[w].smtp ELSE smtp
              \/ /\ writer' = [writer EXCEPT ![w] = NoWriter(AnySmtp)]
                 /\ stranded' = stranded \cup (writer[w].done \cap {"hotlink", "public"})
                 /\ UNCHANGED <<row, smtp>> /\ Fault
         /\ SetInvalidate(w) =>
              \E x \in WriterRecords :
                 /\ writer' = [writer EXCEPT ![w] = x] /\ x.pc \in {"public", "set"}
                 /\ x.left = writer[w].left /\ x.done = writer[w].done \cup {writer[w].key}
                 /\ x.smtp = writer[w].smtp
         /\ ForgetPublic(w) =>
              \E x \in WriterRecords :
                 /\ writer' = [writer EXCEPT ![w] = x] /\ x.pc = "hotlink"
                 /\ x.left = writer[w].left /\ x.done = writer[w].done /\ x.smtp = writer[w].smtp
         /\ ForgetHotlink(w) => writer' = [writer EXCEPT ![w] = NoWriter(AnySmtp)]
<1> writer[w] \in WriterRecords /\ smtp \in SmtpRecords /\ writer \in [Writers -> WriterRecords]
  BY DEF SettingsInv, WriterTyped, RowsTyped
<1>1. ASSUME PutSettings(w)
      PROVE  \E x \in WriterRecords :
                 /\ writer' = [writer EXCEPT ![w] = x] /\ x.pc = "set" /\ x.done = {}
                 /\ writer[w].pc = "idle" /\ x.smtp.secret \in {x.smtp.server, smtp.secret}
                 /\ x.smtp.secret # x.smtp.server => x.smtp.server = smtp.server
  <2>1. PICK patch \in Patches, v \in 0 .. 1, server \in Servers, masked \in BOOLEAN :
          /\ "smtp" \in patch /\ masked => KeepsSecret(server)
          /\ "smtp" \notin patch => server = smtp.server /\ ~masked
          /\ writer' = [writer EXCEPT ![w] = [NoWriter(smtp) EXCEPT !.pc = "set", !.left = patch, !.v = v,
                          !.smtp = [server |-> server, secret |-> IF masked THEN smtp.secret ELSE server]]]
    BY <1>1, Zenon DEF PutSettings
  <2> DEFINE m == [server |-> server, secret |-> IF masked THEN smtp.secret ELSE server]
             x == [NoWriter(smtp) EXCEPT !.pc = "set", !.left = patch, !.v = v, !.smtp = m]
  <2>2. m \in SmtpRecords /\ m.secret \in {m.server, smtp.secret}
        /\ (m.secret # m.server => m.server = smtp.server)
    <3>1. masked => server = smtp.server
      BY <2>1 DEF KeepsSecret
    <3> QED BY <3>1 DEF SmtpRecords
  <2>3. patch \in SUBSET Keys
    BY KeysAre
  <2> HIDE DEF m
  <2>4. x \in WriterRecords /\ x.pc = "set" /\ x.done = {} /\ x.smtp = m
    <3>1. PICK n \in WriterRecords : n = NoWriter(smtp) /\ n.done = {}
      BY NoWriterIs
    <3>2. [n EXCEPT !.pc = "set", !.left = patch, !.v = v, !.smtp = m] \in WriterRecords
      BY <2>2, <2>3, <3>1 DEF WriterRecords
    <3> QED BY <3>1, <3>2 DEF WriterRecords
  <2>5. writer' = [writer EXCEPT ![w] = x]
    BY <2>1 DEF m
  <2> HIDE DEF x
  <2>6. writer[w].pc = "idle"
    BY <1>1 DEF PutSettings
  <2> QED BY <2>2, <2>4, <2>5, <2>6
<1>2. ASSUME SetSave(w)
      PROVE  \/ /\ UNCHANGED <<stranded, faults>>
                /\ \E k \in writer[w].left, x \in WriterRecords :
                      /\ writer' = [writer EXCEPT ![w] = x]
                      /\ x.pc = "forget" /\ x.key = k /\ x.left = writer[w].left \ {k} /\ x.done = writer[w].done
                      /\ x.smtp = writer[w].smtp
                      /\ row' = IF k \in Cached THEN [row EXCEPT ![k] = writer[w].v] ELSE row
                      /\ smtp' = IF k = "smtp" THEN writer[w].smtp ELSE smtp
             \/ /\ writer' = [writer EXCEPT ![w] = NoWriter(AnySmtp)]
                /\ stranded' = stranded \cup (writer[w].done \cap {"hotlink", "public"})
                /\ UNCHANGED <<row, smtp>> /\ Fault
  <2>1. ASSUME NEW k \in writer[w].left,
               writer' = [writer EXCEPT ![w].pc = "forget", ![w].key = k, ![w].left = @ \ {k}]
        PROVE  \E x \in WriterRecords :
                      /\ writer' = [writer EXCEPT ![w] = x]
                      /\ x.pc = "forget" /\ x.key = k /\ x.left = writer[w].left \ {k} /\ x.done = writer[w].done
                      /\ x.smtp = writer[w].smtp
    <3> DEFINE x == [writer[w] EXCEPT !.pc = "forget", !.key = k, !.left = @ \ {k}]
    <3>1. /\ x \in WriterRecords /\ x.pc = "forget" /\ x.key = k
          /\ x.left = writer[w].left \ {k} /\ x.done = writer[w].done /\ x.smtp = writer[w].smtp
      BY DEF WriterRecords
    <3>2. writer' = [writer EXCEPT ![w] = x]
      BY <2>1
    <3> HIDE DEF x
    <3> QED BY <3>1, <3>2
  <2> QED BY <1>2, <2>1 DEF SetSave
<1>3. ASSUME SetInvalidate(w)
      PROVE  \E x \in WriterRecords :
                 /\ writer' = [writer EXCEPT ![w] = x] /\ x.pc \in {"public", "set"}
                 /\ x.left = writer[w].left /\ x.done = writer[w].done \cup {writer[w].key}
                 /\ x.smtp = writer[w].smtp
  <2> DEFINE x == [writer[w] EXCEPT !.done = @ \cup {writer[w].key},
                                    !.pc = IF writer[w].left = {} THEN "public" ELSE "set"]
  <2>1. /\ x \in WriterRecords /\ x.pc \in {"public", "set"}
        /\ x.left = writer[w].left /\ x.done = writer[w].done \cup {writer[w].key} /\ x.smtp = writer[w].smtp
    BY DEF WriterRecords
  <2>2. writer' = [writer EXCEPT ![w] = x]
    BY <1>3 DEF SetInvalidate
  <2> HIDE DEF x
  <2> QED BY <2>1, <2>2
<1>4. ASSUME ForgetPublic(w)
      PROVE  \E x \in WriterRecords :
                 /\ writer' = [writer EXCEPT ![w] = x] /\ x.pc = "hotlink"
                 /\ x.left = writer[w].left /\ x.done = writer[w].done /\ x.smtp = writer[w].smtp
  <2> DEFINE x == [writer[w] EXCEPT !.pc = "hotlink"]
  <2>1. /\ x \in WriterRecords /\ x.pc = "hotlink"
        /\ x.left = writer[w].left /\ x.done = writer[w].done /\ x.smtp = writer[w].smtp
    BY DEF WriterRecords
  <2>2. writer' = [writer EXCEPT ![w] = x]
    BY <1>4 DEF ForgetPublic
  <2> HIDE DEF x
  <2> QED BY <2>1, <2>2
<1>5. ASSUME ForgetHotlink(w) PROVE writer' = [writer EXCEPT ![w] = NoWriter(AnySmtp)]
  BY <1>5 DEF ForgetHotlink
<1> QED BY <1>1, <1>2, <1>3, <1>4, <1>5

\* Clearing a cache: it answers no more, and its next generation begins.
LEMMA Forgets ==
  ASSUME cache \in [Cached -> Caches], NEW k \in Cached, Forget(k)
  PROVE  /\ cache' \in [Cached -> Caches]
         /\ ~cache'[k].valid
         /\ cache'[k].gen = IF k = "public" THEN 0 ELSE cache[k].gen + 1
         /\ \A j \in Cached : j # k => cache'[j] = cache[j]
<1> DEFINE x == [cache[k] EXCEPT !.valid = FALSE, !.gen = IF k = "public" THEN 0 ELSE @ + 1]
<1>1. x \in Caches /\ ~x.valid /\ x.gen = IF k = "public" THEN 0 ELSE cache[k].gen + 1
  <2>1. cache[k] \in Caches /\ cache[k].gen \in Nat
    BY DEF Caches
  <2>2. CASE k = "public"
    BY <2>1, <2>2 DEF Caches
  <2>3. CASE k # "public"
    <3>1. PICK c \in Caches, n \in Nat : c = cache[k] /\ n = cache[k].gen + 1
      BY <2>1
    <3>2. x = [c EXCEPT !.valid = FALSE, !.gen = n]
      BY <2>3, <3>1
    <3>3. [c EXCEPT !.valid = FALSE, !.gen = n] \in Caches
      BY DEF Caches
    <3> QED BY <2>3, <3>1, <3>2, <3>3 DEF Caches
  <2> QED BY <2>2, <2>3
<1>2. cache' = [cache EXCEPT ![k] = x]
  BY DEF Forget
<1> HIDE DEF x
<1> QED BY <1>1, <1>2

\* Whoever owes nothing more than before leaves the generations in order.
LEMMA OwesLess ==
  ASSUME Generations, saves \in Nat, NEW w \in Writers, cache \in [Cached -> Caches],
         \A j \in Cached : cache'[j].gen = cache[j].gen,
         \A o \in Writers : o # w => writer'[o] = writer[o],
         \/ UNCHANGED saves /\ \A k \in {"flag", "hotlink"} : w \in Owes(k)' => w \in Owes(k)
         \/ saves' = saves + 1
  PROVE  Generations'
<1>1. ASSUME NEW k \in {"flag", "hotlink"}
      PROVE  cache'[k].gen + Cardinality(Owes(k)') <= saves'
  <2>1. Owes(k) \in SUBSET Writers /\ Owes(k)' \in SUBSET Writers
    BY DEF Owes
  <2>2. PICK A, B : A = Owes(k) /\ B = Owes(k)'
    OBVIOUS
  <2>3. B \subseteq A \cup {w} /\ (w \in B => w \in A \/ saves' = saves + 1)
    BY <2>2 DEF Owes
  <2>4. Cardinality(A) \in Nat /\ Cardinality(B) \in Nat
        /\ (B \subseteq A => Cardinality(B) <= Cardinality(A))
        /\ Cardinality(B) <= Cardinality(A) + 1
    BY <2>1, <2>2, <2>3, SaveCount
  <2>5. cache[k].gen \in Nat /\ cache[k].gen + Cardinality(A) <= saves /\ cache'[k].gen = cache[k].gen
    BY <2>2, KeysAre DEF Generations, Caches
  <2>6. CASE saves' = saves + 1
    BY <2>2, <2>4, <2>5, <2>6
  <2>7. CASE UNCHANGED saves
    BY <2>2, <2>3, <2>4, <2>5, <2>7
  <2> QED BY <2>6, <2>7
<1> QED BY <1>1, KeysAre DEF Generations

\* Clearing a cache is what was owed.
LEMMA OwesOneLess ==
  ASSUME Generations, saves \in Nat, NEW w \in Writers, NEW k \in {"flag", "hotlink"},
         cache \in [Cached -> Caches], Forget(k), UNCHANGED saves,
         \A o \in Writers : o # w => writer'[o] = writer[o],
         w \in Owes(k), w \notin Owes(k)', \A j \in {"flag", "hotlink"} : w \in Owes(j)' => w \in Owes(j)
  PROVE  Generations'
<1>1. /\ cache'[k].gen = cache[k].gen + 1
      /\ \A j \in Cached : j # k => cache'[j] = cache[j]
  BY KeysAre, Forgets
<1>2. ASSUME NEW j \in {"flag", "hotlink"}
      PROVE  cache'[j].gen + Cardinality(Owes(j)') <= saves'
  <2>1. PICK A, B : A = Owes(j) /\ B = Owes(j)'
    OBVIOUS
  <2>2. A \in SUBSET Writers /\ B \in SUBSET Writers
    BY <2>1 DEF Owes
  <2>3. B \subseteq A /\ (j = k => w \in A /\ B \subseteq A \ {w})
    BY <2>1 DEF Owes
  <2>4. Cardinality(A) \in Nat /\ Cardinality(B) \in Nat /\ Cardinality(B) <= Cardinality(A)
        /\ (j = k => Cardinality(B) + 1 <= Cardinality(A))
    BY <2>2, <2>3, SaveCount
  <2>5. cache[j].gen \in Nat /\ cache[j].gen + Cardinality(A) <= saves
    BY <2>1, KeysAre DEF Generations, Caches
  <2>6. cache'[j].gen = IF j = k THEN cache[j].gen + 1 ELSE cache[j].gen
    BY <1>1, KeysAre
  <2> QED BY <2>1, <2>4, <2>5, <2>6
<1>3. cache'["public"].gen = 0
  BY <1>1, KeysAre DEF Generations
<1> QED BY <1>2, <1>3 DEF Generations

LEMMA PutTypes ==
  ASSUME SettingsInv, Budget, NEW w \in Writers, PutSettings(w)
  PROVE  SettingsInv' /\ Budget'
<1>1. PICK x \in WriterRecords : writer' = [writer EXCEPT ![w] = x] /\ x.pc = "set"
  BY WriterForms
<1>2. WriterTyped' /\ \A o \in Writers : o # w => writer'[o] = writer[o]
  BY <1>1, WriterMoves DEF SettingsInv
<1>3. saves' = saves + 1 /\ saves + views < MaxEvents /\ UNCHANGED <<cache, views, faults>>
  BY DEF PutSettings, counters
<1>4. Budget'
  BY <1>3, Bounds DEF Budget
<1>5. Generations'
  BY <1>2, <1>3, OwesLess DEF SettingsInv, CacheTyped, Budget
<1> QED BY <1>2, <1>3, <1>4, <1>5 DEF PutSettings, SettingsInv, RowsTyped, CacheTyped

LEMMA SetSaveTypes ==
  ASSUME SettingsInv, Budget, NEW w \in Writers, SetSave(w)
  PROVE  SettingsInv' /\ Budget'
<1>1. UNCHANGED <<cache, reader, saves, overtaken, views>>
  BY DEF SetSave, counters
<1>2. ASSUME NEW k \in writer[w].left, NEW x \in WriterRecords,
             writer' = [writer EXCEPT ![w] = x],
             x.pc = "forget", x.key = k, x.left = writer[w].left \ {k}, x.done = writer[w].done,
             row' = IF k \in Cached THEN [row EXCEPT ![k] = writer[w].v] ELSE row,
             smtp' = IF k = "smtp" THEN writer[w].smtp ELSE smtp,
             UNCHANGED <<stranded, faults>>
      PROVE  SettingsInv' /\ Budget'
  <2>1. WriterTyped' /\ writer'[w] = x /\ \A o \in Writers : o # w => writer'[o] = writer[o]
    BY <1>2, WriterMoves DEF SettingsInv
  <2>2. \A j \in {"flag", "hotlink"} : w \in Owes(j)' => w \in Owes(j)
    BY <1>2, <2>1 DEF Owes
  <2>3. Generations'
    BY <1>1, <2>1, <2>2, OwesLess DEF SettingsInv, CacheTyped, Budget
  <2>4. writer[w].v \in 0 .. 1 /\ writer[w].smtp \in SmtpRecords
    BY DEF SettingsInv, WriterTyped, WriterRecords
  <2>5. row' \in [Cached -> 0 .. 1] /\ smtp' \in SmtpRecords
    BY <1>2, <2>4 DEF SettingsInv, RowsTyped
  <2> QED BY <1>1, <1>2, <2>1, <2>3, <2>5 DEF SettingsInv, RowsTyped, CacheTyped, Budget
<1>3. ASSUME writer' = [writer EXCEPT ![w] = NoWriter(AnySmtp)],
             stranded' = stranded \cup (writer[w].done \cap {"hotlink", "public"}),
             UNCHANGED <<row, smtp>>, Fault
      PROVE  SettingsInv' /\ Budget'
  <2>1. WriterTyped' /\ writer'[w] = NoWriter(AnySmtp) /\ \A o \in Writers : o # w => writer'[o] = writer[o]
    BY <1>3, WriterMoves, NoWriterIs, AnySmtpIs DEF SettingsInv
  <2>2. \A j \in {"flag", "hotlink"} : w \notin Owes(j)'
    BY <2>1, NoWriterIs, AnySmtpIs DEF Owes
  <2>3. Generations'
    BY <1>1, <2>1, <2>2, OwesLess DEF SettingsInv, CacheTyped, Budget
  <2>4. faults' \in 0 .. MaxFaults
    BY <1>3, Bounds DEF Fault, Budget
  <2> QED BY <1>1, <1>3, <2>1, <2>3, <2>4 DEF SettingsInv, RowsTyped, CacheTyped, Budget
<1> QED BY <1>2, <1>3, WriterForms

LEMMA InvalidateTypes ==
  ASSUME SettingsInv, Budget, NEW w \in Writers, SetInvalidate(w)
  PROVE  SettingsInv' /\ Budget'
<1>1. UNCHANGED <<row, smtp, reader, saves, stranded, overtaken, faults, views>>
  BY DEF SetInvalidate, counters
<1>2. PICK x \in WriterRecords :
         /\ writer' = [writer EXCEPT ![w] = x] /\ x.pc \in {"public", "set"}
         /\ x.left = writer[w].left /\ x.done = writer[w].done \cup {writer[w].key}
  BY WriterForms
<1>3. WriterTyped' /\ writer'[w] = x /\ \A o \in Writers : o # w => writer'[o] = writer[o]
  BY <1>2, WriterMoves DEF SettingsInv
<1>4. writer[w].pc = "forget" /\ writer[w].key \notin writer[w].left
  BY DEF SetInvalidate, SettingsInv, WriterTyped
<1>5. \A j \in {"flag", "hotlink"} : w \in Owes(j)' => w \in Owes(j)
  BY <1>2, <1>3, <1>4 DEF Owes
<1>6. cache' \in [Cached -> Caches] /\ Generations'
  <2> cache \in [Cached -> Caches] /\ Generations /\ saves \in Nat
    BY DEF SettingsInv, CacheTyped, Budget
  <2>1. CASE writer[w].key = "flag"
    <3>1. Forget("flag")
      BY <2>1 DEF SetInvalidate
    <3>2. w \in Owes("flag") /\ w \notin Owes("flag")'
      BY <1>2, <1>3, <1>4, <2>1 DEF Owes
    <3> QED BY <1>1, <1>3, <1>5, <3>1, <3>2, OwesOneLess, Forgets, KeysAre
  <2>2. CASE writer[w].key # "flag"
    <3>1. UNCHANGED cache
      BY <2>2 DEF SetInvalidate
    <3> QED BY <1>1, <1>3, <1>5, <3>1, OwesLess
  <2> QED BY <2>1, <2>2
<1> QED BY <1>1, <1>3, <1>6 DEF SettingsInv, RowsTyped, CacheTyped, Budget

LEMMA ForgetPublicTypes ==
  ASSUME SettingsInv, Budget, NEW w \in Writers, ForgetPublic(w)
  PROVE  SettingsInv' /\ Budget'
<1>1. UNCHANGED <<row, smtp, reader, saves, faults, views>>
  BY DEF ForgetPublic, counters
<1>2. PICK x \in WriterRecords :
         /\ writer' = [writer EXCEPT ![w] = x] /\ x.pc = "hotlink"
         /\ x.left = writer[w].left /\ x.done = writer[w].done
  BY WriterForms
<1>3. WriterTyped' /\ writer'[w] = x /\ \A o \in Writers : o # w => writer'[o] = writer[o]
  BY <1>2, WriterMoves DEF SettingsInv
<1>4. \A j \in {"flag", "hotlink"} : w \in Owes(j)' => w \in Owes(j)
  BY <1>2, <1>3 DEF Owes
<1>5. /\ cache' \in [Cached -> Caches] /\ \A j \in Cached : cache'[j].gen = cache[j].gen
      /\ stranded' \subseteq {"hotlink", "public"} /\ overtaken' \in BOOLEAN
  <2> /\ cache \in [Cached -> Caches] /\ cache["public"].gen = 0
      /\ stranded \subseteq {"hotlink", "public"} /\ overtaken \in BOOLEAN
    BY DEF SettingsInv, CacheTyped, RowsTyped, Generations
  <2>1. CASE "public" \in writer[w].done
    <3>1. Forget("public") /\ stranded' = stranded \ {"public"} /\ overtaken' = FALSE
      BY <2>1 DEF ForgetPublic
    <3> QED BY <3>1, Forgets, KeysAre
  <2>2. CASE "public" \notin writer[w].done
    BY <2>2 DEF ForgetPublic
  <2> QED BY <2>1, <2>2
<1>6. Generations'
  BY <1>1, <1>3, <1>4, <1>5, OwesLess DEF SettingsInv, CacheTyped, Budget
<1> QED BY <1>1, <1>3, <1>5, <1>6 DEF SettingsInv, RowsTyped, CacheTyped, Budget

LEMMA ForgetHotlinkTypes ==
  ASSUME SettingsInv, Budget, NEW w \in Writers, ForgetHotlink(w)
  PROVE  SettingsInv' /\ Budget'
<1>1. UNCHANGED <<row, smtp, reader, saves, overtaken, faults, views>>
  BY DEF ForgetHotlink, counters
<1>2. writer' = [writer EXCEPT ![w] = NoWriter(AnySmtp)]
  BY WriterForms
<1>3. WriterTyped' /\ writer'[w] = NoWriter(AnySmtp) /\ \A o \in Writers : o # w => writer'[o] = writer[o]
  BY <1>2, WriterMoves, NoWriterIs, AnySmtpIs DEF SettingsInv
<1>4. \A j \in {"flag", "hotlink"} : w \notin Owes(j)'
  BY <1>3, NoWriterIs, AnySmtpIs DEF Owes
<1>5. cache' \in [Cached -> Caches] /\ Generations' /\ stranded' \subseteq {"hotlink", "public"}
  <2> cache \in [Cached -> Caches] /\ Generations /\ saves \in Nat /\ stranded \subseteq {"hotlink", "public"}
    BY DEF SettingsInv, CacheTyped, Budget, RowsTyped
  <2>1. CASE "hotlink" \in writer[w].done
    <3>1. Forget("hotlink") /\ stranded' = stranded \ {"hotlink"}
      BY <2>1 DEF ForgetHotlink
    <3>2. w \in Owes("hotlink") /\ w \notin Owes("hotlink")'
      BY <1>4, <2>1 DEF Owes
    <3>3. cache' \in [Cached -> Caches]
      BY <3>1, Forgets, KeysAre
    <3>4. Generations'
      BY <1>1, <1>3, <1>4, <3>1, <3>2, OwesOneLess
    <3> QED BY <3>1, <3>3, <3>4
  <2>2. CASE "hotlink" \notin writer[w].done
    <3>1. UNCHANGED <<cache, stranded>>
      BY <2>2 DEF ForgetHotlink
    <3> QED BY <1>1, <1>3, <1>4, <3>1, OwesLess
  <2> QED BY <2>1, <2>2
<1> QED BY <1>1, <1>3, <1>5 DEF SettingsInv, RowsTyped, CacheTyped, Budget

\* A stop and a crash forget everything in memory.
LEMMA ForgetCachesTypes ==
  ASSUME SettingsInv, saves \in Nat, ForgetCaches
  PROVE  SettingsInv'
<1>1. \A w \in Writers : writer'[w] = NoWriter(AnySmtp)
  BY DEF ForgetCaches
<1>2. WriterTyped'
  BY NoWriterIs, AnySmtpIs DEF ForgetCaches, WriterTyped
<1>3. CacheTyped' /\ \A k \in Cached : cache'[k].gen = 0
  BY ColdIs, NoReaderIs DEF ForgetCaches, CacheTyped
<1>4. ASSUME NEW k \in {"flag", "hotlink"} PROVE Cardinality(Owes(k)') = 0
  <2>1. Owes(k)' = {}
    BY <1>1, NoWriterIs, AnySmtpIs DEF Owes
  <2> QED BY <2>1, FS_EmptySet
<1>5. Generations'
  BY <1>3, <1>4, KeysAre DEF Generations, ForgetCaches
<1> QED BY <1>2, <1>3, <1>5 DEF SettingsInv, RowsTyped, ForgetCaches

-----------------------------------------------------------------------------
(* The view counters.                                                      *)

LEMMA HandsAre ==
  ASSUME hand \in [Flushers -> -1 .. MaxEvents]
  PROVE  /\ hand["loop"] \in -1 .. MaxEvents /\ hand["final"] \in -1 .. MaxEvents
         /\ \A f \in Flushers : Held(f) \in Nat /\ (hand[f] >= 0 => Held(f) = hand[f])
                                  /\ (hand[f] = -1 => Held(f) = 0)
BY Bounds DEF Flushers, Held

LEMMA BufferFits ==
  ASSUME Counters, Budget
  PROVE  buffer \in 0 .. MaxEvents /\ table \in 0 .. MaxEvents /\ lost \in 0 .. MaxEvents
<1>1. Held("loop") \in Nat /\ Held("final") \in Nat
  BY HandsAre DEF Counters, Flushers
<1> QED BY <1>1, Bounds DEF Counters, Budget

\* What leaves the hand of one flush stays out of the other's.
LEMMA HandMoves ==
  ASSUME hand \in [Flushers -> -1 .. MaxEvents], NEW f \in Flushers, NEW n \in -1 .. MaxEvents,
         hand' = [hand EXCEPT ![f] = n]
  PROVE  /\ hand' \in [Flushers -> -1 .. MaxEvents]
         /\ hand'[f] = n /\ Held(f)' = (IF n > 0 THEN n ELSE 0)
         /\ \A g \in Flushers : g # f => hand'[g] = hand[g] /\ Held(g)' = Held(g)
BY DEF Held

LEMMA CountersStep ==
  ASSUME TypeInv, CountersNext
  PROVE  Counters' /\ Stopping' /\ (UNCHANGED <<saves, views>> \/ Budget') /\ faults' \in 0 .. MaxFaults
<1> Counters /\ Budget /\ Stopping /\ faults \in 0 .. MaxFaults
  BY DEF TypeInv, Budget
<1> buffer \in 0 .. MaxEvents
  BY BufferFits
<1> buffer \in -1 .. MaxEvents /\ -1 \in -1 .. MaxEvents
  BY Bounds
<1> Held("loop") \in Nat /\ Held("final") \in Nat /\ hand \in [Flushers -> -1 .. MaxEvents]
  BY HandsAre DEF Counters, Flushers
<1>1. CASE Record
  <2>1. /\ views' = views + 1 /\ buffer' = buffer + 1 /\ saves + views < MaxEvents
        /\ UNCHANGED <<saves, faults, hand, table, phase, lost>>
        /\ phase \in {"up", "stopping", "timedout"}
    BY <1>1 DEF Record, settings
  <2>2. Held("loop")' = Held("loop") /\ Held("final")' = Held("final")
    BY <2>1 DEF Held
  <2>3. Counters' /\ Budget'
    BY <2>1, <2>2, Bounds DEF Counters, Budget
  <2>4. Stopping'
    BY <2>1 DEF Stopping, Budget
  <2> QED BY <2>1, <2>3, <2>4
<1>2. CASE Stop
  <2>1. phase = "up" /\ phase' = "stopping" /\ UNCHANGED <<saves, faults, buffer, hand, table, views, lost>>
    BY <1>2 DEF Stop, ForgetCaches
  <2>2. Held("loop")' = Held("loop") /\ Held("final")' = Held("final")
    BY <2>1 DEF Held
  <2> QED BY <2>1, <2>2 DEF Counters, Stopping
<1>3. CASE Drained
  <2>1. /\ phase = "stopping" /\ UNCHANGED <<saves, buffer, hand, table, views, lost>>
        /\ \/ phase' = "drained" /\ UNCHANGED faults
           \/ phase' = "timedout" /\ Fault
    BY <1>3 DEF Drained, settings
  <2>2. Held("loop")' = Held("loop") /\ Held("final")' = Held("final")
    BY <2>1 DEF Held
  <2>3. hand["final"] = -1 /\ hand["final"] \in Int
    BY <2>1, HandsAre, Bounds DEF Stopping
  <2>4. faults' \in 0 .. MaxFaults /\ (phase' = "timedout" => faults' > 0)
    BY <2>1, Bounds DEF Fault
  <2> QED BY <2>1, <2>2, <2>3, <2>4 DEF Counters, Stopping
<1>4. CASE Crash
  <2>1. /\ phase = "up" /\ UNCHANGED <<saves, table, phase, views>>
        /\ lost' = lost + buffer + Held("loop") /\ buffer' = 0
        /\ hand' = [f \in Flushers |-> -1] /\ Fault
    BY <1>4 DEF Crash, ForgetCaches
  <2>2. Held("loop")' = 0 /\ Held("final")' = 0 /\ hand' \in [Flushers -> -1 .. MaxEvents]
        /\ hand'["final"] = -1
    BY <2>1, Bounds DEF Held, Flushers
  <2>3. Held("final") = 0
    BY <2>1, HandsAre, Bounds DEF Stopping, Flushers
  <2>4. faults' \in 0 .. MaxFaults
    BY <2>1, Bounds DEF Fault
  <2> QED BY <2>1, <2>2, <2>3, <2>4 DEF Counters, Stopping
<1>5. ASSUME NEW f \in Flushers, FlushTake(f)
      PROVE  Counters' /\ Stopping' /\ UNCHANGED <<saves, views, faults>>
  <2>1. /\ hand[f] = -1 /\ hand' = [hand EXCEPT ![f] = buffer] /\ buffer' = 0
        /\ f = "final" => phase \in {"drained", "timedout"}
        /\ UNCHANGED <<saves, faults, table, phase, views, lost>>
    BY <1>5 DEF FlushTake, settings
  <2>2. /\ hand' \in [Flushers -> -1 .. MaxEvents] /\ Held(f)' = IF buffer > 0 THEN buffer ELSE 0
        /\ \A g \in Flushers : g # f => hand'[g] = hand[g] /\ Held(g)' = Held(g)
    BY <2>1, HandMoves
  <2>3. Held(f) = 0
    BY <2>1, HandsAre
  <2>4. Counters'
    BY <2>1, <2>2, <2>3 DEF Counters, Flushers
  <2>5. Stopping'
    BY <2>1, <2>2 DEF Stopping, Flushers
  <2> QED BY <2>1, <2>4, <2>5
<1>6. ASSUME NEW f \in Flushers, FlushWrite(f)
      PROVE  Counters' /\ Stopping' /\ UNCHANGED <<saves, views>> /\ faults' \in 0 .. MaxFaults
  <2>1. /\ phase # "stopped" /\ hand[f] >= 0 /\ hand' = [hand EXCEPT ![f] = -1]
        /\ \/ table' = table + hand[f] /\ UNCHANGED <<buffer, faults>>
           \/ buffer' = buffer + hand[f] /\ Fault /\ UNCHANGED table
        /\ phase' = IF f = "final" THEN "stopped" ELSE phase
        /\ UNCHANGED <<saves, views, lost>>
    BY <1>6 DEF FlushWrite, PutBack, settings
  <2>2. /\ hand' \in [Flushers -> -1 .. MaxEvents] /\ Held(f)' = 0 /\ hand'[f] = -1
        /\ \A g \in Flushers : g # f => hand'[g] = hand[g] /\ Held(g)' = Held(g)
    <3>1. PICK n \in -1 .. MaxEvents : n = -1
      OBVIOUS
    <3>2. hand' = [hand EXCEPT ![f] = n]
      BY <2>1, <3>1
    <3>3. /\ hand' \in [Flushers -> -1 .. MaxEvents]
          /\ hand'[f] = n /\ Held(f)' = (IF n > 0 THEN n ELSE 0)
          /\ \A g \in Flushers : g # f => hand'[g] = hand[g] /\ Held(g)' = Held(g)
      BY <3>2, HandMoves
    <3> QED BY <3>1, <3>3
  <2>3. Held(f) = hand[f] /\ hand[f] \in Nat
    BY <2>1, HandsAre
  <2>4. Counters'
    BY <2>1, <2>2, <2>3 DEF Counters, Flushers
  <2>5. Fault => faults' > 0 /\ faults' \in 0 .. MaxFaults
    BY Bounds DEF Fault
  <2>6. Stopping'
    BY <2>1, <2>2, <2>5 DEF Stopping, Flushers
  <2> QED BY <2>1, <2>4, <2>5, <2>6
<1> QED BY <1>1, <1>2, <1>3, <1>4, <1>5, <1>6 DEF CountersNext

LEMMA InitTypes == Init => TypeInv
<1> SUFFICES ASSUME Init PROVE TypeInv
  OBVIOUS
<1>1. \A w \in Writers : writer[w] = NoWriter(AnySmtp)
  BY DEF Init
<1>2. WriterTyped /\ RowsTyped
  <2>1. WriterTyped
    BY <1>1, NoWriterIs, AnySmtpIs DEF Init, WriterTyped
  <2>2. RowsTyped
    <3>1. row = [k \in Cached |-> 0] /\ 0 \in 0 .. 1
      BY DEF Init
    <3>2. row \in [Cached -> 0 .. 1]
      BY <3>1, Zenon
    <3>3. smtp \in SmtpRecords /\ stranded = {} /\ overtaken = FALSE
      BY AnySmtpIs DEF Init
    <3> QED BY <3>2, <3>3 DEF RowsTyped
  <2> QED BY <2>1, <2>2
<1>3. CacheTyped /\ \A k \in Cached : cache[k].gen = 0
  BY ColdIs, NoReaderIs DEF Init, CacheTyped
<1>4. ASSUME NEW k \in {"flag", "hotlink"} PROVE Cardinality(Owes(k)) = 0
  <2>1. Owes(k) = {}
    BY <1>1, NoWriterIs, AnySmtpIs DEF Owes
  <2> QED BY <2>1, FS_EmptySet
<1>5. Generations
  BY <1>3, <1>4, KeysAre DEF Generations, Init
<1>6. Budget /\ Stopping
  BY Bounds DEF Init, Budget, Stopping, Flushers
<1>7. Counters
  <2>1. hand["loop"] = -1 /\ hand["final"] = -1 /\ hand \in [Flushers -> -1 .. MaxEvents]
    BY Bounds DEF Init, Flushers
  <2>2. Held("loop") = 0 /\ Held("final") = 0
    BY <2>1 DEF Held
  <2> QED BY <2>1, <2>2 DEF Counters, Init
<1> QED BY <1>2, <1>3, <1>5, <1>6, <1>7 DEF TypeInv, SettingsInv

LEMMA SettingsStep ==
  ASSUME TypeInv, SettingsNext(Cached), ~Crash
  PROVE  SettingsInv' /\ Budget' /\ UNCHANGED counters /\ (UNCHANGED faults \/ Fault)
<1> SettingsInv /\ Budget
  BY DEF TypeInv
<1>1. ASSUME NEW r \in Readers,
             \/ \E k \in Cached : Refresh(r, k)
             \/ Query(r) \/ PublicConfig(r) \/ PublicStatsSnapshotFor(r) \/ Publish(r)
      PROVE  SettingsInv' /\ Budget' /\ UNCHANGED counters /\ (UNCHANGED faults \/ Fault)
  <2>1. UNCHANGED counters /\ (UNCHANGED faults \/ Fault)
    BY <1>1, Zenon DEF Refresh, Query, PublicConfig, PublicStatsSnapshotFor, Publish
  <2> QED BY <1>1, <2>1, ReadTypes
<1>2. ASSUME NEW k \in Cached, Expire(k)
      PROVE  SettingsInv' /\ Budget' /\ UNCHANGED counters /\ (UNCHANGED faults \/ Fault)
  <2>1. UNCHANGED counters /\ (UNCHANGED faults \/ Fault)
    BY <1>2 DEF Expire
  <2> QED BY <1>2, <2>1, ExpireTypes
<1>3. ASSUME NEW w \in Writers,
             PutSettings(w) \/ SetSave(w) \/ SetInvalidate(w) \/ ForgetPublic(w) \/ ForgetHotlink(w)
      PROVE  SettingsInv' /\ Budget' /\ UNCHANGED counters /\ (UNCHANGED faults \/ Fault)
  <2>1. UNCHANGED counters /\ (UNCHANGED faults \/ Fault)
    BY <1>3, Zenon DEF PutSettings, SetSave, SetInvalidate, ForgetPublic, ForgetHotlink
  <2> QED BY <1>3, <2>1, PutTypes, SetSaveTypes, InvalidateTypes, ForgetPublicTypes, ForgetHotlinkTypes
<1> QED BY <1>1, <1>2, <1>3, Zenon DEF SettingsNext

LEMMA StepTypes == TypeInv /\ [Next]_vars => TypeInv'
<1> SUFFICES ASSUME TypeInv, [Next]_vars PROVE TypeInv'
  OBVIOUS
<1>1. CASE SettingsNext(Cached) /\ ~Crash
  <2>1. SettingsInv' /\ Budget' /\ UNCHANGED counters /\ (UNCHANGED faults \/ Fault)
    BY <1>1, SettingsStep
  <2>2. Held("loop")' = Held("loop") /\ Held("final")' = Held("final")
    BY <2>1 DEF counters, Held
  <2>3. Counters'
    BY <2>1, <2>2 DEF TypeInv, Counters, counters
  <2>4. Stopping'
    <3>1. faults \in Nat /\ (UNCHANGED faults \/ faults' = faults + 1)
      BY <2>1, Bounds DEF TypeInv, Budget, Fault
    <3> QED BY <2>1, <3>1 DEF Stopping, TypeInv, counters
  <2> QED BY <2>1, <2>3, <2>4 DEF TypeInv
<1>2. CASE CountersNext
  <2>1. Counters' /\ Stopping' /\ (UNCHANGED <<saves, views>> \/ Budget') /\ faults' \in 0 .. MaxFaults
    BY <1>2, CountersStep
  <2>2. Budget'
    BY <2>1 DEF TypeInv, Budget
  <2>3. SettingsInv'
    <3>1. UNCHANGED settings \/ ForgetCaches
      BY <1>2 DEF CountersNext, Record, Stop, Drained, Crash, FlushTake, FlushWrite
    <3>2. CASE ForgetCaches
      BY <3>2, ForgetCachesTypes DEF TypeInv, Budget
    <3>3. CASE UNCHANGED settings
      BY <3>3 DEF settings, TypeInv, SettingsInv, RowsTyped, CacheTyped, Generations, WriterTyped, Owes
    <3> QED BY <3>1, <3>2, <3>3
  <2> QED BY <2>1, <2>2, <2>3 DEF TypeInv
<1>3. CASE UNCHANGED vars
  BY <1>3 DEF vars, settings, counters, TypeInv, SettingsInv, RowsTyped, CacheTyped, Generations, WriterTyped,
              Owes, Budget, Counters, Stopping, Held
<1>4. Crash => CountersNext
  BY DEF CountersNext
<1> QED BY <1>1, <1>2, <1>3, <1>4 DEF Next

\* The types of caches, saves and counters, with what bounds a generation and
\* where every view is, hold for any number of administrators and refreshes.
THEOREM LocalStateTypes == Spec => []TypeInv
<1> QED BY InitTypes, StepTypes, PTL DEF Spec

\* Every variable keeps its type: no generation passes the number of saves.
THEOREM LocalStateTypeOK == Spec => []TypeOK
<1>1. TypeInv => TypeOK
  <2> SUFFICES ASSUME TypeInv PROVE TypeOK
    OBVIOUS
  <2>1. buffer \in 0 .. MaxEvents /\ table \in 0 .. MaxEvents /\ lost \in 0 .. MaxEvents
    BY BufferFits DEF TypeInv
  <2>2. views \in 0 .. MaxEvents /\ saves \in 0 .. MaxEvents
    BY Bounds DEF TypeInv, Budget
  <2>3. \A k \in Cached : cache[k].gen \in 0 .. MaxEvents /\ cache[k].gen <= saves
    BY GenerationFits DEF TypeInv
  <2>4. cache \in [Cached -> CacheRecords]
    <3>1. ASSUME NEW k \in Cached PROVE cache[k] \in CacheRecords
      BY <2>3 DEF TypeInv, SettingsInv, CacheTyped, Caches, CacheRecords
    <3> QED BY <3>1 DEF TypeInv, SettingsInv, CacheTyped
  <2> QED BY <2>1, <2>2, <2>3, <2>4
          DEF TypeOK, TypeInv, SettingsInv, RowsTyped, CacheTyped, WriterTyped, Budget, Counters, Stopping
<1> QED BY <1>1, LocalStateTypes, PTL

\* No view is counted twice, and none is lost but by a crash or in the hand of
\* the loop at the end of a stop, however flushes and views overlap.
THEOREM ViewsAreConserved == Spec => []ViewsConserved
<1>1. TypeInv => ViewsConserved
  BY DEF TypeInv, Counters, Stopping, ViewsConserved
<1> QED BY <1>1, LocalStateTypes, PTL

-----------------------------------------------------------------------------
(* Caches and rows.                                                        *)

\* An outdated cache of k is accounted for.
Behind(k) ==
  \/ \E w \in Writers : k \in Unannounced(w)
  \/ k \in stranded
  \/ k = "public" /\ overtaken

\* What a refresh is about to publish, it read in the present generation and
\* from the present row, or from one whose change is still to be announced.
Known(r) ==
  /\ reader[r].pc = "look" => reader[r].key = "public"
  /\ reader[r].pc \in {"query", "publish"} /\ reader[r].key # "public" =>
       reader[r].gen <= cache[reader[r].key].gen
  /\ reader[r].pc = "publish" /\ reader[r].key # "public" /\ reader[r].gen = cache[reader[r].key].gen =>
       reader[r].v = row[reader[r].key] \/ Behind(reader[r].key)

ReadersKnow == \A r \in Readers : Known(r)

CachesKnow ==
  \A k \in Cached : cache[k].valid /\ cache[k].v # row[k] => Behind(k)

KnowInv == ReadersKnow /\ CachesKnow

LEMMA CachesKnowIs == CachesKnow <=> CachesFollowTheRows
BY DEF CachesKnow, CachesFollowTheRows, Behind

\* A step that takes no account away, and changes a row only with one.
LEMMA KnowKept ==
  ASSUME KnowInv, UNCHANGED reader,
         \A k \in Cached : \/ /\ cache'[k].gen = cache[k].gen /\ cache'[k].v = cache[k].v
                              /\ cache'[k].valid = cache[k].valid
                              /\ Behind(k) \/ row'[k] # row[k] => Behind(k)'
                           \/ k # "public" /\ ~cache'[k].valid /\ cache'[k].gen = cache[k].gen + 1
                           \/ k = "public" /\ ~cache'[k].valid /\ cache'[k].gen = cache[k].gen,
         SettingsInv
  PROVE  KnowInv'
<1>1. CachesKnow'
  BY DEF KnowInv, CachesKnow
<1>2. ASSUME NEW r \in Readers, reader[r].pc \in {"query", "publish"}, reader[r].key # "public"
      PROVE  /\ reader[r].gen <= cache'[reader[r].key].gen
             /\ reader[r].pc = "publish" /\ reader[r].gen = cache'[reader[r].key].gen =>
                  reader[r].v = row'[reader[r].key] \/ Behind(reader[r].key)'
  <2>1. PICK k \in Cached : k = reader[r].key
    BY DEF SettingsInv, CacheTyped, ReaderRecords
  <2>2. cache[k].gen \in Nat /\ reader[r].gen \in Int
    BY Bounds DEF SettingsInv, CacheTyped, ReaderRecords, Caches
  <2>3. reader[r].gen <= cache[k].gen
        /\ (reader[r].pc = "publish" /\ reader[r].gen = cache[k].gen => reader[r].v = row[k] \/ Behind(k))
    BY <1>2, <2>1 DEF KnowInv, ReadersKnow, Known
  <2>4. CASE cache'[k].gen = cache[k].gen /\ (Behind(k) \/ row'[k] # row[k] => Behind(k)')
    BY <2>1, <2>3, <2>4
  <2>5. CASE cache'[k].gen = cache[k].gen + 1
    BY <2>1, <2>2, <2>3, <2>5
  <2> QED BY <1>2, <2>1, <2>4, <2>5
<1>3. ReadersKnow'
  BY <1>2 DEF KnowInv, ReadersKnow, Known
<1> QED BY <1>1, <1>3 DEF KnowInv

\* Who is not in the middle of a save owes no announcement.
LEMMA BehindKept ==
  ASSUME NEW k \in Cached, Behind(k), NEW w \in Writers,
         \A o \in Writers : o # w => writer'[o] = writer[o],
         k \in Unannounced(w) => Behind(k)',
         k \in stranded => Behind(k)',
         k = "public" /\ overtaken => Behind(k)'
  PROVE  Behind(k)'
<1>1. ASSUME NEW o \in Writers, k \in Unannounced(o) PROVE Behind(k)'
  <2>1. CASE o = w
    BY <1>1, <2>1
  <2>2. CASE o # w
    BY <1>1, <2>2 DEF Behind, Unannounced
  <2> QED BY <2>1, <2>2
<1> QED BY <1>1 DEF Behind

LEMMA SaveKnows ==
  ASSUME SettingsInv, Budget, KnowInv, NEW w \in Writers, PutSettings(w) \/ SetSave(w)
  PROVE  KnowInv'
<1> \A k \in Cached : k \in {"flag", "hotlink", "public"}
  BY KeysAre
<1>1. CASE PutSettings(w)
  <2>1. PICK x \in WriterRecords :
           writer' = [writer EXCEPT ![w] = x] /\ writer[w].pc = "idle" /\ x.pc = "set" /\ x.done = {}
    BY <1>1, WriterForms
  <2>2. \A o \in Writers : o # w => writer'[o] = writer[o]
    BY <2>1
  <2>3. Unannounced(w) = {}
    BY <2>1 DEF Unannounced, SettingsInv, WriterTyped
  <2>4. UNCHANGED <<row, cache, reader, stranded, overtaken>>
    BY <1>1 DEF PutSettings
  <2>5. \A k \in Cached : Behind(k) => Behind(k)'
    BY <2>2, <2>3, <2>4, BehindKept DEF Behind
  <2> QED BY <2>4, <2>5, KnowKept
<1>2. CASE SetSave(w)
  <2>1. UNCHANGED <<cache, reader, overtaken>>
    BY <1>2 DEF SetSave
  <2>2. ASSUME NEW k \in writer[w].left, NEW x \in WriterRecords,
               writer' = [writer EXCEPT ![w] = x],
               x.pc = "forget", x.key = k, x.done = writer[w].done,
               row' = IF k \in Cached THEN [row EXCEPT ![k] = writer[w].v] ELSE row,
               UNCHANGED stranded
        PROVE  KnowInv'
    <3>1. writer'[w] = x /\ \A o \in Writers : o # w => writer'[o] = writer[o]
      BY <2>2, WriterMoves DEF SettingsInv, WriterTyped
    <3>2. Unannounced(w)' = {k} \cup (writer[w].done \cap {"hotlink", "public"})
      BY <2>2, <3>1 DEF Unannounced
    <3>3. Unannounced(w) \subseteq Unannounced(w)'
      <4>1. writer[w].pc = "set"
        BY <1>2 DEF SetSave
      <4> QED BY <3>2, <4>1 DEF Unannounced
    <3>4. \A j \in Cached : Behind(j) => Behind(j)'
      BY <2>1, <2>2, <3>1, <3>3, BehindKept DEF Behind
    <3>5. ASSUME NEW j \in Cached, row'[j] # row[j] PROVE Behind(j)'
      <4>1. j = k
        BY <2>2, <3>5 DEF SettingsInv, RowsTyped
      <4> QED BY <3>2, <4>1 DEF Behind
    <3> QED BY <2>1, <3>4, <3>5, KnowKept
  <2>3. ASSUME writer' = [writer EXCEPT ![w] = NoWriter(AnySmtp)],
               stranded' = stranded \cup (writer[w].done \cap {"hotlink", "public"}),
               UNCHANGED row
        PROVE  KnowInv'
    <3>1. \A o \in Writers : o # w => writer'[o] = writer[o]
      BY <2>3
    <3>2. Unannounced(w) \subseteq stranded'
      <4>1. writer[w].pc = "set"
        BY <1>2 DEF SetSave
      <4> QED BY <2>3, <4>1 DEF Unannounced
    <3>3. \A j \in Cached : Behind(j) => Behind(j)'
      BY <2>1, <2>3, <3>1, <3>2, BehindKept DEF Behind
    <3> QED BY <2>1, <2>3, <3>3, KnowKept
  <2> QED BY <1>2, <2>2, <2>3, WriterForms
<1> QED BY <1>1, <1>2

LEMMA AnnounceKnows ==
  ASSUME SettingsInv, Budget, KnowInv, NEW w \in Writers,
         SetInvalidate(w) \/ ForgetPublic(w) \/ ForgetHotlink(w)
  PROVE  KnowInv'
<1> \A k \in Cached : k \in {"flag", "hotlink", "public"}
  BY KeysAre
<1> cache \in [Cached -> Caches] /\ writer \in [Writers -> WriterRecords] /\ cache["public"].gen = 0
  BY DEF SettingsInv, CacheTyped, WriterTyped, Generations
<1>1. CASE SetInvalidate(w)
  <2>1. PICK x \in WriterRecords :
         /\ writer' = [writer EXCEPT ![w] = x] /\ x.pc \in {"public", "set"}
         /\ x.done = writer[w].done \cup {writer[w].key}
    BY <1>1, WriterForms
  <2>2. writer'[w] = x /\ \A o \in Writers : o # w => writer'[o] = writer[o]
    BY <2>1
  <2>3. UNCHANGED <<row, reader, stranded, overtaken>> /\ writer[w].pc = "forget"
    BY <1>1 DEF SetInvalidate
  <2>4. Unannounced(w) \subseteq Unannounced(w)' \cup {"flag", "smtp"}
    BY <2>1, <2>2, <2>3, KeysAre DEF Unannounced, WriterRecords
  <2>5. writer[w].key # "flag" => Unannounced(w) \subseteq Unannounced(w)' \cup {"smtp"}
    BY <2>1, <2>2, <2>3, KeysAre DEF Unannounced, WriterRecords
  <2>6. CASE writer[w].key = "flag"
    <3>1. Forget("flag")
      BY <1>1, <2>6 DEF SetInvalidate
    <3>2. ~cache'["flag"].valid /\ cache'["flag"].gen = cache["flag"].gen + 1
          /\ \A j \in Cached : j # "flag" => cache'[j] = cache[j]
      BY <3>1, Forgets, KeysAre
    <3>3. \A j \in Cached : j # "flag" /\ Behind(j) => Behind(j)'
      BY <2>2, <2>3, <2>4, BehindKept DEF Behind
    <3> QED BY <2>3, <3>2, <3>3, KnowKept
  <2>7. CASE writer[w].key # "flag"
    <3>1. UNCHANGED cache
      BY <1>1, <2>7 DEF SetInvalidate
    <3>2. \A j \in Cached : Behind(j) => Behind(j)'
      BY <2>2, <2>3, <2>5, <2>7, BehindKept DEF Behind
    <3> QED BY <2>3, <3>1, <3>2, KnowKept
  <2> QED BY <2>6, <2>7
<1>2. CASE ForgetPublic(w)
  <2>1. PICK x \in WriterRecords :
         writer' = [writer EXCEPT ![w] = x] /\ x.pc = "hotlink" /\ x.done = writer[w].done
    BY <1>2, WriterForms
  <2>2. writer'[w] = x /\ \A o \in Writers : o # w => writer'[o] = writer[o]
    BY <2>1
  <2>3. UNCHANGED <<row, reader>> /\ writer[w].pc = "public"
    BY <1>2 DEF ForgetPublic
  <2>4. Unannounced(w)' = writer[w].done \cap {"hotlink"}
        /\ Unannounced(w) = writer[w].done \cap {"hotlink", "public"}
    BY <2>1, <2>2, <2>3 DEF Unannounced
  <2>5. CASE "public" \in writer[w].done
    <3>1. Forget("public") /\ stranded' = stranded \ {"public"} /\ overtaken' = FALSE
      BY <1>2, <2>5 DEF ForgetPublic
    <3>2. ~cache'["public"].valid /\ cache'["public"].gen = cache["public"].gen
          /\ \A j \in Cached : j # "public" => cache'[j] = cache[j]
      BY <3>1, Forgets, KeysAre
    <3>3. \A j \in Cached : j # "public" /\ Behind(j) => Behind(j)'
      BY <2>2, <2>4, <3>1, BehindKept DEF Behind
    <3> QED BY <2>3, <3>2, <3>3, KnowKept
  <2>6. CASE "public" \notin writer[w].done
    <3>1. UNCHANGED <<cache, stranded, overtaken>>
      BY <1>2, <2>6 DEF ForgetPublic
    <3>2. \A j \in Cached : Behind(j) => Behind(j)'
      BY <2>2, <2>4, <2>6, <3>1, BehindKept DEF Behind
    <3> QED BY <2>3, <3>1, <3>2, KnowKept
  <2> QED BY <2>5, <2>6
<1>3. CASE ForgetHotlink(w)
  <2>1. \A o \in Writers : o # w => writer'[o] = writer[o]
    BY <1>3, WriterForms
  <2>2. UNCHANGED <<row, reader, overtaken>> /\ writer[w].pc = "hotlink"
    BY <1>3 DEF ForgetHotlink
  <2>3. Unannounced(w) = writer[w].done \cap {"hotlink"}
    BY <2>2 DEF Unannounced
  <2>4. CASE "hotlink" \in writer[w].done
    <3>1. Forget("hotlink") /\ stranded' = stranded \ {"hotlink"}
      BY <1>3, <2>4 DEF ForgetHotlink
    <3>2. ~cache'["hotlink"].valid /\ cache'["hotlink"].gen = cache["hotlink"].gen + 1
          /\ \A j \in Cached : j # "hotlink" => cache'[j] = cache[j]
      BY <3>1, Forgets, KeysAre
    <3>3. \A j \in Cached : j # "hotlink" /\ Behind(j) => Behind(j)'
      BY <2>1, <2>2, <2>3, <3>1, BehindKept DEF Behind
    <3> QED BY <2>2, <3>2, <3>3, KnowKept
  <2>5. CASE "hotlink" \notin writer[w].done
    <3>1. UNCHANGED <<cache, stranded>>
      BY <1>3, <2>5 DEF ForgetHotlink
    <3>2. \A j \in Cached : Behind(j) => Behind(j)'
      BY <2>1, <2>2, <2>3, <2>5, <3>1, BehindKept DEF Behind
    <3> QED BY <2>2, <3>1, <3>2, KnowKept
  <2> QED BY <2>4, <2>5
<1> QED BY <1>1, <1>2, <1>3

\* A refresh alone moves: the others and the caches know as much as before.
LEMMA ReaderKnows ==
  ASSUME SettingsInv, KnowInv, NEW r \in Readers, NEW x \in ReaderRecords,
         reader' = [reader EXCEPT ![r] = x],
         UNCHANGED <<row, writer, stranded, overtaken>>,
         \A k \in Cached : cache'[k].gen = cache[k].gen /\ cache'[k].v = cache[k].v
                             /\ cache'[k].valid = cache[k].valid,
         x.pc = "look" => x.key = "public",
         x.pc \in {"query", "publish"} /\ x.key # "public" => x.gen <= cache[x.key].gen,
         x.pc = "publish" /\ x.key # "public" => x.v = row[x.key]
  PROVE  KnowInv'
<1>1. \A k \in Cached : Behind(k) <=> Behind(k)'
  BY DEF Behind, Unannounced
<1>2. CachesKnow'
  BY <1>1 DEF KnowInv, CachesKnow
<1>3. reader'[r] = x /\ \A o \in Readers : o # r => reader'[o] = reader[o]
  BY ReaderMoves DEF SettingsInv, CacheTyped
<1>4. \A o \in Readers : reader[o].key \in Cached
  BY DEF SettingsInv, CacheTyped, ReaderRecords
<1>5. x.key \in Cached
  BY DEF ReaderRecords
<1>6. ASSUME NEW o \in Readers
      PROVE  Known(o)'
  <2>1. CASE o = r
    BY <1>3, <1>5, <2>1 DEF Known
  <2>2. CASE o # r
    <3>1. reader'[o] = reader[o] /\ reader[o].key \in Cached
      BY <1>3, <1>4, <2>2
    <3>2. Known(o)
      BY DEF KnowInv, ReadersKnow
    <3>3. PICK k \in Cached : k = reader[o].key
      BY <3>1
    <3>4. cache'[k].gen = cache[k].gen /\ row' = row /\ (Behind(k) => Behind(k)')
      BY <1>1
    <3> QED BY <3>1, <3>2, <3>3, <3>4 DEF Known
  <2> QED BY <2>1, <2>2
<1>7. ReadersKnow'
  BY <1>6 DEF ReadersKnow
<1> QED BY <1>2, <1>7 DEF KnowInv

LEMMA ReadKnows ==
  ASSUME SettingsInv, Budget, KnowInv, NEW r \in Readers,
         \/ \E k \in Cached : Refresh(r, k)
         \/ Query(r) \/ PublicConfig(r) \/ PublicStatsSnapshotFor(r)
  PROVE  KnowInv'
<1> reader[r] \in ReaderRecords /\ cache \in [Cached -> Caches] /\ reader[r].key \in Cached
  BY DEF SettingsInv, CacheTyped, ReaderRecords
<1>1. ASSUME NEW k \in Cached, Refresh(r, k) PROVE KnowInv'
  <2>1. PICK x \in ReaderRecords :
          /\ reader' = [reader EXCEPT ![r] = x]
          /\ x = [NoReader EXCEPT !.pc = "query", !.key = k, !.gen = cache[k].gen]
    BY <1>1, ReadForms
  <2>2. x.pc = "query" /\ x.key = k /\ x.gen = cache[k].gen
    BY <2>1 DEF NoReader
  <2>3. \A j \in Cached : cache'[j].gen = cache[j].gen /\ cache'[j].v = cache[j].v /\ cache'[j].valid = cache[j].valid
    BY <1>1 DEF Refresh, Caches
  <2>4. UNCHANGED <<row, writer, stranded, overtaken>>
    BY <1>1 DEF Refresh
  <2>5. x.gen <= cache[x.key].gen
    BY <2>2 DEF Caches
  <2> QED BY <2>1, <2>2, <2>3, <2>4, <2>5, ReaderKnows
<1>2. CASE Query(r)
  <2>1. PICK x \in ReaderRecords :
          /\ reader' = [reader EXCEPT ![r] = x]
          /\ x \in {[reader[r] EXCEPT !.pc = "publish", !.v = row[reader[r].key]], NoReader}
    BY <1>2, ReadForms, NoReaderIs
  <2>2. UNCHANGED <<cache, row, writer, stranded, overtaken>> /\ reader[r].pc = "query"
    BY <1>2 DEF Query
  <2>3. x.pc = "idle" \/ (x.pc = "publish" /\ x.v = row[x.key] /\ x.key = reader[r].key /\ x.gen = reader[r].gen)
    BY <2>1, NoReaderIs DEF ReaderRecords
  <2>4. x.pc = "publish" /\ x.key # "public" => x.gen <= cache[x.key].gen
    BY <2>2, <2>3 DEF KnowInv, ReadersKnow, Known
  <2> QED BY <2>1, <2>2, <2>3, <2>4, ReaderKnows
<1>3. CASE PublicConfig(r)
  <2>1. PICK x \in ReaderRecords :
          /\ reader' = [reader EXCEPT ![r] = x]
          /\ x = [NoReader EXCEPT !.pc = "look", !.key = "public", !.v = row["public"]]
    BY <1>3, ReadForms
  <2>2. x.pc = "look" /\ x.key = "public"
    BY <2>1 DEF NoReader
  <2>3. UNCHANGED <<cache, row, writer, stranded, overtaken>>
    BY <1>3 DEF PublicConfig
  <2> QED BY <2>1, <2>2, <2>3, ReaderKnows
<1>4. CASE PublicStatsSnapshotFor(r)
  <2>1. PICK x \in ReaderRecords :
          /\ reader' = [reader EXCEPT ![r] = x]
          /\ x \in {[reader[r] EXCEPT !.pc = "publish"], NoReader}
    BY <1>4, ReadForms, NoReaderIs
  <2>2. UNCHANGED <<cache, row, writer, stranded, overtaken>> /\ reader[r].pc = "look"
    BY <1>4 DEF PublicStatsSnapshotFor
  <2>3. x.pc = "idle" \/ (x.pc = "publish" /\ x.key = "public")
    BY <2>1, <2>2, NoReaderIs DEF ReaderRecords, KnowInv, ReadersKnow, Known
  <2> QED BY <2>1, <2>2, <2>3, ReaderKnows
<1> QED BY <1>1, <1>2, <1>3, <1>4

LEMMA PublishKnows ==
  ASSUME SettingsInv, Budget, KnowInv, NEW r \in Readers, Publish(r)
  PROVE  KnowInv'
<1> reader[r] \in ReaderRecords /\ cache \in [Cached -> Caches] /\ reader \in [Readers -> ReaderRecords]
  BY DEF SettingsInv, CacheTyped
<1>1. PICK k, x :
        /\ k = reader[r].key /\ k \in Cached /\ x \in Caches /\ x.gen = cache[k].gen /\ x.v = reader[r].v
        /\ reader' = [reader EXCEPT ![r] = NoReader]
        /\ \/ /\ Publishable(r)
              /\ cache' = [cache EXCEPT ![k] = x]
              /\ overtaken' = IF k = "public" THEN reader[r].v # row[k] ELSE overtaken
           \/ UNCHANGED <<cache, overtaken>>
  BY PublishForm
<1>2. UNCHANGED <<row, writer, stranded>> /\ reader[r].pc = "publish"
  BY DEF Publish
<1>3. \A j \in Cached : cache'[j].gen = cache[j].gen /\ (j # k => cache'[j] = cache[j])
  BY <1>1, CacheMoves
<1>4. ASSUME NEW j \in Cached, j # "public" \/ UNCHANGED overtaken, Behind(j) PROVE Behind(j)'
  BY <1>1, <1>2, <1>4 DEF Behind, Unannounced
<1>5. CachesKnow'
  <2> SUFFICES ASSUME NEW j \in Cached, cache'[j].valid, cache'[j].v # row[j] PROVE Behind(j)'
    BY <1>2 DEF CachesKnow
  <2>1. CASE cache'[j] = cache[j]
    <3>1. Behind(j)
      BY <2>1 DEF KnowInv, CachesKnow
    <3>2. CASE j # "public" \/ UNCHANGED overtaken
      BY <1>4, <3>1, <3>2
    <3>3. CASE j = "public" /\ j # k
      BY <1>1, <1>4, <3>1, <3>3
    <3>4. CASE j = "public" /\ j = k /\ overtaken' = (reader[r].v # row[k]) /\ cache' = [cache EXCEPT ![k] = x]
      <4>1. cache'[j].v = reader[r].v
        BY <1>1, <3>4
      <4> QED BY <3>4, <4>1 DEF Behind
    <3> QED BY <1>1, <3>2, <3>3, <3>4
  <2>2. CASE cache'[j] # cache[j]
    <3>1. j = k /\ cache'[j] = x /\ Publishable(r)
          /\ overtaken' = IF k = "public" THEN reader[r].v # row[k] ELSE overtaken
      BY <1>1, <1>3, <2>2
    <3>2. reader[r].v # row[j]
      BY <1>1, <3>1
    <3>3. CASE j = "public"
      BY <3>1, <3>2, <3>3 DEF Behind
    <3>4. CASE j # "public"
      <4>1. reader[r].gen = cache[reader[r].key].gen
        BY <1>1, <3>1, <3>4 DEF Publishable
      <4>2. Behind(j)
        BY <1>1, <1>2, <3>1, <3>2, <3>4, <4>1 DEF KnowInv, ReadersKnow, Known
      <4> QED BY <1>4, <3>4, <4>2
    <3> QED BY <3>3, <3>4
  <2> QED BY <2>1, <2>2
<1>6. ASSUME NEW o \in Readers
      PROVE  Known(o)'
  <2>1. CASE o = r
    BY <1>1, <2>1, NoReaderIs DEF Known
  <2>2. CASE o # r
    <3>1. reader'[o] = reader[o] /\ reader[o].key \in Cached
      BY <1>1, <2>2 DEF ReaderRecords
    <3>2. Known(o)
      BY DEF KnowInv, ReadersKnow
    <3>3. PICK j \in Cached : j = reader[o].key
      BY <3>1
    <3>4. cache'[j].gen = cache[j].gen /\ row' = row /\ (j # "public" /\ Behind(j) => Behind(j)')
      BY <1>2, <1>3, <1>4
    <3> QED BY <3>1, <3>2, <3>3, <3>4 DEF Known
  <2> QED BY <2>1, <2>2
<1>7. ReadersKnow'
  BY <1>6 DEF ReadersKnow
<1> QED BY <1>5, <1>7 DEF KnowInv

-----------------------------------------------------------------------------
(* The secret of the mail server.                                          *)

LEMMA SecretKept ==
  ASSUME SettingsInv, SecretStaysWithItsServer, NEW w \in Writers,
         PutSettings(w) \/ SetSave(w) \/ SetInvalidate(w) \/ ForgetPublic(w) \/ ForgetHotlink(w)
  PROVE  SecretStaysWithItsServer'
<1> DEFINE Good(m) == m.secret = m.server
<1> smtp.secret = smtp.server /\ writer[w].smtp.secret = writer[w].smtp.server
  BY DEF SecretStaysWithItsServer
<1>1. PICK x \in WriterRecords : writer' = [writer EXCEPT ![w] = x] /\ x.smtp.secret = x.smtp.server
  BY WriterForms, NoWriterIs, AnySmtpIs
<1>2. smtp'.secret = smtp'.server
  <2>1. CASE SetSave(w)
    BY <2>1, WriterForms
  <2>2. CASE UNCHANGED smtp
    BY <2>2
  <2> QED BY <2>1, <2>2 DEF PutSettings, SetInvalidate, ForgetPublic, ForgetHotlink
<1>3. \A o \in Writers : writer'[o].smtp.secret = writer'[o].smtp.server
  BY <1>1 DEF SettingsInv, WriterTyped, SecretStaysWithItsServer
<1> QED BY <1>2, <1>3 DEF SecretStaysWithItsServer

\* Every step of the settings.
LEMMA SettingsKnow ==
  ASSUME TypeInv, KnowInv, SecretStaysWithItsServer, SettingsNext(Cached), ~Crash
  PROVE  KnowInv' /\ SecretStaysWithItsServer'
<1> SettingsInv /\ Budget
  BY DEF TypeInv
<1>1. ASSUME NEW r \in Readers,
             \/ \E k \in Cached : Refresh(r, k)
             \/ Query(r) \/ PublicConfig(r) \/ PublicStatsSnapshotFor(r) \/ Publish(r)
      PROVE  KnowInv' /\ SecretStaysWithItsServer'
  <2>1. KnowInv'
    BY <1>1, ReadKnows, PublishKnows
  <2>2. UNCHANGED <<smtp, writer>>
    BY <1>1, Zenon DEF Refresh, Query, PublicConfig, PublicStatsSnapshotFor, Publish
  <2> QED BY <2>1, <2>2 DEF SecretStaysWithItsServer
<1>2. ASSUME NEW k \in Cached, Expire(k) PROVE KnowInv' /\ SecretStaysWithItsServer'
  <2>1. \A j \in Cached : cache'[j].gen = cache[j].gen /\ cache'[j].v = cache[j].v /\ cache'[j].valid = cache[j].valid
    BY <1>2, ExpireTypes
  <2>2. UNCHANGED <<row, smtp, reader, writer, stranded, overtaken>>
    BY <1>2 DEF Expire
  <2>3. \A j \in Cached : Behind(j) => Behind(j)'
    BY <2>2 DEF Behind, Unannounced
  <2> QED BY <2>1, <2>2, <2>3, KnowKept DEF SecretStaysWithItsServer
<1>3. ASSUME NEW w \in Writers,
             PutSettings(w) \/ SetSave(w) \/ SetInvalidate(w) \/ ForgetPublic(w) \/ ForgetHotlink(w)
      PROVE  KnowInv' /\ SecretStaysWithItsServer'
  BY <1>3, SaveKnows, AnnounceKnows, SecretKept
<1> QED BY <1>1, <1>2, <1>3, Zenon DEF SettingsNext

\* A cache that answers with an outdated value belongs to a save that is still
\* running or failed between its keys, and no administrator's masked save gives
\* the mail secret to another server, for any number of saves and refreshes.
THEOREM SettingsAreHeld == Spec => []SettingsHold
<1>1. Init => KnowInv /\ SecretStaysWithItsServer
  <2> SUFFICES ASSUME Init PROVE KnowInv /\ SecretStaysWithItsServer
    OBVIOUS
  <2>1. KnowInv
    BY ColdIs, NoReaderIs DEF Init, KnowInv, ReadersKnow, Known, CachesKnow
  <2>2. SecretStaysWithItsServer
    BY AnySmtpIs, NoWriterIs DEF Init, SecretStaysWithItsServer
  <2> QED BY <2>1, <2>2
<1>2. TypeInv /\ KnowInv /\ SecretStaysWithItsServer /\ [Next]_vars => KnowInv' /\ SecretStaysWithItsServer'
  <2> SUFFICES ASSUME TypeInv, KnowInv, SecretStaysWithItsServer, [Next]_vars
               PROVE  KnowInv' /\ SecretStaysWithItsServer'
    OBVIOUS
  <2>1. CASE SettingsNext(Cached) /\ ~Crash
    BY <2>1, SettingsKnow
  <2>2. CASE ForgetCaches
    <3>1. KnowInv'
      BY <2>2, ColdIs, NoReaderIs DEF ForgetCaches, KnowInv, ReadersKnow, Known, CachesKnow
    <3>2. SecretStaysWithItsServer'
      BY <2>2, AnySmtpIs, NoWriterIs DEF ForgetCaches, SecretStaysWithItsServer
    <3> QED BY <3>1, <3>2
  <2>3. CASE UNCHANGED settings
    BY <2>3 DEF settings, KnowInv, ReadersKnow, Known, CachesKnow, Behind, Unannounced, SecretStaysWithItsServer
  <2>4. CountersNext \/ UNCHANGED vars => UNCHANGED settings \/ ForgetCaches
    BY Zenon DEF CountersNext, Record, Stop, Drained, Crash, FlushTake, FlushWrite, vars
  <2>5. Crash => CountersNext
    BY DEF CountersNext
  <2> QED BY <2>1, <2>2, <2>3, <2>4, <2>5 DEF Next
<1>3. KnowInv /\ SecretStaysWithItsServer => SettingsHold
  BY CachesKnowIs DEF KnowInv, SettingsHold
<1> QED BY <1>1, <1>2, <1>3, LocalStateTypes, PTL DEF Spec

=============================================================================
