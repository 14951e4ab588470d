------------------------------ MODULE ServeCache ------------------------------
(***************************************************************************)
(* The disk cache of public images: requests that find their object in it  *)
(* read it without a lock, others read storage and put what they got,      *)
(* one at a time, evicting the entries that were not used for longest.     *)
(* The process may be killed at any step; the directory stays.             *)
(*                                                                         *)
(* A key is the hash of an object's content and its kind, so that its      *)
(* bytes never change.                                                     *)
(***************************************************************************)
EXTENDS Integers, Sequences, FiniteSets, SequencesExt

CONSTANTS
  Keys,        \* objects
  SizeOf,      \* their sizes
  MaxBytes,    \* what the entries may take together
  MaxFileBytes,\* what an entry may take; it does not depend on MaxBytes
  Clients,     \* requests at a time
  Nobody,      \* "no request"
  MaxServed,   \* bound on requests
  MaxFaults    \* bound on failed writes and removals, and on crashes

VARIABLES
  entry,       \* the file of each key
  temp,        \* the file it is written to first
  used,        \* the keys with an entry, the one not used for longest first
  lock,        \* the request that puts
  client,      \* the requests
  served,      \* requests so far
  faults,      \* faults so far
  unremoved    \* history: an eviction could not remove a file

cache == <<entry, temp, used, lock, client, served, faults, unremoved>>

Contents == {"none", "part", "whole"}
ClientRecords ==
  [pc: {"idle", "open", "touch", "source", "put", "walk", "evict", "write", "rename"}, key: Keys \cup {Nobody},
   got: Contents, victims: UNION {[1 .. n -> Keys] : n \in 0 .. Cardinality(Keys)}]
Idle == [pc |-> "idle", key |-> Nobody, got |-> "none", victims |-> <<>>]

Init ==
  /\ entry = [k \in Keys |-> "none"] /\ temp = [k \in Keys |-> "none"]
  /\ used = <<>> /\ lock = Nobody
  /\ client = [c \in Clients |-> Idle]
  /\ served = 0 /\ faults = 0 /\ unremoved = FALSE

\* The bytes of a set of objects, one by one.
BytesOf(set) == UNION {{k} \X (1 .. SizeOf[k]) : k \in set}
TotalSize(set) == Cardinality(BytesOf(set))

\* A sequence of different keys without one of them.
Without(seq, k) ==
  IF k \in ToSet(seq)
    THEN LET i == CHOOSE i \in DOMAIN seq : seq[i] = k
         IN  [j \in 1 .. Len(seq) - 1 |-> seq[IF j < i THEN j ELSE j + 1]]
    ELSE seq

Cached == {k \in Keys : entry[k] # "none"}
Over(incoming) == TotalSize(Cached) + incoming > MaxBytes
Used(k) == IF entry[k] = "none" THEN used ELSE Append(Without(used, k), k)
Goes(c, pc) == client' = [client EXCEPT ![c].pc = pc]
Ends(c) == client' = [client EXCEPT ![c] = Idle]
Failing == faults < MaxFaults /\ faults' = faults + 1

-----------------------------------------------------------------------------
\* A request for a public object looks for its file ...
Get(c, k) ==
  /\ client[c].pc = "idle" /\ served < MaxServed /\ served' = served + 1
  /\ client' = [client EXCEPT ![c] = [Idle EXCEPT !.pc = IF entry[k] = "none" THEN "source" ELSE "touch",
                                                  !.key = k, !.got = entry[k]]]
  /\ UNCHANGED <<entry, temp, used, lock, faults, unremoved>>

\* ... and what it opened it can read, whatever happens to the name; its time
\* of use is set by name, an entry put there meanwhile or none at all.
Touch(c) ==
  /\ client[c].pc = "touch"
  /\ used' = Used(client[c].key)
  /\ Goes(c, "open")
  /\ UNCHANGED <<entry, temp, lock, served, faults, unremoved>>

Deliver(c) ==
  /\ client[c].pc = "open"
  /\ Ends(c)
  /\ UNCHANGED <<entry, temp, used, lock, served, faults, unremoved>>

\* fillServeCache: storage is read to the end; what is not too large is put.
Fill(c) ==
  /\ client[c].pc = "source"
  /\ IF SizeOf[client[c].key] <= MaxFileBytes THEN Goes(c, "put") ELSE Ends(c)
  /\ UNCHANGED <<entry, temp, used, lock, served, faults, unremoved>>

\* Put: under the lock, the directory is read ...
Put(c) ==
  /\ client[c].pc = "put" /\ lock = Nobody
  /\ lock' = c
  /\ client' = [client EXCEPT ![c].pc = IF Over(SizeOf[client[c].key]) THEN "evict" ELSE "write", ![c].victims = used]
  /\ UNCHANGED <<entry, temp, used, served, faults, unremoved>>

\* Entries go until the one to come fits.
Enough(c) == ~Over(SizeOf[client[c].key])

\* ... entries are removed, in the order they were last used then ...
Evict(c) ==
  LET rest == client[c].victims
      k    == Head(rest) IN
  /\ client[c].pc = "evict"
  /\ IF rest = <<>> \/ Enough(c)
       THEN Goes(c, "write") /\ UNCHANGED <<entry, used, faults, unremoved>>
       ELSE /\ client' = [client EXCEPT ![c].victims = Tail(rest)]
            /\ \/ entry' = [entry EXCEPT ![k] = "none"] /\ used' = Without(used, k) /\ UNCHANGED <<faults, unremoved>>
               \/ Failing /\ unremoved' = TRUE /\ UNCHANGED <<entry, used>>
  /\ UNCHANGED <<temp, lock, served>>

\* The entry itself is written.
WritesInPlace(c) ==
  LET k == client[c].key IN
  /\ entry' = [entry EXCEPT ![k] = "part"] /\ used' = Append(Without(used, k), k)
  /\ UNCHANGED temp

\* A temporary file is written.
Writes(c) ==
  /\ temp' = [temp EXCEPT ![client[c].key] = "part"]
  /\ UNCHANGED <<entry, used>>

\* ... the bytes are written beside the entry ...
Write(c) ==
  /\ client[c].pc = "write"
  /\ Writes(c)
  /\ Goes(c, "rename")
  /\ UNCHANGED <<lock, served, faults, unremoved>>

\* ... and renamed to it.
Rename(c) ==
  LET k == client[c].key IN
  /\ client[c].pc = "rename"
  /\ temp' = [temp EXCEPT ![k] = "none"]
  /\ entry' = [entry EXCEPT ![k] = "whole"] /\ used' = Append(Without(used, k), k)
  /\ lock' = Nobody
  /\ Ends(c)
  /\ UNCHANGED <<served, faults, unremoved>>

\* A write that fails leaves what it wrote; a rename that fails removes it.
PutFails(c) ==
  /\ client[c].pc \in {"write", "rename"} /\ Failing
  /\ temp' = [temp EXCEPT ![client[c].key] = IF client[c].pc = "write" THEN "part" ELSE "none"]
  /\ lock' = Nobody
  /\ Ends(c)
  /\ UNCHANGED <<entry, used, served, unremoved>>

\* The process is killed; the next one finds the directory as it is.
Crash ==
  /\ Failing
  /\ client' = [c \in Clients |-> Idle] /\ lock' = Nobody
  /\ UNCHANGED <<entry, temp, used, served, unremoved>>

Next ==
  \/ \E c \in Clients, k \in Keys : Get(c, k)
  \/ \E c \in Clients : Touch(c) \/ Deliver(c) \/ Fill(c) \/ Put(c) \/ Evict(c) \/ Write(c) \/ Rename(c) \/ PutFails(c)
  \/ Crash

Spec == Init /\ [][Next]_cache

-----------------------------------------------------------------------------
(* Properties.                                                             *)

TypeOK ==
  /\ entry \in [Keys -> Contents] /\ temp \in [Keys -> Contents]
  /\ lock \in Clients \cup {Nobody}
  /\ client \in [Clients -> ClientRecords]
  /\ ToSet(used) = Cached /\ Len(used) = Cardinality(Cached)
  /\ served \in 0 .. MaxServed /\ faults \in 0 .. MaxFaults /\ unremoved \in BOOLEAN

\* Whoever finds an object in the cache gets all of it, also from a cache that
\* a killed process left, and the entries never take more than they may, but
\* for a single one that may be larger than all together, and for files that
\* could not be removed (Get without the lock, Put and evict).
CacheHolds ==
  /\ \A c \in Clients : client[c].pc \in {"touch", "open"} => client[c].got = "whole"
  /\ unremoved \/ Cardinality(Cached) <= 1 \/ TotalSize(Cached) <= MaxBytes

=============================================================================
