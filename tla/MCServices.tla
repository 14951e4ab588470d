------------------------------ MODULE MCServices ------------------------------
(***************************************************************************)
(* Instance for TLC of the services that keep their state to themselves:   *)
(* LocalState (each cached setting, the view counters), Drivers, Delivery, *)
(* Albums, Feeds and Upgrade.  None reads a variable of another one, so    *)
(* that every behaviour of them together is a shuffle of behaviours of     *)
(* each; the initial state chooses the one that is followed.               *)
(***************************************************************************)
EXTENDS LocalState, Sequences, TLC

CONSTANTS
  Backends, Clients, Sizes, MaxPool, MaxCalls, Mishaps, Absent,
  NumImages, NumAlbums, Requests, MaxRequests, MaxErrors,
  NumRows, MaxSecond, MaxValue, Lists, MaxChanges,
  Releases, MaxUpgrades, MaxBreaks,
  Policies, Endpoints, MaxEdits

VARIABLES
  part,
  driver, server, obj, op, pool, sessions, version, calls, mishaps,
  album, image, req, walk, requests, errors, excused,
  rows, open, now, page, changes,
  dir, running, upgrade, asked, breaks, overlapped, oldest,
  policy, built, shown, home, fetch, probe, edits

D == INSTANCE Drivers
A == INSTANCE Albums
F == INSTANCE Feeds WITH row <- rows
U == INSTANCE Upgrade WITH req <- upgrade, faults <- breaks, MaxRequests <- MaxUpgrades, MaxFaults <- MaxBreaks
P == INSTANCE Delivery WITH row <- policy, image <- shown, req <- fetch, changes <- edits, MaxChanges <- MaxEdits

ASSUME AlbumsAssumption == {NumImages, NumAlbums, MaxRequests, MaxErrors} \subseteq Nat

ASSUME FeedsAssumption == {NumRows, MaxSecond, MaxValue, MaxChanges} \subseteq Nat /\ Lists \subseteq F!PagedLists

ASSUME DeliveryAssumption == Policies \subseteq Nat \ {0} /\ Endpoints # {} /\ MaxEdits \in Nat

\* An object of no pieces is not the lack of one.
ASSUME DriversAssumption ==
  /\ IsFiniteSet(Clients) /\ {MaxPool, MaxCalls, Mishaps} \subseteq Nat
  /\ Sizes \in Seq(0 .. 2)
  /\ Absent # <<>>
  /\ \A p \in D!Pieces : Absent # <<p>> /\ \A q \in D!Pieces : Absent # <<p, q>>

\* Releases are numbers above 0, which stands for a process that is down.
ASSUME UpgradeAssumption == Releases \subseteq Nat \ {0} /\ {MaxUpgrades, MaxBreaks} \subseteq Nat

drives == <<driver, server, obj, op, pool, sessions, version, calls, mishaps>>
albums == <<album, image, req, walk, requests, errors, excused>>
feeds == <<rows, open, now, page, changes>>
upgrading == <<dir, running, upgrade, asked, breaks, overlapped, oldest>>
deliveries == <<policy, built, shown, home, fetch, probe, edits>>

\* What is not followed has no state.
NoDrives ==
  /\ driver = Absent /\ server = Absent /\ obj = Absent /\ op = Absent /\ pool = Absent /\ sessions = Absent
  /\ version = Absent /\ calls = Absent /\ mishaps = Absent
NoAlbums ==
  /\ album = Absent /\ image = Absent /\ req = Absent /\ walk = Absent /\ requests = Absent /\ errors = Absent
  /\ excused = Absent
NoFeeds == rows = Absent /\ open = Absent /\ now = Absent /\ page = Absent /\ changes = Absent
NoUpgrade ==
  /\ dir = Absent /\ running = Absent /\ upgrade = Absent /\ asked = Absent /\ breaks = Absent
  /\ overlapped = Absent /\ oldest = Absent
NoDelivery ==
  /\ policy = Absent /\ built = Absent /\ shown = Absent /\ home = Absent /\ fetch = Absent /\ probe = Absent
  /\ edits = Absent

Parts == Cached \cup {"counters", "drivers", "albums", "feeds", "upgrade", "delivery", "probes"}

ServicesInit ==
  /\ Init
  /\ part \in Parts
  /\ IF part = "drivers"
     THEN /\ D!Init
          /\ driver \in {"local", "ftp"} => server.range   \* they ask for no ranges
          /\ driver = "local" => server.size
     ELSE NoDrives
  /\ IF part = "albums" THEN A!Init ELSE NoAlbums
  /\ IF part = "feeds" THEN F!Init ELSE NoFeeds
  /\ IF part = "upgrade" THEN U!Init ELSE NoUpgrade
  /\ IF part \in {"delivery", "probes"} THEN P!Init ELSE NoDelivery

ServicesNext ==
  /\ UNCHANGED part
  /\ \/ part \in Cached /\ SettingsNext({part}) /\ UNCHANGED <<drives, albums, feeds, upgrading, deliveries>>
     \/ part = "counters" /\ CountersNext /\ UNCHANGED <<drives, albums, feeds, upgrading, deliveries>>
     \/ part = "drivers" /\ D!Next /\ UNCHANGED <<vars, albums, feeds, upgrading, deliveries>>
     \/ part = "albums" /\ A!Next /\ UNCHANGED <<vars, drives, feeds, upgrading, deliveries>>
     \/ part = "feeds" /\ F!Next /\ UNCHANGED <<vars, drives, albums, upgrading, deliveries>>
     \/ part = "upgrade" /\ U!Next /\ UNCHANGED <<vars, drives, albums, feeds, deliveries>>
     \/ part = "delivery" /\ P!Delivering /\ UNCHANGED <<vars, drives, albums, feeds, upgrading>>
     \/ part = "probes" /\ P!Probing /\ UNCHANGED <<vars, drives, albums, feeds, upgrading>>

Services == ServicesInit /\ [][ServicesNext]_<<part, vars, drives, albums, feeds, upgrading, deliveries>>

-----------------------------------------------------------------------------
\* Every variable of the service that is followed has its type.
ServicesTypeOK ==
  CASE part = "drivers" -> D!TypeOK
    [] part = "albums"  -> A!TypeOK
    [] part = "feeds"   -> F!TypeOK
    [] part = "upgrade" -> U!TypeOK
    [] part \in {"delivery", "probes"} -> P!TypeOK
    [] OTHER            -> TypeOK

\* Drivers: no FTP session is used twice or left behind, and what a call
\* reports of the object is so.  Delivery: a request is sent where the tables
\* say, through a driver built for that place, and probes clean up.
DriversHold ==
  /\ part = "drivers" => D!SessionsAccountedFor /\ D!AnswersAreTrue
  /\ part = "delivery" => P!DeliveredAsStored
  /\ part = "probes" => P!ProbesCleanUp

\* Albums: what is in a private album is private, or about to be, and a visitor
\* sees every image of an album once.
AlbumsHold == part = "albums" => A!PrivateAlbumsHide /\ A!WalksAreComplete

\* Feeds: who pages to the end of a list misses nothing that stayed in it.
ListsAreComplete == part = "feeds" => F!ListsAreComplete

\* Upgrade: there is always a binary to start, and no older one.
BinaryIsKept == part = "upgrade" => U!BinaryIsKept

-----------------------------------------------------------------------------
MCPatches == {{"flag"}, {"hotlink", "public"}, {"smtp"}}
MCSizes == <<2, 1>>

\* The requests of all services have the same names.
Symmetry == Permutations(Writers)

=============================================================================
