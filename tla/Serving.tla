------------------------------ MODULE Serving ------------------------------
(***************************************************************************)
(* Serving one image: the gate every direct link goes through, the claim   *)
(* of a limited view, the delivery of the original or of a thumbnail that  *)
(* may have to be generated, and the monthly traffic of the owner.         *)
(*                                                                         *)
(* A request stops wherever the Go code leaves a database statement or a   *)
(* storage call.  How the bytes travel (a redirect to the CDN, a signed    *)
(* URL or a stream, from the local cache or not) makes no difference to    *)
(* what is claimed and metered, and is left out.  The image and its file   *)
(* are the only ones: what they share with others is the subject of        *)
(* ImageStore.  The view counters are in LocalState.                       *)
(***************************************************************************)
EXTENDS Integers, FiniteSets

CONSTANTS
  Requests,    \* requests served at the same time
  Limits,      \* values of max_views an owner may set; 0 is "no limit"
  Quota,       \* monthly traffic of the owner's group; 0 is "no limit"
  Bytes,       \* bytes of the original, the thumbnail and the width variant
  Months,      \* the clock runs over months 1 .. Months
  Stored,      \* objects the upload left: its thumbnail is best effort
  Changes,     \* obstacles that come and go in the instance
  None,        \* "nobody"
  MaxRequests, \* bound on requests let through by the gate
  MaxEvents    \* bound on changes by the owner or a moderator, and on crashes

Variants == {"thumb", "width"}
Kinds == Variants \cup {"orig"}
People == {"stranger", "owner", "admin"}
Obstacles == {"private", "pending", "rejected", "expired", "locked"}

ASSUME ServingAssumption ==
  /\ IsFiniteSet(Requests) /\ None \notin Requests
  /\ Limits \subseteq Nat /\ 0 \in Limits
  /\ Quota \in Nat
  /\ Bytes \in [Kinds -> Nat \ {0}]
  /\ Months \in Nat \ {0}
  /\ Stored \in {{"orig"}, {"orig", "thumb"}}
  /\ Changes \subseteq Obstacles
  /\ {MaxRequests, MaxEvents} \subseteq Nat

VARIABLES
  image,      \* the images row
  file,       \* whether the files row exists
  store,      \* objects in storage
  deletions,  \* delete_file tasks to come
  req,        \* the requests
  flight,     \* the request that generates each variant (singleflight)
  owner,      \* the owner's traffic: bytes used and the month they belong to
  month,      \* the clock
  events,     \* changes and crashes so far
  admitted,   \* requests let through so far
  most,       \* history: the highest limit the image ever had
  taken,      \* history: originals delivered under a limit to other than the owner
  spent,      \* history: bytes metered in each month
  free,       \* history: bytes metered for administrators, whom no quota stops
  turned,     \* history: a month's traffic was written over by an older month
  raced       \* history: variants put after the file's deletion

traffic == <<owner, spent, free, turned>>
objects == <<file, store, deletions, flight, raced>>
vars == <<image, req, month, events, admitted, most, taken, traffic, objects>>

ImageRecords == [st: {"live", "trash", "purged"}, obstacles: SUBSET Obstacles,
                 limit: Limits, served: Nat]
ReqRecords == [pc: {"idle", "check", "claim", "load", "open", "wait", "source", "put", "send",
                    "meter", "add"},
               kind: Kinds, admin: BOOLEAN, claims: BOOLEAN, month: 0 .. Months]
Idle == [pc |-> "idle", kind |-> "orig", admin |-> FALSE, claims |-> FALSE, month |-> 0]

Init ==
  /\ \E l \in Limits :
       /\ image = [st |-> "live", obstacles |-> {}, limit |-> l, served |-> 0]
       /\ most = l
  /\ file = TRUE
  /\ store = Stored
  /\ deletions = {}
  /\ req = [r \in Requests |-> Idle]
  /\ flight = [k \in Variants |-> None]
  /\ owner = [used |-> 0, month |-> 1]
  /\ month = 1
  /\ events = 0 /\ admitted = 0
  /\ taken = 0
  /\ spent = [m \in 1 .. Months |-> 0]
  /\ turned = FALSE
  /\ free = 0
  /\ raced = {}

At(r, step) == req[r].pc = step
Goto(r, step) == req' = [req EXCEPT ![r].pc = step]
Finish(r) == req' = [req EXCEPT ![r] = Idle]

-----------------------------------------------------------------------------
(* The gate.                                                               *)

\* Authorize: what keeps whom out.  An administrator previews everything; an
\* owner is kept out by a rejection or the expiry alone.
KeepsOut(who) ==
  CASE who = "admin" -> {}
    [] who = "owner" -> {"rejected", "expired"}
    [] OTHER -> Obstacles

Exhausted(img) == img.limit > 0 /\ img.served >= img.limit

\* Find, the cookies and the conditions of Authorize on the row.  A stranger
\* may have unlocked a locked image; a hotlinked request is refused at once.
\* Everybody but the owner claims a view, and originals alone are.
Find(r) ==
  /\ At(r, "idle")
  /\ admitted < MaxRequests
  /\ admitted' = admitted + 1
  /\ image.st = "live"
  /\ \E who \in People, kind \in Kinds, unlocked \in BOOLEAN :
       /\ image.obstacles \cap (KeepsOut(who) \ (IF unlocked THEN {"locked"} ELSE {})) = {}
       /\ ~(Exhausted(image) /\ who = "stranger")
       /\ req' = [req EXCEPT ![r] = [Idle EXCEPT !.pc = IF who = "admin" THEN "claim" ELSE "check",
                                       !.kind = kind, !.admin = who = "admin",
                                       !.claims = kind = "orig" /\ image.limit > 0
                                                                   /\ who # "owner"]]
  /\ UNCHANGED <<image, month, events, most, taken>>
  /\ UNCHANGED <<traffic, objects>>

\* EffectiveUsed: the traffic of another month counts as none.
EffectiveUsed == IF owner.month = month THEN owner.used ELSE 0

\* bandwidth.Check
UsedUp == Quota > 0 /\ EffectiveUsed >= Quota

CheckBandwidth(r) ==
  /\ At(r, "check")
  /\ IF UsedUp THEN Finish(r) ELSE Goto(r, "claim")
  /\ UNCHANGED <<image, month, events, admitted, most, taken>>
  /\ UNCHANGED <<traffic, objects>>

\* The limit is compared when the row is read and not again.
MayClaimStale == image.st = "live" /\ image.limit > 0

\* ClaimView: one conditional update.
MayClaim == image.st = "live" /\ image.limit > 0 /\ image.served < image.limit

\* Original claims a view; that there was a limit was read with the row.
ClaimView(r) ==
  /\ At(r, "claim")
  /\ \/ /\ ~req[r].claims
        /\ Goto(r, "load")
        /\ UNCHANGED image
     \/ /\ req[r].claims /\ MayClaim
        /\ image' = [image EXCEPT !.served = @ + 1]
        /\ Goto(r, "load")
     \/ /\ req[r].claims /\ ~MayClaim
        /\ Finish(r)
        /\ UNCHANGED image
  /\ UNCHANGED <<month, events, admitted, most, taken>>
  /\ UNCHANGED <<traffic, objects>>

\* LoadFilePolicy: the view stays claimed when the file row is gone.
LoadFilePolicy(r) ==
  /\ At(r, "load")
  /\ IF ~file THEN Finish(r) ELSE Goto(r, IF req[r].kind = "orig" THEN "send" ELSE "open")
  /\ UNCHANGED <<image, month, events, admitted, most, taken>>
  /\ UNCHANGED <<traffic, objects>>

-----------------------------------------------------------------------------
(* Thumbnails that are not there yet.                                      *)

\* Open the variant; on a miss lead its generation or wait for who leads it.
OpenThumb(r) ==
  /\ At(r, "open")
  /\ LET k == req[r].kind IN
     \/ /\ k \in store
        /\ Goto(r, "send")
        /\ UNCHANGED flight
     \/ /\ k \notin store
        /\ flight[k] = None
        /\ flight' = [flight EXCEPT ![k] = r]
        /\ Goto(r, "source")
     \/ /\ k \notin store
        /\ flight[k] # None
        /\ Goto(r, "wait")
        /\ UNCHANGED flight
  /\ UNCHANGED <<image, file, store, deletions, month, events, admitted, most, taken, raced>>
  /\ UNCHANGED traffic

\* How a request goes on after a flight: a width that cannot be produced falls
\* back to the default thumbnail.
Resumed(q, step) ==
  CASE step = "idle" -> Idle
    [] step = "open" -> [q EXCEPT !.pc = "open", !.kind = "thumb"]
    [] OTHER -> [q EXCEPT !.pc = step]

Aboard(r, k) == r = flight[k] \/ (At(r, "wait") /\ req[r].kind = k)

\* The flight is never taken out of the group.
LandLeavingFlight(k, step) ==
  /\ req' = [r \in Requests |-> IF Aboard(r, k) THEN Resumed(req[r], step) ELSE req[r]]
  /\ UNCHANGED flight

\* The leader's outcome is everybody's: the bytes, or its error, even when
\* only the leader's client hung up.
Land(k, step) ==
  /\ flight' = [flight EXCEPT ![k] = None]
  /\ req' = [r \in Requests |-> IF Aboard(r, k) THEN Resumed(req[r], step) ELSE req[r]]

\* The original is read and scaled down in memory, or the attempt fails: it
\* cannot be opened, or it is too large or no image.
GenerateThumb(r) ==
  /\ At(r, "source")
  /\ \/ /\ "orig" \in store
        /\ Goto(r, "put")
        /\ UNCHANGED flight
     \/ Land(req[r].kind, "idle")
     \/ /\ req[r].kind = "width"
        /\ Land("width", "open")
  /\ UNCHANGED <<image, file, store, deletions, month, events, admitted, most, taken, raced>>
  /\ UNCHANGED traffic

\* A failed Put is ignored: the thumbnail is sent from memory, but the width
\* variant is opened again and then not found.
PutThumb(r) ==
  /\ At(r, "put")
  /\ LET k == req[r].kind IN
     \/ /\ store' = store \cup {k}
        /\ raced' = IF file THEN raced ELSE raced \cup {k}
        /\ Land(k, "send")
     \/ /\ Land(k, IF k = "width" THEN "idle" ELSE "send")
        /\ UNCHANGED <<store, raced>>
  /\ UNCHANGED <<image, file, deletions, month, events, admitted, most, taken>>
  /\ UNCHANGED traffic

-----------------------------------------------------------------------------
(* Delivery and metering.                                                  *)

\* Bytes, or a redirect to them, go out and are metered; a 304, a missing
\* object or a client that hangs up costs no traffic, though its view is spent.
Send(r) ==
  /\ At(r, "send")
  /\ \/ /\ taken' = IF req[r].claims THEN taken + 1 ELSE taken
        /\ Goto(r, "meter")
     \/ /\ Finish(r)
        /\ UNCHANGED taken
  /\ UNCHANGED <<image, month, events, admitted, most>>
  /\ UNCHANGED <<traffic, objects>>

\* bandwidth.Add computes the month ...
MeterMonth(r) ==
  /\ At(r, "meter")
  /\ req' = [req EXCEPT ![r].pc = "add", ![r].month = month]
  /\ UNCHANGED <<image, month, events, admitted, most, taken>>
  /\ UNCHANGED <<traffic, objects>>

\* The traffic of a new month is added to that of the old one.
AddedNeverReset(m, n) == [used |-> owner.used + n, month |-> m]

\* ... and updates the row: the same month adds up, any other starts anew.
Added(m, n) == [used |-> IF owner.month = m THEN owner.used + n ELSE n, month |-> m]

MeterAdd(r) ==
  /\ At(r, "add")
  /\ LET n == Bytes[req[r].kind]
         m == req[r].month IN
     /\ owner' = Added(m, n)
     /\ spent' = [spent EXCEPT ![m] = @ + n]
     /\ free' = IF req[r].admin THEN free + n ELSE free
     /\ turned' = (turned \/ owner.month > m)
  /\ Finish(r)
  /\ UNCHANGED <<image, month, events, admitted, most, taken>>
  /\ UNCHANGED objects

-----------------------------------------------------------------------------
(* Crashes, the owner, the moderators, the clock and the deletion tasks.   *)

\* A crash forgets the requests and what they generate.
Crash ==
  /\ events < MaxEvents
  /\ events' = events + 1
  /\ req' = [r \in Requests |-> Idle]
  /\ flight' = [k \in Variants |-> None]
  /\ UNCHANGED <<image, month, admitted, most, taken, file, store, deletions, raced>>
  /\ UNCHANGED traffic

\* Update, as far as the gate sees it: a new limit leaves the views served.
SetLimit ==
  /\ image.st = "live"
  /\ events < MaxEvents
  /\ events' = events + 1
  /\ \E l \in Limits \ {image.limit} :
       /\ image' = [image EXCEPT !.limit = l]
       /\ most' = IF l > most THEN l ELSE most
  /\ UNCHANGED <<req, month, admitted, taken>> /\ UNCHANGED <<traffic, objects>>

\* The owner hides or locks the image or changes its expiry, moderators decide.
Obstruct ==
  /\ image.st = "live"
  /\ events < MaxEvents
  /\ events' = events + 1
  /\ \E o \in Changes :
       image' = [image EXCEPT !.obstacles = IF o \in @ THEN @ \ {o}
                   ELSE IF o \in {"pending", "rejected"} THEN (@ \ {"pending", "rejected"}) \cup {o}
                   ELSE @ \cup {o}]
  /\ UNCHANGED <<req, month, admitted, most, taken>> /\ UNCHANGED <<traffic, objects>>

Trash ==
  /\ image.st = "live"
  /\ image' = [image EXCEPT !.st = "trash"]
  /\ UNCHANGED <<req, month, events, admitted, most, taken>>
  /\ UNCHANGED <<traffic, objects>>

\* ThumbKeyCandidates without the thumbnail.
DeletedKeysOriginal == {"orig"}

\* The keys a purge deletes: width variants are not among them.
DeletedKeys == {"orig", "thumb"}

\* purgeOne: the row goes with its last image, and the deletions are enqueued.
Purge ==
  /\ image.st = "trash"
  /\ image' = [image EXCEPT !.st = "purged"]
  /\ file' = FALSE
  /\ deletions' = DeletedKeys
  /\ UNCHANGED <<req, month, events, admitted, most, taken, store, flight, raced>>
  /\ UNCHANGED traffic

DeleteFile(k) ==
  /\ k \in deletions
  /\ deletions' = deletions \ {k}
  /\ store' = store \ {k}
  /\ UNCHANGED <<image, req, month, events, admitted, most, taken, file, flight, raced>>
  /\ UNCHANGED traffic

NextMonth ==
  /\ month < Months
  /\ month' = month + 1
  /\ UNCHANGED <<image, req, events, admitted, most, taken>>
  /\ UNCHANGED <<traffic, objects>>

Serve(r) ==
  \/ Find(r) \/ CheckBandwidth(r) \/ ClaimView(r) \/ LoadFilePolicy(r)
  \/ OpenThumb(r) \/ GenerateThumb(r) \/ PutThumb(r)
  \/ Send(r) \/ MeterMonth(r) \/ MeterAdd(r)

Next ==
  \/ \E r \in Requests : Serve(r)
  \/ Crash \/ SetLimit \/ Obstruct \/ Trash \/ Purge \/ NextMonth
  \/ \E k \in Kinds : DeleteFile(k)

Spec == Init /\ [][Next]_vars

-----------------------------------------------------------------------------
(* Properties.                                                             *)

TypeOK ==
  /\ image \in ImageRecords
  /\ file \in BOOLEAN
  /\ store \subseteq Kinds
  /\ deletions \subseteq Kinds
  /\ req \in [Requests -> ReqRecords]
  /\ flight \in [Variants -> Requests \cup {None}]
  /\ owner \in [used: Nat, month: 1 .. Months]
  /\ month \in 1 .. Months
  /\ events \in 0 .. MaxEvents /\ admitted \in 0 .. MaxRequests
  /\ most \in Limits /\ taken \in Nat
  /\ spent \in [1 .. Months -> Nat]
  /\ free \in Nat /\ turned \in BOOLEAN
  /\ raced \subseteq Variants
  /\ \A k \in Variants : flight[k] # None =>
       req[flight[k]].kind = k /\ req[flight[k]].pc \in {"source", "put"}

\* Views are never oversold: however many requests passed the gate on the last
\* view, each original delivered under a limit to other than the owner claimed
\* a view of its own, and never more than the highest limit were claimed.
ViewsNeverOversold == taken <= image.served /\ image.served <= most

Largest == CHOOSE n \in {Bytes[k] : k \in Kinds} : \A k \in Kinds : Bytes[k] <= n

\* The monthly cap is soft, but the overrun is bounded: a request is admitted
\* under the quota and adds its bytes later, so the month can exceed it by no
\* more than what the requests in flight carry and what was served free of the
\* cap (Check against Add).  The month's traffic is what was metered in it, and
\* a month that has passed weighs nothing.  Both hold unless an update computed
\* before midnight was executed after one of the new month and took its traffic
\* away.
BandwidthHolds ==
  ~turned =>
    /\ Quota > 0 => \A m \in 1 .. Months : spent[m] <= Quota - 1 + Cardinality(Requests) * Largest + free
    /\ owner.used = spent[owner.month]

\* When the file is gone and its deletions have run, a thumbnail is left only
\* if a request that had opened the original before put it there afterwards.
StrayThumbsWereRaced ==
  ~file /\ "thumb" \in store => "thumb" \in deletions \cup raced

=============================================================================
