--------------------------- MODULE ServicesProofs ---------------------------
(***************************************************************************)
(* Theorems about the services that keep their state to themselves, of any *)
(* number of clients, requests, rows, objects and faults.  Each service is *)
(* the instance of its module that MCServices follows: A! the albums, F!   *)
(* the feeds, P! the delivery and the probes, D! the drivers and U! the    *)
(* upgrade.  For each, an inductive invariant is stated, shown to hold at  *)
(* the start and to be kept by every step, and to imply the properties;    *)
(* the theorems at the end join them along the part that is followed.      *)
(***************************************************************************)
EXTENDS LocalStateProofs, MCServices, Sequences, FiniteSetTheorems, WellFoundedInduction, TLAPS

\* The instances' own Cardinality is that of FiniteSets.
LEMMA SameSizes == \A set : F!Cardinality(set) = Cardinality(set) /\ D!Cardinality(set) = Cardinality(set)
BY DEF F!Cardinality, D!Cardinality, Cardinality

-----------------------------------------------------------------------------
(* Minimal elements.                                                       *)

\* A nonempty family of finite subsets of S.
Family(sets, S) == sets \in SUBSET SUBSET S /\ sets # {} /\ \A G \in sets : IsFiniteSet(G)

LEMMA MinimalSubset ==
  ASSUME NEW S, NEW sets, Family(sets, S)
  PROVE  \E G \in sets : \A B \in sets : B \subseteq G => B = G
<1>1. sets \subseteq FiniteSubsetsOf(S) /\ sets # {}
  BY DEF FiniteSubsetsOf, Family
<1>2. \E G \in sets : \A B \in sets : ~(<<B, G>> \in StrictSubsetOrdering(S))
  BY <1>1, FS_StrictSubsetOrderingWellFounded, WFMin, Zenon
<1> QED BY <1>2 DEF Family, StrictSubsetOrdering

\* The least number of a set of natural numbers.
LEMMA NatMin ==
  ASSUME NEW T \in SUBSET Nat, T # {}
  PROVE  \E x \in T : \A y \in T : x <= y
<1> DEFINE Below(m) == {k \in T : k <= m}
<1>1. PICK Fam : Fam = {Below(m) : m \in T}
  OBVIOUS
<1>2. \A G \in Fam : IsFiniteSet(G)
  BY <1>1, FS_BoundedSetOfNaturals
<1>3. Family(Fam, Nat)
  BY <1>1, <1>2 DEF Family
<1>4. \E G \in Fam : \A B \in Fam : B \subseteq G => B = G
  BY <1>3, MinimalSubset
<1> HIDE DEF Below
<1>5. PICK x \in T : \A y \in T : Below(y) \subseteq Below(x) => Below(y) = Below(x)
  BY <1>1, <1>4
<1>6. ASSUME NEW y \in T PROVE x <= y
  <2> SUFFICES ASSUME y < x PROVE FALSE
    BY x \in Nat, y \in Nat
  <2>1. Below(y) \subseteq Below(x)
    <3>1. \A k \in T : k <= y => k <= x
      BY T \subseteq Nat, x \in Nat, y \in Nat
    <3> QED BY <3>1 DEF Below
  <2>2. Below(y) = Below(x)
    BY <1>5, <2>1
  <2>3. x \in Below(x) /\ x \notin Below(y)
    BY x \in Nat, y \in Nat DEF Below
  <2> QED BY <2>2, <2>3
<1> QED BY <1>6

-----------------------------------------------------------------------------
(* Albums.                                                                 *)

\* An image is in an album that is there.
Housed == \A i \in A!Images : image[i].album # 0 => album[image[i].album].vis # "none"

\* What a request holds: only a sweep has images to its name, and what is about
\* to be made public was read where that was no private album.
Asked(q) ==
  /\ q.pc \notin {"sweep", "write"} => q.left = {}
  /\ q.pc \in {"private", "list", "cover"} => q.a \in A!AlbumIds
  /\ q.pc = "upload" => q.i \in A!Images /\ (q.vis = "private" \/ q.seenVis # "private")
  /\ q.pc = "write" => /\ q.i \in A!Images
                       /\ q.patch.vis = "private" \/ q.seenVis # "private"
                       /\ q.patch.vis = "keep" => q.patch.album # -1

\* Request q will make image i private, whose row is m.  A write on its way does
\* so if it is a plain one or its compare-and-set finds what was read.
Sweeps(q, m, i) ==
  /\ q.vis = "private"
  /\ \/ q.pc = "list" /\ q.a = m.album
     \/ i \in q.left
     \/ /\ q.pc = "write" /\ q.i = i /\ q.patch.vis = "private"
        /\ q.seen.surface = "private" \/ m.surface = "public"
Swept(i) == \E r \in Requests : Sweeps(req[r], image[i], i)

Guarded == \A i \in A!Images : A!Exposed(i) => i \in excused \/ Swept(i)

\* A visitor nobody disturbs has seen what his cursor has passed.
Shown(a) == {i \in A!Images : A!Showable(i, a)}
Walked ==
  /\ walk.pc # "idle" => walk.a \in A!AlbumIds
  /\ walk.pc # "idle" /\ ~walk.disturbed =>
       /\ A!AlbumVis(walk.a) = "public"
       /\ ~walk.twice
       /\ walk.seen = {i \in Shown(walk.a) : ~A!Beyond(walk.pos, walk.id, i)}
       /\ walk.pc # "cover" => IF Shown(walk.a) = {} THEN walk.cover = 0 ELSE walk.cover \in Shown(walk.a)
       /\ walk.pc = "done" => walk.seen = Shown(walk.a)

AlbumsInv == A!TypeOK /\ Housed /\ (\A r \in Requests : Asked(req[r])) /\ Guarded /\ Walked

-----------------------------------------------------------------------------
LEMMA AlbumValues ==
  /\ A!NoImage \in A!ImageRecords /\ A!NoImage.album = 0 /\ A!NoImage.st = "none"
  /\ A!NoPatch \in A!AlbumPatches
  /\ A!NoRequest \in A!RequestRecords /\ Asked(A!NoRequest) /\ A!NoRequest.left = {} /\ A!NoRequest.pc = "idle"
  /\ A!NoWalk \in A!WalkRecords /\ A!NoWalk.pc = "idle"
<1>1. A!NoImage \in A!ImageRecords /\ A!NoImage.album = 0 /\ A!NoImage.st = "none"
  BY AlbumsAssumption DEF A!NoImage, A!ImageRecords, A!Visibilities, AlbumsAssumption
<1>2. A!NoPatch \in A!AlbumPatches
  BY DEF A!NoPatch, A!AlbumPatches
<1>3. A!NoRequest \in A!RequestRecords /\ A!NoRequest.left = {} /\ A!NoRequest.pc = "idle"
  BY <1>1, <1>2, AlbumsAssumption DEF A!NoRequest, A!RequestRecords, A!Visibilities, AlbumsAssumption
<1>4. Asked(A!NoRequest)
  BY <1>3 DEF Asked
<1>5. A!NoWalk \in A!WalkRecords /\ A!NoWalk.pc = "idle"
  BY AlbumsAssumption DEF A!NoWalk, A!WalkRecords, AlbumsAssumption
<1> QED BY <1>1, <1>2, <1>3, <1>4, <1>5

LEMMA AlbumsInit == A!Init => AlbumsInv
<1> SUFFICES ASSUME A!Init PROVE AlbumsInv
  OBVIOUS
<1>1. PICK a \in A!AlbumIds, v \in A!Visibilities, there \in SUBSET {1} :
        /\ there # {} => album[a].vis = v
        /\ image = [i \in A!Images |-> IF i \in there THEN [A!NoImage EXCEPT !.st = "live", !.vis = v, !.surface = v, !.album = a]
                                     ELSE A!NoImage]
  BY DEF A!Init
<1>2. PICK m : m = [A!NoImage EXCEPT !.st = "live", !.vis = v, !.surface = v, !.album = a]
  OBVIOUS
<1>3. m \in A!ImageRecords /\ m.album = a /\ m.vis = v
  <2>1. a \in 0 .. NumAlbums /\ "live" \in {"none", "live", "trash"}
    BY DEF A!AlbumIds
  <2> QED BY <1>2, <2>1, AlbumValues DEF A!ImageRecords
<1>4. /\ \A i \in A!Images : IF i \in there THEN image[i] = m ELSE image[i] = A!NoImage
      /\ image \in [A!Images -> A!ImageRecords]
  <2>1. image = [i \in A!Images |-> IF i \in there THEN m ELSE A!NoImage]
    BY <1>1, <1>2
  <2> QED BY <1>3, <2>1, AlbumValues
<1>5. album \in [A!AlbumIds -> A!AlbumRecords]
  BY AlbumsAssumption DEF A!Init, A!AlbumRecords, AlbumsAssumption
<1>6. /\ req \in [Requests -> A!RequestRecords] /\ \A r \in Requests : req[r] = A!NoRequest
      /\ walk \in A!WalkRecords /\ walk.pc = "idle"
      /\ requests \in 0 .. MaxRequests /\ errors \in 0 .. MaxErrors /\ excused = {}
  BY AlbumValues, AlbumsAssumption DEF A!Init, AlbumsAssumption
<1>7. A!TypeOK
  BY <1>4, <1>5, <1>6 DEF A!TypeOK
<1>8. Housed
  BY <1>1, <1>3, <1>4, AlbumValues DEF Housed, A!Visibilities
<1>9. Guarded
  <2>1. ASSUME NEW i \in A!Images, A!Exposed(i) PROVE FALSE
    BY <1>1, <1>3, <1>4, <2>1, AlbumValues DEF A!Exposed, A!AlbumVis, A!Visibilities
  <2> QED BY <2>1 DEF Guarded
<1> QED BY <1>6, <1>7, <1>8, <1>9, AlbumValues DEF AlbumsInv, Walked

-----------------------------------------------------------------------------
(* What the steps have in common.                                          *)

\* One request changes.
LEMMA RequestIs ==
  ASSUME AlbumsInv, NEW r \in Requests, NEW q \in A!RequestRecords, req' = [req EXCEPT ![r] = q]
  PROVE  /\ req' \in [Requests -> A!RequestRecords] /\ req'[r] = q
         /\ \A o \in Requests : o # r => req'[o] = req[o]
         /\ Asked(q) => \A o \in Requests : Asked(req'[o])
BY DEF AlbumsInv, A!TypeOK

\* It ends.
LEMMA EndsIs ==
  ASSUME AlbumsInv, NEW r \in Requests, A!Ends(r)
  PROVE  /\ req' \in [Requests -> A!RequestRecords]
         /\ \A o \in Requests : o # r => req'[o] = req[o]
         /\ \A o \in Requests : Asked(req'[o])
BY AlbumValues, RequestIs DEF A!Ends

\* A step that only moves one request on, which gives up no image.
LEMMA QuietKeeps ==
  ASSUME AlbumsInv, NEW r \in Requests, NEW q \in A!RequestRecords, Asked(q), req' = [req EXCEPT ![r] = q],
         A!Quiet, requests' \in 0 .. MaxRequests,
         \A i \in A!Images : A!Exposed(i) /\ Sweeps(req[r], image[i], i) => Sweeps(q, image[i], i)
  PROVE  AlbumsInv'
<1> USE RequestIs
<1>1. UNCHANGED <<album, image, walk, errors, excused>>
  BY DEF A!Quiet
<1>2. A!TypeOK'
  BY <1>1 DEF AlbumsInv, A!TypeOK
<1>3. Housed'
  BY <1>1 DEF AlbumsInv, Housed
<1>4. Guarded'
  <2>1. ASSUME NEW i \in A!Images, A!Exposed(i)' PROVE i \in excused' \/ Swept(i)'
    <3>1. A!Exposed(i)
      BY <1>1, <2>1 DEF A!Exposed, A!AlbumVis
    <3>2. CASE i \in excused
      BY <1>1, <3>2
    <3>3. ASSUME NEW o \in Requests, Sweeps(req[o], image[i], i) PROVE Sweeps(req'[o], image'[i], i)
      BY <1>1, <3>1, <3>3
    <3> QED BY <3>1, <3>2, <3>3 DEF AlbumsInv, Guarded, Swept
  <2> QED BY <2>1 DEF Guarded
<1>5. Walked'
  BY <1>1 DEF AlbumsInv, Walked, Shown, A!AlbumVis, A!Showable, A!In, A!Beyond
<1> QED BY <1>2, <1>3, <1>4, <1>5 DEF AlbumsInv

\* A request begins.
LEMMA BeginKeeps ==
  ASSUME AlbumsInv, NEW r \in Requests, NEW q \in A!RequestRecords, Asked(q), A!Free(r), req' = [req EXCEPT ![r] = q], A!Quiet
  PROVE  AlbumsInv'
<1>1. requests' \in 0 .. MaxRequests
  BY AlbumsAssumption DEF A!Free, AlbumsInv, A!TypeOK, AlbumsAssumption
<1>2. req[r].pc = "idle" /\ req[r].left = {}
  BY DEF A!Free, AlbumsInv, Asked
<1>3. \A i \in A!Images : ~Sweeps(req[r], image[i], i)
  BY <1>2 DEF Sweeps
<1> QED BY <1>1, <1>3, QuietKeeps

\* What a write does to the walk.
LEMMA NotedIs ==
  ASSUME AlbumsInv, NEW new, A!Noted(new)
  PROVE  /\ walk' \in A!WalkRecords /\ walk'.pc = walk.pc /\ walk'.a = walk.a
         /\ walk'.pc # "idle" /\ ~walk'.disturbed => walk' = walk /\ UNCHANGED <<album, image>>
<1> walk \in A!WalkRecords
  BY DEF AlbumsInv, A!TypeOK
<1>1. PICK d \in BOOLEAN : d = (walk.disturbed \/ (walk.pc # "idle" /\ <<album, image>>' # <<album, image>>))
  OBVIOUS
<1>2. walk' = [walk EXCEPT !.disturbed = d]
  BY <1>1 DEF A!Noted
<1>3. walk' \in A!WalkRecords /\ walk'.pc = walk.pc /\ walk'.a = walk.a /\ walk'.disturbed = d
  BY <1>2 DEF A!WalkRecords
<1>4. ASSUME walk'.pc # "idle", ~walk'.disturbed PROVE walk' = walk /\ UNCHANGED <<album, image>>
  <2>1. d = FALSE /\ walk.pc # "idle"
    BY <1>3, <1>4
  <2>2. ~walk.disturbed /\ <<album, image>>' = <<album, image>>
    BY <1>1, <2>1
  <2>3. walk.disturbed = d
    BY <2>1, <2>2 DEF A!WalkRecords
  <2> QED BY <1>2, <2>2, <2>3 DEF A!WalkRecords
<1> QED BY <1>3, <1>4

\* Any write.
LEMMA WriteKeeps ==
  ASSUME AlbumsInv, NEW new, A!Noted(new),
         album' \in [A!AlbumIds -> A!AlbumRecords], image' \in [A!Images -> A!ImageRecords],
         req' \in [Requests -> A!RequestRecords], \A r \in Requests : Asked(req'[r]),
         requests' \in 0 .. MaxRequests, errors' \in 0 .. MaxErrors, Housed',
         \A i \in A!Images : A!Exposed(i)' => i \in excused \/ i \in new \/ Swept(i)'
  PROVE  AlbumsInv'
<1>1. A!TypeOK'
  BY NotedIs DEF A!TypeOK, A!Noted
<1>2. Guarded'
  BY DEF A!Noted, Guarded
<1>3. Walked'
  <2>1. walk'.pc # "idle" => walk'.a \in A!AlbumIds
    BY NotedIs DEF AlbumsInv, Walked
  <2>2. CASE walk'.pc # "idle" /\ ~walk'.disturbed
    <3>1. walk' = walk /\ UNCHANGED <<album, image>>
      BY <2>2, NotedIs
    <3> QED BY <3>1 DEF AlbumsInv, Walked, Shown, A!AlbumVis, A!Showable, A!In, A!Beyond
  <2> QED BY <2>1, <2>2 DEF Walked
<1> QED BY <1>1, <1>2, <1>3 DEF AlbumsInv

\* Images that are exposed as before, and requests that sweep as before.
LEMMA StillGuarded ==
  ASSUME AlbumsInv, NEW i \in A!Images, A!Exposed(i), NEW new,
         \A r \in Requests : Sweeps(req[r], image[i], i) => Sweeps(req'[r], image'[i], i) \/ i \in new
  PROVE  i \in excused \/ i \in new \/ Swept(i)'
BY DEF AlbumsInv, Guarded, Swept

-----------------------------------------------------------------------------
(* Albums: one step each.                                                  *)

LEMMA AlbumTypes ==
  AlbumsInv => /\ album \in [A!AlbumIds -> A!AlbumRecords] /\ image \in [A!Images -> A!ImageRecords]
               /\ req \in [Requests -> A!RequestRecords] /\ walk \in A!WalkRecords
               /\ requests \in 0 .. MaxRequests /\ errors \in 0 .. MaxErrors
               /\ \A r \in Requests : Asked(req[r])
               /\ \A i \in A!Images : image[i].album = 0 \/ image[i].album \in A!AlbumIds
               /\ NumImages \in Nat /\ NumAlbums \in Nat /\ MaxRequests \in Nat /\ MaxErrors \in Nat
BY AlbumsAssumption DEF AlbumsInv, A!TypeOK, A!AlbumIds, A!ImageRecords, AlbumsAssumption

LEMMA CreateAlbumKeeps ==
  ASSUME AlbumsInv, NEW a \in A!AlbumIds, NEW v \in A!Visibilities, A!CreateAlbum(a, v)
  PROVE  AlbumsInv'
<1> USE AlbumTypes
<1>1. /\ album[a].vis = "none" /\ requests' = requests + 1 /\ requests < MaxRequests
      /\ UNCHANGED <<image, req, errors>> /\ A!Noted({})
  BY DEF A!CreateAlbum
<1>2. PICK n : n = [vis |-> v, cover |-> 0]
  OBVIOUS
<1>3. n \in A!AlbumRecords /\ n.vis = v
  BY <1>2 DEF A!AlbumRecords
<1>4. album' = [album EXCEPT ![a] = n]
  BY <1>2 DEF A!CreateAlbum
<1>5. album' \in [A!AlbumIds -> A!AlbumRecords] /\ album'[a].vis = v /\ \A b \in A!AlbumIds : b # a => album'[b] = album[b]
  BY <1>3, <1>4
<1>6. \A i \in A!Images : image[i].album # a
  BY <1>1 DEF AlbumsInv, Housed, A!AlbumIds
<1>7. Housed'
  BY <1>1, <1>5, <1>6 DEF AlbumsInv, Housed
<1>8. ASSUME NEW i \in A!Images, A!Exposed(i)' PROVE i \in excused \/ i \in {} \/ Swept(i)'
  <2>1. A!Exposed(i)
    BY <1>1, <1>5, <1>6, <1>8 DEF A!Exposed, A!AlbumVis
  <2> QED BY <1>1, <2>1, StillGuarded
<1>9. requests' \in 0 .. MaxRequests
  BY <1>1
<1> QED BY <1>1, <1>5, <1>7, <1>8, <1>9, WriteKeeps

LEMMA DeleteAlbumKeeps ==
  ASSUME AlbumsInv, NEW a \in A!AlbumIds, NEW withImages \in BOOLEAN, A!DeleteAlbum(a, withImages)
  PROVE  AlbumsInv'
<1> USE AlbumTypes
<1>1. /\ requests' = requests + 1 /\ requests < MaxRequests /\ UNCHANGED <<req, errors>> /\ A!Noted({})
  BY DEF A!DeleteAlbum
<1>2. PICK n : n = [vis |-> "none", cover |-> 0]
  OBVIOUS
<1>3. n \in A!AlbumRecords
  BY <1>2 DEF A!AlbumRecords
<1>4. album' = [album EXCEPT ![a] = n]
  BY <1>2 DEF A!DeleteAlbum
<1>5. album' \in [A!AlbumIds -> A!AlbumRecords] /\ \A b \in A!AlbumIds : b # a => album'[b] = album[b]
  BY <1>3, <1>4
<1>6. ASSUME NEW i \in A!Images
      PROVE  image'[i] \in A!ImageRecords /\ (image'[i].album # 0 => image[i].album # a /\ image'[i] = image[i])
  <2>1. CASE image[i].album # a
    BY <2>1 DEF A!DeleteAlbum
  <2>2. CASE image[i].album = a
    <3>1. image'[i] = [image[i] EXCEPT !.st = IF withImages /\ @ = "live" THEN "trash" ELSE @, !.album = 0]
      BY <2>2 DEF A!DeleteAlbum
    <3>2. PICK s : s = IF withImages /\ image[i].st = "live" THEN "trash" ELSE image[i].st
      OBVIOUS
    <3>3. image'[i] = [image[i] EXCEPT !.st = s, !.album = 0]
      BY <3>1, <3>2
    <3>4. s \in {"none", "live", "trash"} /\ 0 \in 0 .. NumAlbums /\ image[i] \in A!ImageRecords
      BY <3>2 DEF A!ImageRecords
    <3> QED BY <3>3, <3>4 DEF A!ImageRecords
  <2> QED BY <2>1, <2>2
<1>7. image' \in [A!Images -> A!ImageRecords]
  BY <1>6 DEF A!DeleteAlbum
<1>8. Housed'
  BY <1>5, <1>6 DEF AlbumsInv, Housed
<1>9. ASSUME NEW i \in A!Images, A!Exposed(i)' PROVE i \in excused \/ i \in {} \/ Swept(i)'
  <2>1. image'[i].album # 0
    BY <1>9 DEF A!Exposed, A!AlbumVis
  <2>2. image'[i] = image[i] /\ image[i].album # a
    BY <1>6, <2>1
  <2>3. A!Exposed(i)
    BY <1>5, <1>9, <2>1, <2>2 DEF A!Exposed, A!AlbumVis
  <2> QED BY <1>1, <2>2, <2>3, StillGuarded
<1>10. requests' \in 0 .. MaxRequests
  BY <1>1
<1> QED BY <1>1, <1>5, <1>7, <1>8, <1>9, <1>10, WriteKeeps

\* An album that turns private is about to be listed.
LEMMA WriteVisibilityKeeps ==
  ASSUME AlbumsInv, NEW r \in Requests, A!WriteVisibility(r)
  PROVE  AlbumsInv'
<1> USE AlbumTypes
<1>1. PICK a : a = req[r].a
  OBVIOUS
<1>2. PICK v : v = req[r].vis
  OBVIOUS
<1>3. /\ req[r].pc = "private" /\ a \in A!AlbumIds /\ v \in A!Visibilities /\ req[r].left = {} /\ req[r] \in A!RequestRecords
      /\ UNCHANGED <<image, requests, errors>> /\ A!Noted({})
  BY <1>1, <1>2 DEF A!WriteVisibility, Asked, A!RequestRecords
<1>4. CASE album[a].vis = "none"
  <2>1. UNCHANGED album /\ A!Ends(r)
    BY <1>1, <1>2, <1>4 DEF A!WriteVisibility
  <2>2. Housed'
    BY <1>3, <2>1 DEF AlbumsInv, Housed
  <2>3. ASSUME NEW i \in A!Images, A!Exposed(i)' PROVE i \in excused \/ i \in {} \/ Swept(i)'
    <3>1. A!Exposed(i) /\ image'[i] = image[i]
      BY <1>3, <2>1, <2>3 DEF A!Exposed, A!AlbumVis
    <3>2. ~Sweeps(req[r], image[i], i)
      BY <1>3 DEF Sweeps
    <3> QED BY <2>1, <3>1, <3>2, EndsIs, StillGuarded
  <2> QED BY <1>3, <2>1, <2>2, <2>3, EndsIs, WriteKeeps
<1>5. CASE album[a].vis # "none"
  <2>1. PICK n : n = [album[a] EXCEPT !.vis = v]
    OBVIOUS
  <2>2. album[a] \in A!AlbumRecords
    BY <1>3
  <2>3. n \in A!AlbumRecords /\ n.vis = v
    BY <1>3, <2>1, <2>2 DEF A!AlbumRecords
  <2>4. album' = [album EXCEPT ![a] = n]
    BY <1>1, <1>2, <1>5, <2>1 DEF A!WriteVisibility
  <2>5. album' \in [A!AlbumIds -> A!AlbumRecords] /\ album'[a].vis = v /\ \A b \in A!AlbumIds : b # a => album'[b] = album[b]
    BY <1>3, <2>3, <2>4
  <2>6. Housed'
    BY <1>3, <1>5, <2>5 DEF AlbumsInv, Housed, A!Visibilities
  <2>7. /\ req' \in [Requests -> A!RequestRecords] /\ \A o \in Requests : o # r => req'[o] = req[o]
        /\ \A o \in Requests : Asked(req'[o])
        /\ v = "private" => req'[r].pc = "list" /\ req'[r].a = a /\ req'[r].vis = "private"
    <3>1. CASE v = "private"
      <4>1. PICK q : q = [req[r] EXCEPT !.pc = "list"]
        OBVIOUS
      <4>2. q \in A!RequestRecords /\ q.pc = "list" /\ q.a = a /\ q.vis = v /\ q.left = {}
        BY <1>1, <1>2, <1>3, <4>1 DEF A!RequestRecords
      <4>3. Asked(q)
        BY <1>3, <4>2 DEF Asked
      <4>4. req' = [req EXCEPT ![r] = q]
        BY <1>1, <1>2, <1>5, <3>1, <4>1 DEF A!WriteVisibility
      <4> QED BY <3>1, <4>2, <4>3, <4>4, RequestIs
    <3>2. CASE v # "private"
      <4>1. A!Ends(r)
        BY <1>2, <3>2 DEF A!WriteVisibility
      <4> QED BY <3>2, <4>1, EndsIs
    <3> QED BY <3>1, <3>2
  <2>8. ASSUME NEW i \in A!Images, A!Exposed(i)' PROVE i \in excused \/ i \in {} \/ Swept(i)'
    <3>1. image'[i] = image[i]
      BY <1>3
    <3>2. CASE image[i].album = a
      <4>1. v = "private"
        BY <1>3, <2>5, <2>8, <3>1, <3>2 DEF A!Exposed, A!AlbumVis, A!AlbumIds
      <4>2. Sweeps(req'[r], image'[i], i)
        BY <2>7, <3>1, <3>2, <4>1 DEF Sweeps
      <4> QED BY <4>2 DEF Swept
    <3>3. CASE image[i].album # a
      <4>1. A!Exposed(i)
        BY <2>5, <2>8, <3>1, <3>3 DEF A!Exposed, A!AlbumVis
      <4>2. ~Sweeps(req[r], image[i], i)
        BY <1>3 DEF Sweeps
      <4> QED BY <2>7, <3>1, <4>1, <4>2, StillGuarded
    <3> QED BY <3>2, <3>3
  <2> QED BY <1>3, <2>5, <2>6, <2>7, <2>8, WriteKeeps
<1> QED BY <1>4, <1>5

LEMMA WriteCoverKeeps ==
  ASSUME AlbumsInv, NEW r \in Requests, A!WriteCover(r)
  PROVE  AlbumsInv'
<1> USE AlbumTypes
<1>1. /\ req[r].pc = "cover" /\ req[r].a \in A!AlbumIds /\ req[r].left = {} /\ A!Ends(r)
      /\ UNCHANGED <<image, requests, errors>> /\ A!Noted({}) /\ req[r].i \in 0 .. NumImages
  BY DEF A!WriteCover, Asked, A!RequestRecords
<1>2. album' \in [A!AlbumIds -> A!AlbumRecords] /\ \A b \in A!AlbumIds : album'[b].vis = album[b].vis
  <2>1. PICK n : n = [album[req[r].a] EXCEPT !.cover = req[r].i]
    OBVIOUS
  <2>2. album[req[r].a] \in A!AlbumRecords
    BY <1>1
  <2>3. n \in A!AlbumRecords /\ n.vis = album[req[r].a].vis
    BY <1>1, <2>1, <2>2 DEF A!AlbumRecords
  <2>4. album' = album \/ album' = [album EXCEPT ![req[r].a] = n]
    BY <2>1 DEF A!WriteCover
  <2> QED BY <1>1, <2>3, <2>4
<1>3. Housed'
  BY <1>1, <1>2 DEF AlbumsInv, Housed
<1>4. ASSUME NEW i \in A!Images, A!Exposed(i)' PROVE i \in excused \/ i \in {} \/ Swept(i)'
  <2>1. A!Exposed(i) /\ image'[i] = image[i]
    BY <1>1, <1>2, <1>4 DEF A!Exposed, A!AlbumVis
  <2>2. ~Sweeps(req[r], image[i], i)
    BY <1>1 DEF Sweeps
  <2> QED BY <1>1, <2>1, <2>2, EndsIs, StillGuarded
<1> QED BY <1>1, <1>2, <1>3, <1>4, EndsIs, WriteKeeps

LEMMA ReorderKeeps ==
  ASSUME AlbumsInv, NEW a \in A!AlbumIds, NEW order \in A!Orders, A!Reorder(a, order)
  PROVE  AlbumsInv'
<1> USE AlbumTypes
<1>1. /\ requests' = requests + 1 /\ requests < MaxRequests /\ UNCHANGED <<album, req, errors>> /\ A!Noted({})
  BY DEF A!Reorder
<1>2. PICK n \in A!Images : order \in [1 .. n -> A!Images]
  BY DEF A!Orders
<1>3. DOMAIN order = 1 .. n /\ 1 .. n \subseteq 0 .. NumImages
  BY <1>2 DEF A!Images
<1>4. ASSUME NEW i \in A!Images
      PROVE  /\ image'[i] \in A!ImageRecords /\ image'[i].st = image[i].st /\ image'[i].vis = image[i].vis
             /\ image'[i].album = image[i].album /\ image'[i].surface = image[i].surface
  <2>1. CASE i \notin A!Range(order)
    BY <2>1 DEF A!Reorder
  <2>2. CASE i \in A!Range(order)
    <3>1. PICK p : p = CHOOSE m \in DOMAIN order : order[m] = i
      OBVIOUS
    <3>2. p \in DOMAIN order
      BY <2>2, <3>1 DEF A!Range
    <3>3. image'[i] = [image[i] EXCEPT !.pos = p]
      BY <2>2, <3>1 DEF A!Reorder
    <3>4. p \in 0 .. NumImages /\ image[i] \in A!ImageRecords
      BY <1>3, <3>2
    <3> HIDE DEF A!Images
    <3> QED BY <3>3, <3>4 DEF A!ImageRecords
  <2> QED BY <2>1, <2>2
<1>5. image' \in [A!Images -> A!ImageRecords]
  BY <1>4 DEF A!Reorder
<1>6. Housed'
  BY <1>1, <1>4 DEF AlbumsInv, Housed
<1>7. ASSUME NEW i \in A!Images, A!Exposed(i)' PROVE i \in excused \/ i \in {} \/ Swept(i)'
  <2>1. A!Exposed(i)
    BY <1>1, <1>4, <1>7 DEF A!Exposed, A!AlbumVis
  <2>2. \A r \in Requests : Sweeps(req[r], image[i], i) => Sweeps(req'[r], image'[i], i)
    BY <1>1, <1>4 DEF Sweeps
  <2> QED BY <2>1, <2>2, StillGuarded
<1>8. requests' \in 0 .. MaxRequests
  BY <1>1
<1> QED BY <1>1, <1>5, <1>6, <1>7, <1>8, WriteKeeps

LEMMA ListImagesKeeps ==
  ASSUME AlbumsInv, NEW r \in Requests, A!ListImages(r)
  PROVE  AlbumsInv'
<1> USE AlbumTypes
<1>1. PICK left : left = {i \in A!Images : A!In(i, req[r].a)}
  OBVIOUS
<1>2. /\ req[r].pc = "list" /\ req[r].left = {} /\ A!Quiet /\ requests' \in 0 .. MaxRequests
      /\ req[r] \in A!RequestRecords
  BY DEF A!ListImages, Asked
<1>3. \A i \in A!Images : A!Exposed(i) /\ Sweeps(req[r], image[i], i) => i \in left /\ req[r].vis = "private"
  BY <1>1, <1>2 DEF A!Exposed, Sweeps, A!In
<1>4. CASE left = {}
  <2>1. req' = [req EXCEPT ![r] = A!NoRequest]
    BY <1>1, <1>4 DEF A!ListImages, A!Ends
  <2> QED BY <1>2, <1>3, <1>4, <2>1, AlbumValues, QuietKeeps
<1>5. CASE left # {}
  <2>1. PICK q : q = [req[r] EXCEPT !.pc = "sweep", !.left = left]
    OBVIOUS
  <2>2. q \in A!RequestRecords /\ q.pc = "sweep" /\ q.left = left /\ q.vis = req[r].vis
    BY <1>1, <1>2, <2>1 DEF A!RequestRecords
  <2>3. req' = [req EXCEPT ![r] = q]
    BY <1>1, <1>5, <2>1 DEF A!ListImages
  <2>4. Asked(q)
    BY <2>2 DEF Asked
  <2>5. \A i \in A!Images : A!Exposed(i) /\ Sweeps(req[r], image[i], i) => Sweeps(q, image[i], i)
    BY <1>3, <2>2 DEF Sweeps
  <2> QED BY <1>2, <2>2, <2>3, <2>4, <2>5, QuietKeeps
<1> QED BY <1>4, <1>5

LEMMA BeginsKeep ==
  ASSUME AlbumsInv, NEW r \in Requests,
         \/ \E a \in A!AlbumIds, v \in A!Visibilities : A!BeginVisibility(r, a, v) \/ A!BeginSwitchAll(r, a, v)
         \/ \E a \in A!AlbumIds, i \in A!Images : A!BeginCover(r, a, i)
         \/ \E i \in A!Images, a \in 0 .. NumAlbums, v \in A!Visibilities : A!BeginUpload(r, i, a, v)
  PROVE  AlbumsInv'
<1> USE AlbumTypes
<1>4. /\ \A a \in A!AlbumIds : a \in 0 .. NumAlbums
      /\ \A i \in A!Images : i \in 0 .. NumImages
  BY DEF A!AlbumIds, A!Images
<1>1. ASSUME NEW a \in A!AlbumIds, NEW v \in A!Visibilities, NEW pc \in {"private", "list"}, A!Free(r), A!Quiet,
             req' = [req EXCEPT ![r] = [A!NoRequest EXCEPT !.pc = pc, !.a = a, !.vis = v]]
      PROVE  AlbumsInv'
  <2>1. PICK q : q = [A!NoRequest EXCEPT !.pc = pc, !.a = a, !.vis = v]
    OBVIOUS
  <2>2. q \in A!RequestRecords /\ q.pc = pc /\ q.a = a /\ q.left = {}
    BY <1>4, <2>1, AlbumValues DEF A!RequestRecords
  <2>3. Asked(q)
    BY <2>2 DEF Asked
  <2> QED BY <1>1, <2>1, <2>2, <2>3, BeginKeeps
<1>2. ASSUME NEW a \in A!AlbumIds, NEW i \in A!Images, A!BeginCover(r, a, i) PROVE AlbumsInv'
  <2>1. PICK q : q = [A!NoRequest EXCEPT !.pc = "cover", !.a = a, !.i = i]
    OBVIOUS
  <2>2. q \in A!RequestRecords /\ q.pc = "cover" /\ q.a = a /\ q.left = {}
    BY <1>4, <2>1, AlbumValues DEF A!RequestRecords
  <2>3. Asked(q)
    BY <2>2 DEF Asked
  <2>4. A!Free(r) /\ A!Quiet /\ req' = [req EXCEPT ![r] = q]
    BY <1>2, <2>1 DEF A!BeginCover
  <2> QED BY <2>2, <2>3, <2>4, BeginKeeps
<1>3. ASSUME NEW i \in A!Images, NEW a \in 0 .. NumAlbums, NEW v \in A!Visibilities, A!BeginUpload(r, i, a, v) PROVE AlbumsInv'
  <2>1. PICK w : w = A!Forced(a, v)
    OBVIOUS
  <2>2. PICK s : s = A!AlbumVis(a)
    OBVIOUS
  <2>3. s \in {"none"} \cup A!Visibilities
    BY <2>2 DEF A!AlbumVis, A!AlbumIds, A!AlbumRecords, A!Visibilities
  <2>4. w \in A!Visibilities /\ (w = "private" \/ s # "private")
    BY <2>1, <2>2 DEF A!Forced, A!Visibilities
  <2>5. PICK q : q = [A!NoRequest EXCEPT !.pc = "upload", !.i = i, !.a = a, !.vis = w, !.seenVis = s]
    OBVIOUS
  <2>6. q \in A!RequestRecords /\ q.pc = "upload" /\ q.i = i /\ q.vis = w /\ q.seenVis = s /\ q.left = {}
    BY <1>4, <2>3, <2>4, <2>5, AlbumValues DEF A!RequestRecords
  <2>7. Asked(q)
    BY <2>4, <2>6 DEF Asked
  <2>8. A!Free(r) /\ A!Quiet /\ req' = [req EXCEPT ![r] = q]
    BY <1>3, <2>1, <2>2, <2>5 DEF A!BeginUpload
  <2> QED BY <2>6, <2>7, <2>8, BeginKeeps
<1> QED BY <1>1, <1>2, <1>3 DEF A!BeginVisibility, A!BeginSwitchAll

-----------------------------------------------------------------------------
(* Albums: the images.                                                     *)

LEMMA AlbumVisIs ==
  ASSUME AlbumsInv, NEW a \in 0 .. NumAlbums
  PROVE  A!AlbumVis(a) \in {"none"} \cup A!Visibilities
BY AlbumTypes DEF A!AlbumVis, A!AlbumIds, A!AlbumRecords

LEMMA CommitUploadKeeps ==
  ASSUME AlbumsInv, NEW r \in Requests, A!CommitUpload(r)
  PROVE  AlbumsInv'
<1> USE AlbumTypes
<1>1. PICK i : i = req[r].i
  OBVIOUS
<1>2. PICK a : a = req[r].a
  OBVIOUS
<1>3. PICK b : b = IF A!AlbumVis(a) = "none" THEN 0 ELSE a
  OBVIOUS
<1>4. /\ req[r].pc = "upload" /\ i \in A!Images /\ a \in 0 .. NumAlbums /\ req[r].vis \in A!Visibilities
      /\ req[r].vis = "private" \/ req[r].seenVis # "private"
      /\ A!Ends(r) /\ UNCHANGED <<album, requests, errors>> /\ req[r].left = {}
      /\ A!Noted(IF A!AlbumVis(a) # req[r].seenVis THEN {i} ELSE {})
  BY <1>1, <1>2 DEF A!CommitUpload, Asked, A!RequestRecords
<1>5. PICK n : n = [A!NoImage EXCEPT !.st = "live", !.vis = req[r].vis, !.surface = req[r].vis, !.album = b]
  OBVIOUS
<1>6. b \in 0 .. NumAlbums /\ (b # 0 => album[b].vis # "none" /\ b = a)
  BY <1>3, <1>4 DEF A!AlbumVis
<1>7. n \in A!ImageRecords /\ n.vis = req[r].vis /\ n.album = b
  BY <1>4, <1>5, <1>6, AlbumValues DEF A!ImageRecords
<1>8. image' = [image EXCEPT ![i] = n]
  BY <1>1, <1>2, <1>3, <1>5 DEF A!CommitUpload
<1>9. image' \in [A!Images -> A!ImageRecords] /\ image'[i] = n /\ \A j \in A!Images : j # i => image'[j] = image[j]
  BY <1>4, <1>7, <1>8
<1>10. Housed'
  BY <1>4, <1>6, <1>7, <1>9 DEF AlbumsInv, Housed
<1> DEFINE new == IF A!AlbumVis(a) # req[r].seenVis THEN {i} ELSE {}
<1>11. ASSUME NEW j \in A!Images, A!Exposed(j)' PROVE j \in excused \/ j \in new \/ Swept(j)'
  <2>1. CASE j = i
    <3>1. n.vis = "public" /\ b # 0 /\ A!AlbumVis(b) = "private"
      BY <1>4, <1>7, <1>9, <1>11, <2>1 DEF A!Exposed, A!AlbumVis
    <3>2. req[r].seenVis # "private" /\ b = a
      BY <1>4, <1>6, <1>7, <3>1
    <3> QED BY <2>1, <3>1, <3>2
  <2>2. CASE j # i
    <3>1. A!Exposed(j) /\ image'[j] = image[j]
      BY <1>4, <1>9, <1>11, <2>2 DEF A!Exposed, A!AlbumVis
    <3>2. ~Sweeps(req[r], image[j], j)
      BY <1>4 DEF Sweeps
    <3> QED BY <1>4, <3>1, <3>2, EndsIs, StillGuarded
  <2> QED BY <2>1, <2>2
<1> HIDE DEF new
<1>12. A!Noted(new)
  BY <1>4 DEF new
<1> QED BY <1>4, <1>9, <1>10, <1>11, <1>12, EndsIs, WriteKeeps

Rereads(r, i, patch, left) == [A!Reads(r, i, patch) EXCEPT !.left = left]

\* What a request goes on with that was admitted to change an image.
LEMMA ReadsIs ==
  ASSUME AlbumsInv, NEW r \in Requests, NEW i \in A!Images, NEW patch \in A!AlbumPatches, A!Admitted(i, patch),
         NEW left \in SUBSET A!Images
  PROVE  \E q \in A!RequestRecords :
           /\ q = Rereads(r, i, patch, left)
           /\ left = req[r].left => q = A!Reads(r, i, patch)
           /\ q.pc = "write" /\ q.i = i /\ q.left = left /\ q.vis = req[r].vis /\ q.seen = image[i]
           /\ patch.vis = "private" => q.patch.vis = "private"
           /\ Asked(q)
<1> USE AlbumTypes
<1>1. PICK e : e = A!Effective(patch)
  OBVIOUS
<1>2. PICK b : b = IF patch.album = -1 THEN image[i].album ELSE patch.album
  OBVIOUS
<1>3. PICK s : s = A!AlbumVis(b)
  OBVIOUS
<1>4. b \in 0 .. NumAlbums
  BY <1>2 DEF A!AlbumPatches, A!ImageRecords
<1>5. s \in {"none"} \cup A!Visibilities
  BY <1>3, <1>4, AlbumVisIs
<1>6. /\ e \in A!AlbumPatches /\ e.album = patch.album
      /\ e.vis = "private" \/ e = patch
  BY <1>1 DEF A!Effective, A!AlbumPatches, A!Visibilities
<1>7. e.vis = "private" \/ s # "private"
  <2>1. CASE patch.album = -1
    <3>1. e = patch
      BY <1>1, <2>1 DEF A!Effective
    <3>2. ~(patch.vis = "public" /\ s = "private")
      BY <1>1, <1>2, <1>3, <2>1, <3>1 DEF A!Admitted, A!StaysPrivate
    <3>3. patch.vis # "keep"
      <4>1. patch = [vis |-> patch.vis, album |-> patch.album]
        BY DEF A!AlbumPatches
      <4> QED BY <2>1, <4>1 DEF A!Admitted, A!NoPatch
    <3> QED BY <3>1, <3>2, <3>3 DEF A!AlbumPatches, A!Visibilities
  <2>2. CASE patch.album # -1
    <3>1. CASE patch.album = 0
      BY <1>2, <1>3, <2>2, <3>1 DEF A!AlbumVis
    <3>2. CASE patch.album > 0
      <4>1. b = patch.album
        BY <1>2, <2>2
      <4>2. s = "private" => e = [patch EXCEPT !.vis = "private"]
        BY <1>1, <1>3, <3>2, <4>1 DEF A!Effective
      <4> QED BY <4>2 DEF A!AlbumPatches
    <3> QED BY <2>2, <3>1, <3>2 DEF A!AlbumPatches
  <2> QED BY <2>1, <2>2
<1>8. e.vis = "keep" => e.album # -1
  <2>1. patch = [vis |-> patch.vis, album |-> patch.album]
    BY DEF A!AlbumPatches
  <2> QED BY <1>6, <2>1 DEF A!Admitted, A!NoPatch
<1>9. PICK q : q = [req[r] EXCEPT !.pc = "write", !.i = i, !.patch = e, !.seen = image[i], !.seenVis = s, !.left = left]
  OBVIOUS
<1>10. req[r] \in A!RequestRecords /\ image[i] \in A!ImageRecords /\ i \in 0 .. NumImages
  BY DEF A!Images
<1>11. /\ q \in A!RequestRecords /\ q.pc = "write" /\ q.i = i /\ q.left = left /\ q.vis = req[r].vis /\ q.seen = image[i]
       /\ q.patch = e /\ q.seenVis = s
  BY <1>5, <1>6, <1>9, <1>10 DEF A!RequestRecords
<1>12. /\ q = Rereads(r, i, patch, left)
       /\ left = req[r].left => q = A!Reads(r, i, patch)
  <2>1. A!Reads(r, i, patch) = [req[r] EXCEPT !.pc = "write", !.i = i, !.patch = e, !.seen = image[i], !.seenVis = s]
    BY <1>1, <1>2, <1>3 DEF A!Reads
  <2>2. q = Rereads(r, i, patch, left)
    BY <1>9, <1>10, <2>1 DEF A!RequestRecords, Rereads
  <2>3. ASSUME left = req[r].left PROVE q = A!Reads(r, i, patch)
    <3>1. PICK x : x = [req[r] EXCEPT !.pc = "write", !.i = i, !.patch = e, !.seen = image[i], !.seenVis = s]
      OBVIOUS
    <3>3. x \in A!RequestRecords /\ x.left = req[r].left
      BY <1>5, <1>6, <1>10, <3>1 DEF A!RequestRecords
    <3>4. x = A!Reads(r, i, patch) /\ x.left = left
      BY <2>1, <2>3, <3>1, <3>3
    <3>2. q = [x EXCEPT !.left = left]
      BY <2>2, <3>4 DEF Rereads
    <3> QED BY <3>2, <3>3, <3>4 DEF A!RequestRecords
  <2> QED BY <2>2, <2>3
<1>13. Asked(q)
  BY <1>7, <1>8, <1>11 DEF Asked
<1>14. patch.vis = "private" => e.vis = "private"
  BY <1>6
<1> QED BY <1>11, <1>12, <1>13, <1>14

LEMMA BeginUpdateKeeps ==
  ASSUME AlbumsInv, NEW r \in Requests, NEW i \in A!Images, NEW patch \in A!AlbumPatches, A!BeginUpdate(r, i, patch)
  PROVE  AlbumsInv'
<1>1. A!Free(r) /\ A!Admitted(i, patch) /\ A!Quiet /\ req' = [req EXCEPT ![r] = A!Reads(r, i, patch)]
  BY DEF A!BeginUpdate
<1>2. req[r] \in A!RequestRecords /\ req[r].left = {}
  BY <1>1, AlbumTypes DEF A!Free, Asked
<1>3. PICK left \in SUBSET A!Images : left = req[r].left
  BY <1>2
<1>4. \E q \in A!RequestRecords : (left = req[r].left => q = A!Reads(r, i, patch)) /\ Asked(q)
  <2>1. \E q \in A!RequestRecords :
          /\ q = Rereads(r, i, patch, left)
          /\ left = req[r].left => q = A!Reads(r, i, patch)
          /\ q.pc = "write" /\ q.i = i /\ q.left = left /\ q.vis = req[r].vis /\ q.seen = image[i]
          /\ patch.vis = "private" => q.patch.vis = "private"
          /\ Asked(q)
    BY <1>1, ReadsIs
  <2> QED BY <2>1
<1>5. A!Reads(r, i, patch) \in A!RequestRecords /\ Asked(A!Reads(r, i, patch))
  BY <1>3, <1>4
<1> QED BY <1>1, <1>5, BeginKeeps

LEMMA SweepNextKeeps ==
  ASSUME AlbumsInv, NEW r \in Requests, A!SweepNext(r)
  PROVE  AlbumsInv'
<1> USE AlbumTypes
<1>1. PICK patch : patch = [A!NoPatch EXCEPT !.vis = req[r].vis]
  OBVIOUS
<1>2. req[r] \in A!RequestRecords /\ req[r].left \in SUBSET A!Images /\ req[r].vis \in A!Visibilities
  BY DEF A!RequestRecords
<1>3. patch \in A!AlbumPatches /\ patch.vis = req[r].vis
  BY <1>1, <1>2, AlbumValues DEF A!AlbumPatches
<1>4. PICK i \in req[r].left :
        IF A!Admitted(i, patch)
          THEN /\ req' = [req EXCEPT ![r] = [A!Reads(r, i, patch) EXCEPT !.left = req[r].left \ {i}]]
               /\ UNCHANGED <<excused, walk>>
          ELSE A!Ends(r) /\ A!Noted(IF req[r].vis = "private" THEN req[r].left ELSE {})
  BY <1>1 DEF A!SweepNext
<1>5. req[r].pc = "sweep" /\ UNCHANGED <<album, image, requests, errors>>
  BY DEF A!SweepNext
<1>6. CASE A!Admitted(i, patch)
  <2>1. PICK q \in A!RequestRecords :
          /\ q = [A!Reads(r, i, patch) EXCEPT !.left = req[r].left \ {i}]
          /\ q.pc = "write" /\ q.i = i /\ q.left = req[r].left \ {i} /\ q.vis = req[r].vis /\ q.seen = image[i]
          /\ patch.vis = "private" => q.patch.vis = "private"
          /\ Asked(q)
    <3>1. PICK left \in SUBSET A!Images : left = req[r].left \ {i}
      BY <1>2
    <3>2. i \in A!Images
      BY <1>2
    <3> HIDE AlbumTypes
    <3>3. \E q \in A!RequestRecords :
            /\ q = Rereads(r, i, patch, left)
            /\ left = req[r].left => q = A!Reads(r, i, patch)
            /\ q.pc = "write" /\ q.i = i /\ q.left = left /\ q.vis = req[r].vis /\ q.seen = image[i]
            /\ patch.vis = "private" => q.patch.vis = "private"
            /\ Asked(q)
      BY <1>3, <1>6, <3>2, ReadsIs
    <3> QED BY <3>1, <3>3 DEF Rereads
  <2>2. req' = [req EXCEPT ![r] = q] /\ A!Quiet
    BY <1>4, <1>5, <1>6, <2>1 DEF A!Quiet
  <2>3. ASSUME NEW j \in A!Images, Sweeps(req[r], image[j], j) PROVE Sweeps(q, image[j], j)
    <3>1. req[r].vis = "private" /\ j \in req[r].left
      BY <1>5, <2>3 DEF Sweeps
    <3>2. image[j].surface \in A!Visibilities
      BY DEF A!ImageRecords
    <3> QED BY <1>3, <2>1, <3>1, <3>2 DEF Sweeps, A!Visibilities
  <2> QED BY <1>5, <2>1, <2>2, <2>3, QuietKeeps
<1>7. CASE ~A!Admitted(i, patch)
  <2>1. A!Ends(r) /\ A!Noted(IF req[r].vis = "private" THEN req[r].left ELSE {})
    BY <1>4, <1>7
  <2> DEFINE new == IF req[r].vis = "private" THEN req[r].left ELSE {}
  <2>2. Housed'
    BY <1>5 DEF AlbumsInv, Housed
  <2>3. ASSUME NEW j \in A!Images, A!Exposed(j)' PROVE j \in excused \/ j \in new \/ Swept(j)'
    <3>1. A!Exposed(j) /\ image'[j] = image[j]
      BY <1>5, <2>3 DEF A!Exposed, A!AlbumVis
    <3>2. Sweeps(req[r], image[j], j) => j \in new
      BY <1>5 DEF Sweeps
    <3> QED BY <2>1, <3>1, <3>2, EndsIs, StillGuarded
  <2> HIDE DEF new
  <2>4. A!Noted(new)
    BY <2>1 DEF new
  <2> QED BY <1>5, <2>1, <2>2, <2>3, <2>4, EndsIs, WriteKeeps
<1> QED BY <1>6, <1>7

\* A request that is done with its image keeps the others of its sweep.
LEMMA ContinuedIs ==
  ASSUME AlbumsInv, NEW r \in Requests, req[r].pc = "write", A!Continued(r)
  PROVE  /\ req' \in [Requests -> A!RequestRecords]
         /\ \A o \in Requests : o # r => req'[o] = req[o]
         /\ \A o \in Requests : Asked(req'[o])
         /\ req[r].left # {} => req'[r].left = req[r].left /\ req'[r].vis = req[r].vis
<1>1. CASE req[r].left = {}
  BY <1>1, EndsIs DEF A!Continued
<1>2. CASE req[r].left # {}
  <2>1. PICK q : q = [req[r] EXCEPT !.pc = "sweep", !.i = 0]
    OBVIOUS
  <2>2. req[r] \in A!RequestRecords /\ 0 \in 0 .. NumImages
    BY AlbumTypes
  <2>3. q \in A!RequestRecords /\ q.pc = "sweep" /\ q.left = req[r].left /\ q.vis = req[r].vis
    BY <2>1, <2>2 DEF A!RequestRecords
  <2>4. Asked(q)
    BY <2>3 DEF Asked
  <2>5. req' = [req EXCEPT ![r] = q]
    BY <1>2, <2>1 DEF A!Continued
  <2> QED BY <2>3, <2>4, <2>5, RequestIs
<1> QED BY <1>1, <1>2

\* What a write leaves of the image.
LEMMA PatchedIs ==
  ASSUME AlbumsInv, NEW r \in Requests, req[r].pc = "write", NEW n, n = A!Patched(req[r].i, req[r].patch)
  PROVE  /\ n \in A!ImageRecords
         /\ req[r].patch.vis = "private" => n.vis = "private"
         /\ n.album # 0 => A!AlbumVis(n.album) # "none"
         /\ n.album = 0 \/ n.album = IF req[r].patch.album = -1 THEN image[req[r].i].album ELSE req[r].patch.album
<1> USE AlbumTypes
<1>1. PICK i \in A!Images : i = req[r].i
  BY DEF Asked
<1>2. PICK p \in A!AlbumPatches : p = req[r].patch
  BY DEF A!RequestRecords
<1>3. PICK v : v = IF p.vis = "keep" THEN image[i].vis ELSE p.vis
  OBVIOUS
<1>4. PICK s : s = IF p.vis = "keep" THEN image[i].surface ELSE p.vis
  OBVIOUS
<1>5. PICK b : b = IF p.album = -1 THEN image[i].album ELSE IF A!AlbumVis(p.album) = "none" THEN 0 ELSE p.album
  OBVIOUS
<1>6. n = [image[i] EXCEPT !.vis = v, !.surface = s, !.album = b]
  BY <1>1, <1>2, <1>3, <1>4, <1>5 DEF A!Patched
<1>7. image[i] \in A!ImageRecords
  OBVIOUS
<1>8. v \in A!Visibilities /\ s \in A!Visibilities /\ b \in 0 .. NumAlbums
  BY <1>3, <1>4, <1>5, <1>7 DEF A!AlbumPatches, A!ImageRecords
<1>9. n \in A!ImageRecords /\ n.vis = v /\ n.album = b
  BY <1>6, <1>7, <1>8 DEF A!ImageRecords
<1>10. b # 0 => A!AlbumVis(b) # "none"
  BY <1>5 DEF AlbumsInv, Housed, A!AlbumVis
<1>11. b = 0 \/ b = IF p.album = -1 THEN image[i].album ELSE p.album
  BY <1>5
<1> QED BY <1>1, <1>2, <1>3, <1>9, <1>10, <1>11

LEMMA WriteUpdateKeeps ==
  ASSUME AlbumsInv, NEW r \in Requests, A!WriteUpdate(r)
  PROVE  AlbumsInv'
<1> USE AlbumTypes
<1>1. PICK i : i = req[r].i
  OBVIOUS
<1>2. PICK p : p = req[r].patch
  OBVIOUS
<1>3. PICK s : s = req[r].seen
  OBVIOUS
<1>4. PICK n : n = A!Patched(i, p)
  OBVIOUS
<1>5. /\ req[r].pc = "write" /\ i \in A!Images /\ p \in A!AlbumPatches /\ s \in A!ImageRecords /\ image[i] \in A!ImageRecords
      /\ p.vis = "private" \/ req[r].seenVis # "private"
      /\ p.vis = "keep" => p.album # -1
      /\ A!Continued(r) /\ UNCHANGED <<album, requests, errors>>
  BY <1>1, <1>2, <1>3 DEF A!WriteUpdate, Asked, A!RequestRecords
<1> DEFINE new == IF image[i].album # s.album \/ A!AlbumVis(IF p.album = -1 THEN s.album ELSE p.album) # req[r].seenVis
                  THEN {i} ELSE {}
<1>6. A!Noted(new)
  BY <1>1, <1>2, <1>3 DEF A!WriteUpdate
<1>7. PICK m : m = [n EXCEPT !.surface = image[i].surface]
  OBVIOUS
<1>8. /\ n \in A!ImageRecords /\ (p.vis = "private" => n.vis = "private") /\ (n.album # 0 => A!AlbumVis(n.album) # "none")
      /\ n.album = 0 \/ n.album = IF p.album = -1 THEN image[i].album ELSE p.album
  BY <1>1, <1>2, <1>4, <1>5, PatchedIs
<1>9. m \in A!ImageRecords /\ m.vis = n.vis /\ m.album = n.album
  BY <1>5, <1>7, <1>8 DEF A!ImageRecords
<1>10. \/ image' = image /\ (image[i].st # "live" \/ (s.surface # p.vis /\ image[i].surface # s.surface))
       \/ image' = [image EXCEPT ![i] = m]
       \/ image' = [image EXCEPT ![i] = n]
  BY <1>1, <1>2, <1>3, <1>4, <1>7 DEF A!WriteUpdate
<1>11. ASSUME NEW j \in A!Images, NEW o \in Requests, image'[j] = image[j], Sweeps(req[o], image[j], j),
              o # r \/ j \in req[r].left
       PROVE  Sweeps(req'[o], image'[j], j)
  <2>1. CASE o # r
    BY <1>5, <1>11, <2>1, ContinuedIs
  <2>2. CASE o = r /\ j \in req[r].left
    BY <1>5, <1>11, <2>2, ContinuedIs DEF Sweeps
  <2> QED BY <1>11, <2>1, <2>2
<1>12. CASE image' = image /\ (image[i].st # "live" \/ (s.surface # p.vis /\ image[i].surface # s.surface))
  <2>1. Housed'
    BY <1>5, <1>12 DEF AlbumsInv, Housed
  <2>2. ASSUME NEW j \in A!Images, A!Exposed(j)' PROVE j \in excused \/ j \in new \/ Swept(j)'
    <3>1. A!Exposed(j) /\ image'[j] = image[j] /\ image[j].st = "live"
      BY <1>5, <1>12, <2>2 DEF A!Exposed, A!AlbumVis
    <3>2. Sweeps(req[r], image[j], j) => j \in req[r].left
      <4> SUFFICES ASSUME Sweeps(req[r], image[j], j), j \notin req[r].left PROVE FALSE
        OBVIOUS
      <4>1. i = j /\ p.vis = "private" /\ (s.surface = "private" \/ image[j].surface = "public")
        BY <1>1, <1>2, <1>3, <1>5 DEF Sweeps
      <4>2. s.surface # "private" /\ image[i].surface # s.surface
        BY <1>12, <3>1, <4>1
      <4>3. s.surface \in A!Visibilities
        BY <1>5 DEF A!ImageRecords
      <4> QED BY <4>1, <4>2, <4>3 DEF A!Visibilities
    <3> QED BY <1>11, <3>1, <3>2, StillGuarded
  <2> HIDE DEF new
  <2> QED BY <1>5, <1>6, <1>12, <2>1, <2>2, ContinuedIs, WriteKeeps
<1>13. ASSUME NEW k \in A!ImageRecords, k.vis = n.vis, k.album = n.album, image' = [image EXCEPT ![i] = k]
       PROVE  AlbumsInv'
  <2>1. image' \in [A!Images -> A!ImageRecords] /\ image'[i] = k /\ \A j \in A!Images : j # i => image'[j] = image[j]
    BY <1>5, <1>13
  <2>2. Housed'
    BY <1>5, <1>8, <1>13, <2>1 DEF AlbumsInv, Housed, A!AlbumVis
  <2>3. ASSUME NEW j \in A!Images, A!Exposed(j)' PROVE j \in excused \/ j \in new \/ Swept(j)'
    <3>1. CASE j = i
      <4>1. n.vis = "public" /\ n.album # 0 /\ A!AlbumVis(n.album) = "private"
        BY <1>5, <1>13, <2>1, <2>3, <3>1 DEF A!Exposed, A!AlbumVis
      <4>2. req[r].seenVis # "private"
        BY <1>5, <1>8, <4>1
      <4>3. CASE image[i].album # s.album
        BY <3>1, <4>3
      <4>4. CASE image[i].album = s.album
        <5>1. n.album = IF p.album = -1 THEN s.album ELSE p.album
          BY <1>8, <4>1, <4>4
        <5> QED BY <3>1, <4>1, <4>2, <5>1
      <4> QED BY <4>3, <4>4
    <3>2. CASE j # i
      <4>1. A!Exposed(j) /\ image'[j] = image[j]
        BY <1>5, <2>1, <2>3, <3>2 DEF A!Exposed, A!AlbumVis
      <4>2. Sweeps(req[r], image[j], j) => j \in req[r].left
        BY <1>1, <1>5, <3>2 DEF Sweeps
      <4> QED BY <1>11, <4>1, <4>2, StillGuarded
    <3> QED BY <3>1, <3>2
  <2> HIDE DEF new
  <2> QED BY <1>5, <1>6, <2>1, <2>2, <2>3, ContinuedIs, WriteKeeps
<1> QED BY <1>8, <1>9, <1>10, <1>12, <1>13

LEMMA FailUpdateKeeps ==
  ASSUME AlbumsInv, NEW r \in Requests, A!FailUpdate(r)
  PROVE  AlbumsInv'
<1> USE AlbumTypes
<1> DEFINE new == {req[r].i} \cup req[r].left
<1>1. /\ req[r].pc = "write" /\ A!Ends(r) /\ UNCHANGED <<album, image, requests>> /\ A!Noted(new)
      /\ errors < MaxErrors /\ errors' = errors + 1
  BY DEF A!FailUpdate, A!Erring
<1>2. Housed'
  BY <1>1 DEF AlbumsInv, Housed
<1>3. ASSUME NEW j \in A!Images, A!Exposed(j)' PROVE j \in excused \/ j \in new \/ Swept(j)'
  <2>1. A!Exposed(j) /\ image'[j] = image[j]
    BY <1>1, <1>3 DEF A!Exposed, A!AlbumVis
  <2>2. Sweeps(req[r], image[j], j) => j \in new
    BY <1>1 DEF Sweeps
  <2> QED BY <1>1, <2>1, <2>2, EndsIs, StillGuarded
<1>4. errors' \in 0 .. MaxErrors
  BY <1>1
<1> HIDE DEF new
<1> QED BY <1>1, <1>2, <1>3, <1>4, EndsIs, WriteKeeps

LEMMA TrashKeeps ==
  ASSUME AlbumsInv, NEW i \in A!Images, A!Trash(i) \/ A!Restore(i)
  PROVE  AlbumsInv'
<1> USE AlbumTypes
<1>1. PICK s \in {"live", "trash"} :
        image' = [image EXCEPT ![i].st = s] /\ (s = "live" => A!Noted({i})) /\ (s = "trash" => A!Noted({}))
  BY DEF A!Trash, A!Restore
<1>2. UNCHANGED <<album, req, errors>> /\ requests' \in 0 .. MaxRequests
  BY DEF A!Trash, A!Restore
<1> DEFINE new == IF s = "live" THEN {i} ELSE {}
<1>3. PICK n : n = [image[i] EXCEPT !.st = s]
  OBVIOUS
<1>4. image[i] \in A!ImageRecords
  OBVIOUS
<1>5. n \in A!ImageRecords /\ n.st = s /\ n.album = image[i].album
  BY <1>3, <1>4 DEF A!ImageRecords
<1>6. image' \in [A!Images -> A!ImageRecords] /\ image'[i] = n /\ \A j \in A!Images : j # i => image'[j] = image[j]
  BY <1>1, <1>3, <1>5
<1>7. Housed'
  BY <1>2, <1>5, <1>6 DEF AlbumsInv, Housed
<1>8. ASSUME NEW j \in A!Images, A!Exposed(j)' PROVE j \in excused \/ j \in new \/ Swept(j)'
  <2>1. CASE j = i
    BY <1>5, <1>6, <1>8, <2>1 DEF A!Exposed
  <2>2. CASE j # i
    <3>1. A!Exposed(j) /\ image'[j] = image[j]
      BY <1>2, <1>6, <1>8, <2>2 DEF A!Exposed, A!AlbumVis
    <3> QED BY <1>2, <3>1, StillGuarded
  <2> QED BY <2>1, <2>2
<1>9. A!Noted(new)
  BY <1>1
<1> HIDE DEF new
<1> QED BY <1>2, <1>6, <1>7, <1>8, <1>9, WriteKeeps

LEMMA RestartKeeps ==
  ASSUME AlbumsInv, A!Restart
  PROVE  AlbumsInv'
<1> USE AlbumTypes
<1>1. /\ UNCHANGED <<album, requests>> /\ A!Noted({}) /\ req' = [r \in Requests |-> A!NoRequest]
      /\ errors < MaxErrors /\ errors' = errors + 1
  BY DEF A!Restart, A!Erring
<1>2. ASSUME NEW i \in A!Images
      PROVE  /\ image'[i] \in A!ImageRecords /\ image'[i].album = image[i].album
             /\ ~A!Exposed(i)'
  <2>1. PICK v : v = IF A!Exposed(i) THEN "private" ELSE image[i].vis
    OBVIOUS
  <2>2. image'[i] = IF image[i].st = "live" THEN [image[i] EXCEPT !.vis = v, !.surface = v] ELSE image[i]
    BY <2>1 DEF A!Restart
  <2>3. image[i] \in A!ImageRecords /\ v \in A!Visibilities
    BY <2>1 DEF A!ImageRecords, A!Visibilities
  <2>4. CASE image[i].st = "live"
    <3>1. image'[i] = [image[i] EXCEPT !.vis = v, !.surface = v]
      BY <2>2, <2>4
    <3>2. image'[i] \in A!ImageRecords /\ image'[i].album = image[i].album /\ image'[i].vis = v
      BY <2>3, <3>1 DEF A!ImageRecords
    <3>3. A!AlbumVis(image[i].album)' = A!AlbumVis(image[i].album)
      BY <1>1, <3>2 DEF A!AlbumVis
    <3> QED BY <2>1, <2>4, <3>2, <3>3 DEF A!Exposed
  <2>5. CASE image[i].st # "live"
    BY <2>2, <2>3, <2>5 DEF A!Exposed
  <2> QED BY <2>4, <2>5
<1>3. image' \in [A!Images -> A!ImageRecords]
  BY <1>2 DEF A!Restart
<1>4. Housed'
  BY <1>1, <1>2 DEF AlbumsInv, Housed
<1>5. req' \in [Requests -> A!RequestRecords] /\ \A r \in Requests : Asked(req'[r])
  BY <1>1, AlbumValues
<1>6. errors' \in 0 .. MaxErrors
  BY <1>1
<1> QED BY <1>1, <1>2, <1>3, <1>4, <1>5, <1>6, WriteKeeps

-----------------------------------------------------------------------------
(* Albums: a visitor.                                                      *)

\* Of finitely many numbers one is the last.
LEMMA LastOf ==
  ASSUME NEW n \in Nat, NEW S \in SUBSET (1 .. n), S # {}
  PROVE  \E x \in S : \A y \in S : y <= x
<1> DEFINE T == {n - x : x \in S}
<1>1. T \in SUBSET Nat
  OBVIOUS
<1>5. T # {}
  OBVIOUS
<1>2. PICK t \in T : \A u \in T : t <= u
  BY <1>1, <1>5, NatMin
<1>3. PICK x \in S : t = n - x
  BY <1>2
<1>4. ASSUME NEW y \in S PROVE y <= x
  <2>1. n - y \in T /\ y \in Nat /\ x \in Nat
    OBVIOUS
  <2>2. n - x <= n - y
    BY <1>2, <1>3, <2>1
  <2> QED BY <2>1, <2>2
<1> QED BY <1>3, <1>4

\* The order in which an album is shown.
Precedes(i, j) == image[i].pos < image[j].pos \/ (image[i].pos = image[j].pos /\ i >= j)

LEMMA FirstShown ==
  ASSUME AlbumsInv, NEW S \in SUBSET A!Images, S # {}
  PROVE  \E i \in S : \A j \in S : Precedes(i, j)
<1> DEFINE T == {image[i].pos : i \in S}
<1>1. \A i \in S : image[i].pos \in Nat
  BY AlbumTypes DEF A!ImageRecords
<1>2. T \in SUBSET Nat /\ T # {}
  BY <1>1
<1>3. PICK p \in T : \A q \in T : p <= q
  BY <1>2, NatMin
<1> DEFINE Union == {i \in S : image[i].pos = p}
<1>4. Union \in SUBSET (1 .. NumImages) /\ Union # {}
  BY <1>3 DEF A!Images
<1>5. PICK i \in Union : \A j \in Union : j <= i
  BY <1>4, LastOf, AlbumTypes
<1>6. ASSUME NEW j \in S PROVE Precedes(i, j)
  <2>1. i \in Int /\ j \in Int /\ image[i].pos = p /\ image[j].pos \in Nat /\ p \in Nat
    BY <1>1, <1>2, <1>3, <1>5 DEF A!Images
  <2>2. p <= image[j].pos
    BY <1>3
  <2>3. image[j].pos = p => j <= i
    BY <1>5
  <2> QED BY <2>1, <2>2, <2>3 DEF Precedes
<1> QED BY <1>6, <1>5

\* The cover is one of the images that may be shown.
LEMMA CoverIs ==
  ASSUME AlbumsInv, NEW a \in A!AlbumIds
  PROVE  IF Shown(a) = {} THEN A!Cover(a) = 0 ELSE A!Cover(a) \in Shown(a)
<1> DEFINE able == {i \in A!Images : A!Showable(i, a)}
           put == {i \in able : image[i].pos > 0}
<1>1. \A S \in SUBSET A!Images : S # {} =>
        /\ (CHOOSE i \in S : \A j \in S : Precedes(i, j)) \in S
        /\ (CHOOSE i \in S : \A j \in S : Precedes(i, j)) \in A!Images
  BY FirstShown
<1>3. A!Cover(a) = IF album[a].cover \in able THEN album[a].cover
                 ELSE IF able = {} THEN 0
                 ELSE IF put # {} THEN CHOOSE i \in put : \A j \in put : Precedes(i, j)
                 ELSE CHOOSE i \in able : \A j \in able : Precedes(i, j)
  BY Zenon DEF A!Cover, Precedes
<1>4. put \in SUBSET A!Images /\ able \in SUBSET A!Images /\ put \subseteq able
  OBVIOUS
<1> HIDE DEF put, able
<1>5. IF able = {} THEN A!Cover(a) = 0 ELSE A!Cover(a) \in able
  BY <1>1, <1>3, <1>4
<1> QED BY <1>5 DEF able, Shown

LEMMA WalkMoves ==
  ASSUME AlbumsInv, walk' \in A!WalkRecords, Walked', UNCHANGED <<album, image, req, requests, errors, excused>>
  PROVE  AlbumsInv'
<1>1. A!TypeOK' /\ Housed'
  BY DEF AlbumsInv, A!TypeOK, Housed
<1>2. Guarded'
  BY DEF AlbumsInv, Guarded, Swept, A!Exposed, A!AlbumVis
<1> QED BY <1>1, <1>2 DEF AlbumsInv

LEMMA VisitKeeps ==
  ASSUME AlbumsInv, NEW a \in A!AlbumIds, A!Visit(a)
  PROVE  AlbumsInv'
<1>1. PICK w : w = [A!NoWalk EXCEPT !.pc = "cover", !.a = a]
  OBVIOUS
<1>2. a \in 0 .. NumAlbums /\ a # 0
  BY DEF A!AlbumIds
<1>3. /\ w \in A!WalkRecords /\ w.pc = "cover" /\ w.a = a /\ w.seen = {} /\ w.pos = -1 /\ w.id = 0 /\ w.twice = FALSE
  BY <1>1, <1>2, AlbumValues DEF A!WalkRecords, A!NoWalk
<1>4. walk' = w /\ UNCHANGED <<album, image, req, requests, errors, excused>> /\ album[a].vis = "public"
  BY <1>1 DEF A!Visit
<1>5. \A i \in A!Images : A!Beyond(-1, 0, i)
  BY AlbumTypes DEF A!Beyond, A!ImageRecords
<1>6. Walked'
  BY <1>2, <1>3, <1>4, <1>5 DEF Walked, Shown, A!AlbumVis, A!Showable, A!In, A!Beyond
<1> QED BY <1>3, <1>4, <1>6, WalkMoves

LEMMA SeeCoverKeeps ==
  ASSUME AlbumsInv, A!SeeCover
  PROVE  AlbumsInv'
<1>1. PICK c : c = A!Cover(walk.a)
  OBVIOUS
<1>2. PICK w : w = [walk EXCEPT !.pc = "page", !.cover = c]
  OBVIOUS
<1>3. /\ walk \in A!WalkRecords /\ walk.pc = "cover" /\ walk' = w
      /\ UNCHANGED <<album, image, req, requests, errors, excused>>
  BY <1>1, <1>2, AlbumTypes DEF A!SeeCover
<1>4. walk.a \in A!AlbumIds
  BY <1>3 DEF AlbumsInv, Walked
<1>5. IF Shown(walk.a) = {} THEN c = 0 ELSE c \in Shown(walk.a)
  BY <1>1, <1>4, CoverIs
<1>6. c \in 0 .. NumImages
  BY <1>5, AlbumTypes DEF Shown, A!Images
<1>7. /\ w \in A!WalkRecords /\ w.pc = "page" /\ w.cover = c /\ w.a = walk.a /\ w.seen = walk.seen
      /\ w.pos = walk.pos /\ w.id = walk.id /\ w.twice = walk.twice /\ w.disturbed = walk.disturbed
  BY <1>2, <1>3, <1>6 DEF A!WalkRecords
<1>8. Walked'
  BY <1>3, <1>5, <1>7 DEF AlbumsInv, Walked, Shown, A!AlbumVis, A!Showable, A!In, A!Beyond
<1> QED BY <1>3, <1>7, <1>8, WalkMoves

LEMMA PageKeeps ==
  ASSUME AlbumsInv, A!Page
  PROVE  AlbumsInv'
<1> DEFINE able == {i \in A!Images : A!Showable(i, walk.a) /\ A!Beyond(walk.pos, walk.id, i)}
<1>1. /\ walk \in A!WalkRecords /\ walk.pc = "page" /\ walk.a \in A!AlbumIds
      /\ UNCHANGED <<album, image, req, requests, errors, excused>>
  BY AlbumTypes DEF A!Page, AlbumsInv, Walked
<1>2. CASE able = {} \/ A!AlbumVis(walk.a) # "public"
  <2>1. PICK w : w = [walk EXCEPT !.pc = "done"]
    OBVIOUS
  <2>2. /\ w \in A!WalkRecords /\ w.pc = "done" /\ w.cover = walk.cover /\ w.a = walk.a /\ w.seen = walk.seen
        /\ w.pos = walk.pos /\ w.id = walk.id /\ w.twice = walk.twice /\ w.disturbed = walk.disturbed
    BY <1>1, <2>1 DEF A!WalkRecords
  <2>3. walk' = w
    BY <1>2, <2>1 DEF A!Page
  <2>4. ASSUME ~walk.disturbed PROVE walk.seen = Shown(walk.a)
    <3>1. able = {} /\ walk.seen = {i \in Shown(walk.a) : ~A!Beyond(walk.pos, walk.id, i)}
      BY <1>1, <1>2, <2>4 DEF AlbumsInv, Walked
    <3> QED BY <3>1 DEF Shown
  <2>5. Walked'
    BY <1>1, <2>2, <2>3, <2>4 DEF AlbumsInv, Walked, Shown, A!AlbumVis, A!Showable, A!In, A!Beyond
  <2> QED BY <1>1, <2>2, <2>3, <2>5, WalkMoves
<1>3. CASE ~(able = {} \/ A!AlbumVis(walk.a) # "public")
  <2>1. PICK i \in able :
          /\ \A j \in able : Precedes(i, j)
          /\ walk' = [walk EXCEPT !.pos = image[i].pos, !.id = i, !.seen = walk.seen \cup {i},
                                  !.twice = walk.twice \/ i \in walk.seen]
    BY <1>3 DEF A!Page, Precedes
  <2>2. PICK again \in BOOLEAN : again = (walk.twice \/ i \in walk.seen)
    OBVIOUS
  <2>3. PICK w : w = [walk EXCEPT !.pos = image[i].pos, !.id = i, !.seen = walk.seen \cup {i}, !.twice = again]
    OBVIOUS
  <2>4. /\ i \in A!Images /\ i \in 0 .. NumImages /\ image[i].pos \in -1 .. NumImages
        /\ walk.seen \cup {i} \in SUBSET A!Images
    BY <1>1, AlbumTypes DEF A!Images, A!ImageRecords, A!WalkRecords
  <2>5. /\ w \in A!WalkRecords /\ w.pc = "page" /\ w.cover = walk.cover /\ w.a = walk.a /\ w.seen = walk.seen \cup {i}
        /\ w.pos = image[i].pos /\ w.id = i /\ w.twice = again /\ w.disturbed = walk.disturbed
    BY <1>1, <2>3, <2>4 DEF A!WalkRecords
  <2>6. walk' = w
    BY <2>1, <2>2, <2>3
  <2>7. ASSUME ~walk.disturbed
        PROVE  /\ ~again
               /\ walk.seen \cup {i} = {j \in Shown(walk.a) : ~A!Beyond(image[i].pos, i, j)}
    <3>1. /\ walk.seen = {j \in Shown(walk.a) : ~A!Beyond(walk.pos, walk.id, j)} /\ ~walk.twice
      BY <1>1, <2>7 DEF AlbumsInv, Walked
    <3>2. i \in Shown(walk.a) /\ A!Beyond(walk.pos, walk.id, i)
      BY DEF Shown
    <3>3. ~again
      BY <2>2, <3>1, <3>2
    <3>4. \A j \in Shown(walk.a) : j \in Int /\ image[j].pos \in Int
      BY AlbumTypes DEF Shown, A!Images, A!ImageRecords
    <3>5. walk.pos \in Int /\ walk.id \in Int
      BY <1>1, AlbumTypes DEF A!WalkRecords
    <3>6. ~A!Beyond(image[i].pos, i, i)
      BY <3>2, <3>4 DEF A!Beyond
    <3>7. ASSUME NEW j \in Shown(walk.a), ~A!Beyond(walk.pos, walk.id, j) PROVE ~A!Beyond(image[i].pos, i, j)
      BY <3>2, <3>4, <3>5, <3>7 DEF A!Beyond
    <3>8. ASSUME NEW j \in Shown(walk.a), A!Beyond(walk.pos, walk.id, j), j # i PROVE A!Beyond(image[i].pos, i, j)
      <4>1. j \in able
        BY <3>8 DEF Shown
      <4>2. Precedes(i, j)
        BY <2>1, <4>1
      <4> QED BY <3>2, <3>4, <3>8, <4>2 DEF A!Beyond, Precedes
    <3>9. ASSUME NEW j \in Shown(walk.a) PROVE j \in walk.seen \cup {i} <=> ~A!Beyond(image[i].pos, i, j)
      BY <3>1, <3>6, <3>7, <3>8
    <3> HIDE DEF able
    <3> QED BY <3>1, <3>2, <3>3, <3>9
  <2>8. Walked'
    <3>1. w.pc # "idle" => w.a \in A!AlbumIds
      BY <1>1, <2>5
    <3>2. Shown(walk.a)' = Shown(w.a) /\ A!AlbumVis(walk.a)' = A!AlbumVis(w.a)
          /\ \A j \in A!Images : A!Beyond(walk.pos, walk.id, j)' = A!Beyond(w.pos, w.id, j)
      BY <1>1, <2>6 DEF Shown, A!Showable, A!In, A!AlbumVis, A!Beyond
    <3>3. ASSUME ~w.disturbed
          PROVE  /\ A!AlbumVis(w.a) = "public" /\ ~w.twice
                 /\ w.seen = {j \in Shown(w.a) : ~A!Beyond(w.pos, w.id, j)}
                 /\ IF Shown(w.a) = {} THEN w.cover = 0 ELSE w.cover \in Shown(w.a)
      BY <1>1, <2>5, <2>7, <3>3 DEF AlbumsInv, Walked
    <3>4. Shown(w.a) \subseteq A!Images
      BY DEF Shown
    <3> QED BY <2>5, <2>6, <3>1, <3>2, <3>3, <3>4 DEF Walked
  <2> QED BY <1>1, <2>5, <2>6, <2>8, WalkMoves
<1> QED BY <1>2, <1>3

-----------------------------------------------------------------------------
LEMMA AlbumsStep == AlbumsInv /\ [A!Next]_(A!shelf) => AlbumsInv'
<1> SUFFICES ASSUME AlbumsInv, [A!Next]_(A!shelf) PROVE AlbumsInv'
  OBVIOUS
<1>1. CASE UNCHANGED A!shelf
  BY <1>1 DEF A!shelf, AlbumsInv, A!TypeOK, Housed, Guarded, Swept, A!Exposed, Walked, Shown, A!AlbumVis, A!Showable, A!In, A!Beyond
<1>2. CASE A!Next
  BY <1>2, CreateAlbumKeeps, DeleteAlbumKeeps, ReorderKeeps, VisitKeeps, BeginsKeep, BeginUpdateKeeps, WriteVisibilityKeeps,
     WriteCoverKeeps, ListImagesKeeps, CommitUploadKeeps, SweepNextKeeps, WriteUpdateKeeps, FailUpdateKeeps,
     TrashKeeps, RestartKeeps, SeeCoverKeeps, PageKeeps, Zenon DEF A!Next
<1> QED BY <1>1, <1>2

LEMMA AlbumsInvIs == AlbumsInv => A!TypeOK /\ A!PrivateAlbumsHide /\ A!WalksAreComplete
<1> SUFFICES ASSUME AlbumsInv PROVE A!PrivateAlbumsHide /\ A!WalksAreComplete
  BY DEF AlbumsInv
<1>1. A!PrivateAlbumsHide
  <2>1. \A i \in A!Images : Swept(i) => A!ToBeSwept(i)
    BY DEF Swept, Sweeps, A!ToBeSwept
  <2> QED BY <2>1 DEF AlbumsInv, Guarded, A!PrivateAlbumsHide
<1>2. A!WalksAreComplete
  BY DEF AlbumsInv, Walked, Shown, A!WalksAreComplete
<1> QED BY <1>1, <1>2

-----------------------------------------------------------------------------
(* Lists: their orders.                                                    *)

\* R puts the members of S in an order, one before the other.
Ordered(S, R) ==
  /\ \A x \in S : <<x, x>> \notin R
  /\ \A x, y, z \in S : <<x, y>> \in R /\ <<y, z>> \in R => <<x, z>> \in R
  /\ \A x, y \in S : x # y => <<x, y>> \in R \/ <<y, x>> \in R

LEMMA FirstOf ==
  ASSUME NEW S, IsFiniteSet(S), S # {}, NEW R, Ordered(S, R)
  PROVE  \E x \in S : \A y \in S \ {x} : <<x, y>> \in R
<1> DEFINE Below(x) == {y \in S : <<y, x>> \in R}
<1>1. PICK Fam : Fam = {Below(x) : x \in S}
  OBVIOUS
<1>2. \A G \in Fam : IsFiniteSet(G)
  BY <1>1, FS_Subset
<1>3. Family(Fam, S)
  BY <1>1, <1>2 DEF Family
<1>4. \E G \in Fam : \A B \in Fam : B \subseteq G => B = G
  BY <1>3, MinimalSubset
<1> HIDE DEF Below
<1>5. PICK x \in S : \A y \in S : Below(y) \subseteq Below(x) => Below(y) = Below(x)
  BY <1>1, <1>4
<1>6. ASSUME NEW y \in S, <<y, x>> \in R PROVE FALSE
  <2>1. Below(y) \subseteq Below(x)
    BY <1>6 DEF Below, Ordered
  <2>2. Below(y) = Below(x)
    BY <1>5, <2>1
  <2>3. y \in Below(x) /\ y \notin Below(y)
    BY <1>6 DEF Below, Ordered
  <2> QED BY <2>2, <2>3
<1>7. ASSUME NEW y \in S \ {x} PROVE <<x, y>> \in R
  BY <1>6 DEF Ordered
<1> QED BY <1>7

\* The order of a list, and the other way round.
Order(list) == {p \in F!Rows \X F!Rows : F!Precedes(list, p[1], p[2])}
Reverse(list) == {p \in F!Rows \X F!Rows : F!Precedes(list, p[2], p[1])}

Sorted(list) ==
  /\ \A i \in F!Rows : ~F!Precedes(list, i, i)
  /\ \A i, j, k \in F!Rows : F!Precedes(list, i, j) /\ F!Precedes(list, j, k) => F!Precedes(list, i, k)
  /\ \A i, j \in F!Rows : i # j => F!Precedes(list, i, j) \/ F!Precedes(list, j, i)

LEMMA RowTypes ==
  ASSUME F!TypeOK, NEW i \in F!Rows
  PROVE  /\ i \in Int /\ rows[i] \in F!RowRecords
         /\ rows[i].val \in Int /\ rows[i].at \in F!Times /\ rows[i].at.sec \in Int /\ rows[i].at.half \in Int
BY FeedsAssumption DEF F!TypeOK, F!Rows, F!RowRecords, F!Values, F!Times, FeedsAssumption

LEMMA TimesAre ==
  \A s, t \in F!Times : s = t <=> (s.sec = t.sec /\ s.half = t.half)
BY DEF F!Times

\* A time as one number.
Moment(t) == 2 * t.sec + t.half

LEMMA MomentIs ==
  \A s, t \in F!Times :
    /\ Moment(s) \in Int
    /\ F!Earlier(s, t) <=> Moment(s) < Moment(t)
    /\ (s = t) <=> (Moment(s) = Moment(t))
<1> SUFFICES ASSUME NEW s \in F!Times, NEW t \in F!Times
             PROVE  /\ Moment(s) \in Int
                    /\ F!Earlier(s, t) <=> Moment(s) < Moment(t)
                    /\ (s = t) <=> (Moment(s) = Moment(t))
  OBVIOUS
<1>1. s.sec \in Int /\ t.sec \in Int /\ s.half \in 0 .. 1 /\ t.half \in 0 .. 1
  BY FeedsAssumption DEF F!Times, FeedsAssumption
<1>2. s = t <=> (s.sec = t.sec /\ s.half = t.half)
  BY TimesAre
<1> QED BY <1>1, <1>2 DEF Moment, F!Earlier

LEMMA ListsAreSorted ==
  ASSUME F!TypeOK, NEW list \in F!PagedLists
  PROVE  Sorted(list)
<1>1. /\ \A i \in F!Rows : i \in Int /\ rows[i].val \in Int /\ rows[i].at \in F!Times
      /\ \A i \in F!Rows : rows[i].at.sec \in Int /\ rows[i].at.half \in Int
  BY RowTypes
<1>2. CASE list \in F!ById
  BY <1>1, <1>2 DEF Sorted, F!Precedes, F!ById
<1>3. CASE list \in {"value", "hot", "table"}
  <2>1. \A i, j \in F!Rows : F!Precedes(list, i, j) <=> F!MostFirst(i, j)
    BY <1>3 DEF F!Precedes, F!ById
  <2>2. \A i, j, k \in F!Rows : F!MostFirst(i, j) /\ F!MostFirst(j, k) => F!MostFirst(i, k)
    BY <1>1 DEF F!MostFirst
  <2>3. \A i, j \in F!Rows : ~F!MostFirst(i, i) /\ (i # j => (F!MostFirst(i, j) \/ F!MostFirst(j, i)))
    BY <1>1 DEF F!MostFirst
  <2> QED BY <2>1, <2>2, <2>3 DEF Sorted
<1>4. CASE list = "position"
  <2>1. \A i, j \in F!Rows : F!Precedes(list, i, j) <=> F!ByPosition(i, j)
    BY <1>4 DEF F!Precedes, F!ById
  <2>2. \A i, j, k \in F!Rows : F!ByPosition(i, j) /\ F!ByPosition(j, k) => F!ByPosition(i, k)
    BY <1>1 DEF F!ByPosition
  <2>3. \A i, j \in F!Rows : ~F!ByPosition(i, i) /\ (i # j => (F!ByPosition(i, j) \/ F!ByPosition(j, i)))
    BY <1>1 DEF F!ByPosition
  <2> QED BY <2>1, <2>2, <2>3 DEF Sorted
<1>5. CASE list \in {"new", "profile"}
  <2>1. \A i, j \in F!Rows : F!Precedes(list, i, j) <=> F!NewestFirst(i, j)
    BY <1>5 DEF F!Precedes, F!ById
  <2>2. \A i, j \in F!Rows :
          /\ Moment(rows[i].at) \in Int
          /\ F!NewestFirst(i, j) <=> (Moment(rows[i].at) > Moment(rows[j].at)
                                     \/ (Moment(rows[i].at) = Moment(rows[j].at) /\ i > j))
    BY <1>1, MomentIs DEF F!NewestFirst
  <2> HIDE DEF Moment
  <2>3. \A i, j, k \in F!Rows : F!NewestFirst(i, j) /\ F!NewestFirst(j, k) => F!NewestFirst(i, k)
    BY <1>1, <2>2
  <2>4. \A i, j \in F!Rows : ~F!NewestFirst(i, i) /\ (i # j => (F!NewestFirst(i, j) \/ F!NewestFirst(j, i)))
    BY <1>1, <2>2
  <2> QED BY <2>1, <2>3, <2>4 DEF Sorted
<1> QED BY <1>2, <1>3, <1>4, <1>5 DEF F!PagedLists, F!Owned, F!Discovered, F!ById

LEMMA RowsFinite ==
  \A S \in SUBSET F!Rows : IsFiniteSet(S) /\ Cardinality(S) \in Nat
<1>2. NumRows \in Int
  BY FeedsAssumption DEF FeedsAssumption
<1>3. IsFiniteSet(1 .. NumRows)
  BY <1>2, FS_Interval
<1> QED BY <1>3, FS_Subset, FS_CardinalityType DEF F!Rows

LEMMA OrderedIs ==
  ASSUME NEW list, Sorted(list), NEW S \in SUBSET F!Rows
  PROVE  Ordered(S, Order(list)) /\ Ordered(S, Reverse(list))
<1>1. \A x, y \in F!Rows : /\ <<x, y>> \in Order(list) <=> F!Precedes(list, x, y)
                           /\ <<x, y>> \in Reverse(list) <=> F!Precedes(list, y, x)
  BY DEF Order, Reverse
<1>2. Ordered(S, Order(list))
  BY <1>1 DEF Ordered, Sorted
<1>3. Ordered(S, Reverse(list))
  BY <1>1 DEF Ordered, Sorted
<1> QED BY <1>2, <1>3

\* A set of rows has a first one and a last one.
LEMMA LeastRow ==
  ASSUME NEW list, Sorted(list), NEW S \in SUBSET F!Rows, S # {}
  PROVE  \E i \in S : \A j \in S \ {i} : F!Precedes(list, i, j)
<1>1. \E i \in S : \A j \in S \ {i} : <<i, j>> \in Order(list)
  <2>1. IsFiniteSet(S) /\ Ordered(S, Order(list)) /\ Ordered(S, Reverse(list))
    BY OrderedIs, RowsFinite
  <2> QED BY <2>1, FirstOf
<1> QED BY <1>1 DEF Order

LEMMA LastIs ==
  ASSUME NEW list, Sorted(list), NEW S \in SUBSET F!Rows, S # {}
  PROVE  F!Last(list, S) \in S /\ \A j \in S \ {F!Last(list, S)} : F!Precedes(list, j, F!Last(list, S))
<1>1. \E i \in S : \A j \in S \ {i} : <<i, j>> \in Reverse(list)
  <2>1. IsFiniteSet(S) /\ Ordered(S, Order(list)) /\ Ordered(S, Reverse(list))
    BY OrderedIs, RowsFinite
  <2> QED BY <2>1, FirstOf
<1>2. \E i \in S : \A j \in S \ {i} : F!Precedes(list, j, i)
  BY <1>1 DEF Reverse
<1> QED BY <1>2 DEF F!Last

Preceding(list, S, i) == {j \in S : F!Precedes(list, j, i)}

\* The first rows of a set come before the others.
LEMMA FirstIs ==
  ASSUME NEW list, Sorted(list), NEW S \in SUBSET F!Rows, NEW n \in 1 .. 2
  PROVE  /\ F!First(list, S, n) \subseteq S
         /\ S # {} => F!First(list, S, n) # {}
         /\ \A i \in F!First(list, S, n), j \in S \ F!First(list, S, n) : F!Precedes(list, i, j)
<1>1. F!First(list, S, n) = {i \in S : Cardinality(Preceding(list, S, i)) < n}
  BY SameSizes DEF F!First, Preceding
<1>2. ASSUME S # {} PROVE F!First(list, S, n) # {}
  <2>1. PICK i \in S : \A j \in S \ {i} : F!Precedes(list, i, j)
    BY <1>2, LeastRow
  <2>2. Preceding(list, S, i) = {}
    BY <2>1 DEF Preceding, Sorted
  <2> QED BY <1>1, <2>2, FS_EmptySet
<1>3. ASSUME NEW i \in F!First(list, S, n), NEW j \in S \ F!First(list, S, n), ~F!Precedes(list, i, j) PROVE FALSE
  <2>1. i \in S /\ i # j /\ F!Precedes(list, j, i)
    BY <1>1, <1>3 DEF Sorted
  <2>2. Preceding(list, S, j) \subseteq Preceding(list, S, i)
    BY <2>1 DEF Preceding, Sorted
  <2>3. Preceding(list, S, i) \in SUBSET F!Rows /\ Preceding(list, S, j) \in SUBSET F!Rows
    BY DEF Preceding
  <2>4. Cardinality(Preceding(list, S, j)) <= Cardinality(Preceding(list, S, i))
    BY <2>2, <2>3, RowsFinite, FS_Subset
  <2>5. Cardinality(Preceding(list, S, i)) < n /\ ~(Cardinality(Preceding(list, S, j)) < n)
    BY <1>1
  <2>6. Cardinality(Preceding(list, S, i)) \in Nat /\ Cardinality(Preceding(list, S, j)) \in Nat
    BY <2>3, RowsFinite
  <2> QED BY <2>4, <2>5, <2>6
<1> QED BY <1>1, <1>2, <1>3

LEMMA PairIs ==
  ASSUME NEW a, NEW b, a # b
  PROVE  Cardinality({a, b}) = 2
<1>1. {a, b} = {a} \cup {b} /\ b \notin {a}
  OBVIOUS
<1>2. IsFiniteSet({a}) /\ Cardinality({a}) = 1
  BY FS_Singleton, Zenon
<1>3. Cardinality({a} \cup {b}) = Cardinality({a}) + 1
  BY <1>1, <1>2, FS_AddElement, Zenon
<1> QED BY <1>1, <1>2, <1>3

\* A page that leaves something is full.
LEMMA FullPage ==
  ASSUME NEW list, Sorted(list), NEW S \in SUBSET F!Rows, NEW n \in 1 .. 2, F!First(list, S, n) # S
  PROVE  Cardinality(F!First(list, S, n)) = n
<1>1. F!First(list, S, n) = {i \in S : Cardinality(Preceding(list, S, i)) < n}
  BY SameSizes DEF F!First, Preceding
<1>a. \A i \in S : Preceding(list, S, i) \in SUBSET F!Rows
  BY DEF Preceding
<1>b. \A i \in S : Cardinality(Preceding(list, S, i)) \in Nat
  BY <1>a, RowsFinite
<1>2. S # {}
  BY <1>1
<1>3. PICK a \in S : \A j \in S \ {a} : F!Precedes(list, a, j)
  BY <1>2, LeastRow
<1>4. Preceding(list, S, a) = {}
  BY <1>3 DEF Preceding, Sorted
<1>5. Cardinality(Preceding(list, S, a)) = 0
  BY <1>4, FS_EmptySet
<1>6. ASSUME NEW i \in S \ {a} PROVE Cardinality(Preceding(list, S, i)) >= 1
  <2>1. a \in Preceding(list, S, i)
    BY <1>3 DEF Preceding
  <2>2. Cardinality(Preceding(list, S, i)) # 0
    BY <1>a, <2>1, RowsFinite, FS_EmptySet
  <2> QED BY <1>b, <2>2
<1>7. CASE n = 1
  <2>0. Cardinality(Preceding(list, S, a)) < n
    BY <1>5, <1>7
  <2>1. \A i \in S \ {a} : ~(Cardinality(Preceding(list, S, i)) < n)
    BY <1>6, <1>7, <1>b
  <2>2. F!First(list, S, n) = {a}
    BY <1>1, <2>0, <2>1
  <2> QED BY <1>7, <2>2, FS_Singleton
<1>8. CASE n = 2
  <2>1. S \ {a} # {}
    <3> SUFFICES ASSUME S \ {a} = {} PROVE FALSE
      OBVIOUS
    <3>1. S = {a}
      OBVIOUS
    <3>2. Cardinality(Preceding(list, S, a)) < n
      BY <1>5, <1>8
    <3>3. F!First(list, S, n) = S
      BY <1>1, <3>1, <3>2
    <3> QED BY <3>3
  <2>2. PICK b \in S \ {a} : \A j \in (S \ {a}) \ {b} : F!Precedes(list, b, j)
    BY <2>1, LeastRow
  <2>3. Preceding(list, S, b) = {a}
    BY <1>3, <2>2 DEF Preceding, Sorted
  <2>4. Cardinality(Preceding(list, S, b)) = 1
    BY <2>3, FS_Singleton
  <2>5. ASSUME NEW i \in (S \ {a}) \ {b} PROVE Cardinality(Preceding(list, S, i)) >= 2
    <3>1. {a, b} \in SUBSET Preceding(list, S, i)
      BY <1>3, <2>2 DEF Preceding
    <3>2. Cardinality({a, b}) = 2
      <4> QED BY PairIs
    <3> QED BY <1>a, <3>1, <3>2, RowsFinite, FS_Subset
  <2>a. Cardinality(Preceding(list, S, a)) < n /\ Cardinality(Preceding(list, S, b)) < n
    BY <1>5, <1>8, <2>4
  <2>b. \A i \in (S \ {a}) \ {b} : ~(Cardinality(Preceding(list, S, i)) < n)
    BY <1>8, <1>b, <2>5
  <2>6. F!First(list, S, n) = {a, b}
    BY <1>1, <2>2, <2>a, <2>b
  <2>7. Cardinality({a, b}) = 2
    <3> QED BY PairIs
  <2> QED BY <1>8, <2>6, <2>7
<1> QED BY <1>7, <1>8

\* The rows an OFFSET leaves out are as many as it says, if so were those before.
Numbers(list, S, skip, n, left, given, next) ==
  /\ Sorted(list) /\ S \in SUBSET F!Rows /\ skip \in Nat /\ n \in 1 .. 2
  /\ left = F!Offset(list, S, skip) /\ given = F!First(list, left, n) /\ next = skip + n
  /\ Cardinality(S \ left) = skip /\ given # left

LEMMA OffsetIs ==
  ASSUME NEW list, NEW S, NEW skip, NEW n, NEW left, NEW given, NEW next,
         Numbers(list, S, skip, n, left, given, next)
  PROVE  F!Offset(list, S, next) = left \ given /\ Cardinality(S \ (left \ given)) = next
<1>0. /\ Sorted(list) /\ S \in SUBSET F!Rows /\ skip \in Nat /\ n \in 1 .. 2
      /\ left = F!Offset(list, S, skip) /\ given = F!First(list, left, n) /\ next = skip + n
      /\ Cardinality(S \ left) = skip /\ given # left
  BY DEF Numbers
<1>1. /\ left = {i \in S : Cardinality(Preceding(list, S, i)) >= skip}
      /\ given = {i \in left : Cardinality(Preceding(list, left, i)) < n}
      /\ F!Offset(list, S, next) = {i \in S : Cardinality(Preceding(list, S, i)) >= skip + n}
  BY SameSizes, <1>0 DEF F!Offset, F!First, Preceding
<1>2. /\ left \in SUBSET F!Rows /\ left \subseteq S /\ given \subseteq left /\ Cardinality(S \ left) = skip
      /\ given # left
  BY <1>0, <1>1
<1>3. Cardinality(given) = n
  BY <1>0, <1>2, FullPage
<1>4. \A i \in S : /\ Preceding(list, S, i) \in SUBSET F!Rows /\ Cardinality(Preceding(list, S, i)) \in Nat
                   /\ Preceding(list, left, i) \in SUBSET F!Rows /\ Cardinality(Preceding(list, left, i)) \in Nat
  <2>1. \A i \in S : Preceding(list, S, i) \in SUBSET F!Rows /\ Preceding(list, left, i) \in SUBSET F!Rows
    BY <1>0, <1>2 DEF Preceding
  <2> QED BY <1>0, <2>1, RowsFinite
<1>5. ASSUME NEW i \in left, NEW j \in S \ left, ~F!Precedes(list, j, i) PROVE FALSE
  <2>1. i \in S /\ i # j /\ F!Precedes(list, i, j)
    BY <1>0, <1>2, <1>5 DEF Sorted
  <2>2. Preceding(list, S, i) \in SUBSET Preceding(list, S, j)
    BY <1>0, <2>1 DEF Preceding, Sorted
  <2>3. Cardinality(Preceding(list, S, i)) <= Cardinality(Preceding(list, S, j))
    BY <1>0, <1>4, <2>2, RowsFinite, FS_Subset
  <2>4. Cardinality(Preceding(list, S, i)) >= skip /\ ~(Cardinality(Preceding(list, S, j)) >= skip)
    BY <1>0, <1>1
  <2> QED BY <1>0, <1>4, <2>1, <2>3, <2>4
<1>6. ASSUME NEW i \in left PROVE Cardinality(Preceding(list, S, i)) = skip + Cardinality(Preceding(list, left, i))
  <2>1. Preceding(list, S, i) = (S \ left) \cup Preceding(list, left, i)
    BY <1>0, <1>2, <1>5 DEF Preceding
  <2>2. (S \ left) \cap Preceding(list, left, i) = {}
    BY <1>0 DEF Preceding
  <2>3. S \ left \in SUBSET F!Rows /\ i \in S
    BY <1>0, <1>2
  <2>4. IsFiniteSet(S \ left) /\ IsFiniteSet(Preceding(list, left, i))
    BY <1>0, <1>4, <2>3, RowsFinite
  <2>5. Cardinality(Preceding(list, S, i)) = Cardinality(S \ left) + Cardinality(Preceding(list, left, i)) - Cardinality({})
    BY <1>0, <2>1, <2>2, <2>4, FS_Union
  <2>6. Cardinality({}) = 0
    BY FS_EmptySet
  <2> QED BY <1>0, <1>2, <1>4, <2>3, <2>5, <2>6
<1>7. F!Offset(list, S, next) = left \ given
  <2>1. ASSUME NEW i \in left
        PROVE  Cardinality(Preceding(list, S, i)) >= skip + n <=> ~(Cardinality(Preceding(list, left, i)) < n)
    BY <1>0, <1>2, <1>4, <1>6
  <2>2. ASSUME NEW i \in S \ left PROVE ~(Cardinality(Preceding(list, S, i)) >= skip + n)
    <3>1. ~(Cardinality(Preceding(list, S, i)) >= skip)
      BY <1>1
    <3>2. skip \in Nat /\ n \in 1 .. 2 /\ Cardinality(Preceding(list, S, i)) \in Nat
      BY <1>0, <1>4
    <3> QED BY <3>1, <3>2
  <2> QED BY <1>0, <1>1, <1>2, <2>1, <2>2
<1>8. Cardinality(S \ (left \ given)) = skip + n
  <2>1. S \ (left \ given) = (S \ left) \cup given /\ (S \ left) \cap given = {}
    BY <1>0, <1>2
  <2>2. S \ left \in SUBSET F!Rows /\ given \in SUBSET F!Rows
    BY <1>0, <1>2
  <2>3. IsFiniteSet(S \ left) /\ IsFiniteSet(given)
    BY <1>0, <2>2, RowsFinite
  <2>4. Cardinality((S \ left) \cup given) = Cardinality(S \ left) + Cardinality(given) - Cardinality({})
    BY <1>0, <2>1, <2>3, FS_Union
  <2>5. Cardinality({}) = 0
    BY FS_EmptySet
  <2>6. n \in Int /\ skip \in Int
    BY <1>0
  <2>7. Cardinality(S \ (left \ given)) = Cardinality((S \ left) \cup given)
    BY <1>0, <2>1, Zenon
  <2> QED BY <1>0, <1>2, <1>3, <2>4, <2>5, <2>6, <2>7
<1> QED BY <1>0, <1>7, <1>8

-----------------------------------------------------------------------------
(* Lists: a page and its cursor.                                           *)

LEMMA CursorTypes ==
  ASSUME F!TypeOK, NEW i \in F!Rows
  PROVE  /\ F!CursorOf(i) \in F!Cursors /\ F!CursorOf(i) # F!NoCursor
         /\ F!CursorOf(i).sec = rows[i].at.sec /\ F!CursorOf(i).val = rows[i].val /\ F!CursorOf(i).id = i
<1>1. rows[i].at.sec \in 0 .. MaxSecond /\ rows[i].val \in 0 .. MaxValue /\ i \in 1 .. NumRows
  BY DEF F!TypeOK, F!Rows, F!RowRecords, F!Values, F!Times
<1>2. MaxSecond \in Int /\ MaxValue \in Int /\ NumRows \in Int
  BY FeedsAssumption DEF FeedsAssumption
<1>3. rows[i].at.sec \in 0 .. MaxSecond + 1 /\ rows[i].val \in -1 .. MaxValue /\ i \in 0 .. NumRows
  BY <1>1, <1>2
<1>4. rows[i].at.sec # MaxSecond + 1
  BY <1>1, <1>2
<1> QED BY <1>3, <1>4 DEF F!CursorOf, F!Cursors, F!NoCursor

\* The moment a cursor of the newest lists stands for.
Cut(sec) == [sec |-> sec, half |-> 0]

LEMMA BeyondIs ==
  ASSUME NEW list, NEW cur, NEW i
  PROVE  /\ list \in F!ById => (F!Beyond(list, cur, i) <=> i < cur.id)
         /\ list \in {"value", "hot"} =>
              (F!Beyond(list, cur, i) <=> (rows[i].val < cur.val \/ (rows[i].val = cur.val /\ i < cur.id)))
         /\ list = "position" =>
              (F!Beyond(list, cur, i) <=> (rows[i].val > cur.val \/ (rows[i].val = cur.val /\ i < cur.id)))
         /\ list \in {"new", "profile"} =>
              (F!Beyond(list, cur, i) <=> (F!Earlier(rows[i].at, Cut(cur.sec)) \/ (rows[i].at = Cut(cur.sec) /\ i < cur.id)))
<1>1. list \in F!ById => (F!Beyond(list, cur, i) <=> i < cur.id)
  BY DEF F!Beyond, F!ById
<1>2. list \in {"value", "hot"} =>
        (F!Beyond(list, cur, i) <=> (rows[i].val < cur.val \/ (rows[i].val = cur.val /\ i < cur.id)))
  BY DEF F!Beyond, F!ById
<1>3. list = "position" =>
        (F!Beyond(list, cur, i) <=> (rows[i].val > cur.val \/ (rows[i].val = cur.val /\ i < cur.id)))
  BY DEF F!Beyond, F!ById
<1>4. list \in {"new", "profile"} =>
        (F!Beyond(list, cur, i) <=> (F!Earlier(rows[i].at, Cut(cur.sec)) \/ (rows[i].at = Cut(cur.sec) /\ i < cur.id)))
  BY DEF F!Beyond, F!ById, Cut
<1> QED BY <1>1, <1>2, <1>3, <1>4

\* A cursor of the newest lists, in moments.
LEMMA NewestIs ==
  ASSUME F!TypeOK, NEW i \in F!Rows, NEW cur \in F!Cursors, NEW list \in {"new", "profile"}
  PROVE  /\ Moment(rows[i].at) \in Int /\ cur.sec \in Int
         /\ Moment(rows[i].at) = 2 * rows[i].at.sec + rows[i].at.half
         /\ rows[i].at.sec \in Int /\ rows[i].at.half \in 0 .. 1
         /\ F!Beyond(list, cur, i) <=> ( Moment(rows[i].at) < 2 * cur.sec
                                     \/ (Moment(rows[i].at) = 2 * cur.sec /\ i < cur.id))
         /\ \A j \in F!Rows : F!Precedes(list, i, j) <=> ( Moment(rows[i].at) > Moment(rows[j].at)
                                                     \/ (Moment(rows[i].at) = Moment(rows[j].at) /\ i > j))
<1>1. rows[i].at \in F!Times /\ \A j \in F!Rows : rows[j].at \in F!Times
  BY RowTypes
<1>2. rows[i].at.sec \in Int /\ rows[i].at.half \in 0 .. 1 /\ cur.sec \in Int
  BY <1>1, FeedsAssumption DEF F!Times, F!Cursors, FeedsAssumption
<1>3. Moment(rows[i].at) = 2 * rows[i].at.sec + rows[i].at.half
  BY DEF Moment
<1>4. Moment(rows[i].at) \in Int
  BY <1>2, <1>3
<1>5. Cut(cur.sec).sec = cur.sec /\ Cut(cur.sec).half = 0
  BY DEF Cut
<1>6. F!Earlier(rows[i].at, Cut(cur.sec)) <=> Moment(rows[i].at) < 2 * cur.sec
  BY <1>2, <1>3, <1>5 DEF F!Earlier
<1>7. (rows[i].at = Cut(cur.sec)) <=> (Moment(rows[i].at) = 2 * cur.sec)
  <2>1. (rows[i].at = Cut(cur.sec)) <=> (rows[i].at.sec = cur.sec /\ rows[i].at.half = 0)
    BY <1>1 DEF Cut, F!Times
  <2>2. rows[i].at.half = 0 \/ rows[i].at.half = 1
    BY <1>2
  <2>3. (rows[i].at.sec = cur.sec /\ rows[i].at.half = 0) <=> (2 * rows[i].at.sec + rows[i].at.half = 2 * cur.sec)
    <3>1. \A a, c \in Int : (a = c) <=> (2 * a + 0 = 2 * c)
      OBVIOUS
    <3>2. \A a, c \in Int : 2 * a + 1 # 2 * c
      OBVIOUS
    <3> QED BY <1>2, <2>2, <3>1, <3>2
  <2> QED BY <1>3, <2>1, <2>3
<1>8. F!Beyond(list, cur, i) <=> ( Moment(rows[i].at) < 2 * cur.sec
                               \/ (Moment(rows[i].at) = 2 * cur.sec /\ i < cur.id))
  BY <1>6, <1>7, BeyondIs
<1>9. ASSUME NEW j \in F!Rows
      PROVE  F!Precedes(list, i, j) <=> ( Moment(rows[i].at) > Moment(rows[j].at)
                                      \/ (Moment(rows[i].at) = Moment(rows[j].at) /\ i > j))
  <2>1. F!Precedes(list, i, j) <=> F!NewestFirst(i, j)
    BY DEF F!Precedes, F!ById
  <2>2. Moment(rows[j].at) \in Int /\ (F!Earlier(rows[j].at, rows[i].at) <=> Moment(rows[j].at) < Moment(rows[i].at))
    BY <1>1, MomentIs
  <2>3. (rows[i].at = rows[j].at) <=> (Moment(rows[i].at) = Moment(rows[j].at))
    BY <1>1, MomentIs
  <2> QED BY <1>4, <2>1, <2>2, <2>3 DEF F!NewestFirst
<1> QED BY <1>2, <1>3, <1>4, <1>8, <1>9

\* Rows up to the one a cursor is made of are not beyond it, those after it
\* are, short of a part of a second; and what is beyond it is beyond any
\* cursor that row was beyond of.
LEMMA CursorIs ==
  ASSUME F!TypeOK, NEW list \in F!PagedLists \ {"table"}, NEW i \in F!Rows, NEW last \in F!Rows, NEW cur \in F!Cursors
  PROVE  /\ (i = last \/ F!Precedes(list, i, last)) => ~F!Beyond(list, F!CursorOf(last), i)
         /\ F!Precedes(list, last, i) => \/ F!Beyond(list, F!CursorOf(last), i)
                                         \/ /\ list \in {"new", "profile"}
                                            /\ rows[i].at.sec = rows[last].at.sec /\ rows[last].at.half > 0
         /\ F!Beyond(list, cur, last) /\ F!Beyond(list, F!CursorOf(last), i) => F!Beyond(list, cur, i)
<1>1. /\ i \in Int /\ rows[i].val \in Int /\ last \in Int /\ rows[last].val \in Int
      /\ F!CursorOf(last) \in F!Cursors
      /\ F!CursorOf(last).sec = rows[last].at.sec /\ F!CursorOf(last).val = rows[last].val /\ F!CursorOf(last).id = last
  BY RowTypes, CursorTypes
<1>2. cur.id \in Int /\ cur.val \in Int
  BY FeedsAssumption DEF F!Cursors, FeedsAssumption
<1>3. CASE list \in F!ById
  <2>1. F!Precedes(list, i, last) <=> i > last
    BY <1>3 DEF F!Precedes, F!ById
  <2>2. F!Precedes(list, last, i) <=> last > i
    BY <1>3 DEF F!Precedes, F!ById
  <2>3. /\ F!Beyond(list, F!CursorOf(last), i) <=> i < last
        /\ F!Beyond(list, cur, last) <=> last < cur.id
        /\ F!Beyond(list, cur, i) <=> i < cur.id
    BY <1>1, <1>3, BeyondIs
  <2> QED BY <1>1, <1>2, <2>1, <2>2, <2>3
<1>4. CASE list \in {"value", "hot"}
  <2>1. F!Precedes(list, i, last) <=> F!MostFirst(i, last)
    BY <1>4 DEF F!Precedes, F!ById
  <2>2. F!Precedes(list, last, i) <=> F!MostFirst(last, i)
    BY <1>4 DEF F!Precedes, F!ById
  <2>3. /\ F!Beyond(list, F!CursorOf(last), i) <=> (rows[i].val < rows[last].val \/ (rows[i].val = rows[last].val /\ i < last))
        /\ F!Beyond(list, cur, last) <=> (rows[last].val < cur.val \/ (rows[last].val = cur.val /\ last < cur.id))
        /\ F!Beyond(list, cur, i) <=> (rows[i].val < cur.val \/ (rows[i].val = cur.val /\ i < cur.id))
    BY <1>1, <1>4, BeyondIs
  <2> QED BY <1>1, <1>2, <2>1, <2>2, <2>3 DEF F!MostFirst
<1>5. CASE list = "position"
  <2>1. F!Precedes(list, i, last) <=> F!ByPosition(i, last)
    BY <1>5 DEF F!Precedes, F!ById
  <2>2. F!Precedes(list, last, i) <=> F!ByPosition(last, i)
    BY <1>5 DEF F!Precedes, F!ById
  <2>3. /\ F!Beyond(list, F!CursorOf(last), i) <=> (rows[i].val > rows[last].val \/ (rows[i].val = rows[last].val /\ i < last))
        /\ F!Beyond(list, cur, last) <=> (rows[last].val > cur.val \/ (rows[last].val = cur.val /\ last < cur.id))
        /\ F!Beyond(list, cur, i) <=> (rows[i].val > cur.val \/ (rows[i].val = cur.val /\ i < cur.id))
    BY <1>1, <1>5, BeyondIs
  <2> QED BY <1>1, <1>2, <2>1, <2>2, <2>3 DEF F!ByPosition
<1>6. CASE list \in {"new", "profile"}
  <2>1. \A k \in {i, last} :
          /\ Moment(rows[k].at) \in Int /\ cur.sec \in Int
          /\ Moment(rows[k].at) = 2 * rows[k].at.sec + rows[k].at.half
          /\ rows[k].at.sec \in Int /\ rows[k].at.half \in 0 .. 1
          /\ F!Beyond(list, cur, k) <=> ( Moment(rows[k].at) < 2 * cur.sec
                                      \/ (Moment(rows[k].at) = 2 * cur.sec /\ k < cur.id))
    BY <1>6, NewestIs
  <2>2. F!Beyond(list, F!CursorOf(last), i) <=> ( Moment(rows[i].at) < 2 * rows[last].at.sec
                                            \/ (Moment(rows[i].at) = 2 * rows[last].at.sec /\ i < last))
    BY <1>1, <1>6, NewestIs
  <2>3. /\ F!Precedes(list, i, last) <=> ( Moment(rows[i].at) > Moment(rows[last].at)
                                       \/ (Moment(rows[i].at) = Moment(rows[last].at) /\ i > last))
        /\ F!Precedes(list, last, i) <=> ( Moment(rows[last].at) > Moment(rows[i].at)
                                       \/ (Moment(rows[last].at) = Moment(rows[i].at) /\ last > i))
    BY <1>6, NewestIs
  <2> HIDE DEF Moment
  <2>4. (i = last \/ F!Precedes(list, i, last)) => ~F!Beyond(list, F!CursorOf(last), i)
    BY <1>1, <2>1, <2>2, <2>3
  <2>5. F!Precedes(list, last, i) => \/ F!Beyond(list, F!CursorOf(last), i)
                                     \/ rows[i].at.sec = rows[last].at.sec /\ rows[last].at.half > 0
    BY <1>1, <2>1, <2>2, <2>3
  <2>6. F!Beyond(list, cur, last) /\ F!Beyond(list, F!CursorOf(last), i) => F!Beyond(list, cur, i)
    BY <1>1, <1>2, <2>1, <2>2
  <2> QED BY <1>6, <2>4, <2>5, <2>6
<1> QED BY <1>3, <1>4, <1>5, <1>6 DEF F!PagedLists, F!Owned, F!Discovered, F!ById

-----------------------------------------------------------------------------
(* Lists: the invariant.                                                   *)

Members == {i \in F!Rows : F!Holds(page.list, i)}
Going == page.pc \in {"profile", "check", "read"}

\* Its second is one in which a page ended between two whole seconds.
Split(i) == page.list \in {"new", "profile"} /\ rows[i].at.sec \in page.cut

Unasked ==
  page.pc = "idle" =>
    page.cur = F!NoCursor /\ page.skip = 0 /\ ~page.moved /\ \A i \in F!Rows : page.times[i] = 0

SteadyHeld == page.pc # "idle" => page.steady \subseteq Members

\* By cursor: rows before it were shown, rows beyond it were not.
ShownOnce(i) ==
  /\ page.times[i] \in {0, 1}
  /\ Going /\ page.cur = F!NoCursor => page.times[i] = 0
  /\ Going /\ page.cur # F!NoCursor /\ page.times[i] = 0 => F!Beyond(page.list, page.cur, i) \/ Split(i)
  /\ Going /\ page.cur # F!NoCursor /\ page.times[i] = 1 => ~F!Beyond(page.list, page.cur, i)
  /\ page.pc = "done" => page.times[i] = 1 \/ Split(i)

Once == page.list # "table" /\ page.pc # "idle" => \A i \in page.steady : ShownOnce(i)

\* By number: the rows left out were shown, and are as many as that.
Numbered ==
  page.list = "table" /\ page.pc # "idle" /\ ~page.moved =>
    /\ page.steady = Members
    /\ Going => /\ Cardinality(Members \ F!Offset("table", Members, page.skip)) = page.skip
                /\ \A i \in Members : page.times[i] = IF i \in F!Offset("table", Members, page.skip) THEN 0 ELSE 1
    /\ page.pc = "done" => \A i \in Members : page.times[i] = 1

FeedsInv == F!TypeOK /\ Unasked /\ SteadyHeld /\ Once /\ Numbered

LEMMA PageTypes ==
  ASSUME F!TypeOK
  PROVE  /\ page.list \in F!PagedLists /\ page.limit \in 1 .. 2 /\ page.cur \in F!Cursors /\ page.skip \in Nat
         /\ page.times \in [F!Rows -> 0 .. 2] /\ page.steady \subseteq F!Rows /\ page.moved \in BOOLEAN
         /\ page.cut \subseteq 0 .. MaxSecond
         /\ page.pc \in {"idle", "profile", "check", "read", "done", "gone"}
BY DEF F!TypeOK, F!Walks

LEMMA FeedsInit == F!Init => FeedsInv
<1> SUFFICES ASSUME F!Init PROVE FeedsInv
  OBVIOUS
<1>0. MaxSecond \in Nat /\ MaxChanges \in Nat /\ MaxValue \in Nat /\ NumRows \in Nat
  BY FeedsAssumption DEF FeedsAssumption
<1>1. PICK list \in Lists : page = [F!Unread EXCEPT !.list = list]
  BY DEF F!Init
<1>2. list \in F!PagedLists
  BY FeedsAssumption DEF FeedsAssumption
<1>3. F!Start \in F!Times /\ F!Unborn \in F!RowRecords
  BY <1>0 DEF F!Start, F!Times, F!Unborn, F!RowRecords, F!Values
<1>4. F!NoCursor \in F!Cursors
  BY <1>0 DEF F!NoCursor, F!Cursors
<1>5. [i \in F!Rows |-> 0] \in [F!Rows -> 0 .. 2]
  OBVIOUS
<1>6. page = [list |-> list, pc |-> "idle", limit |-> 1, cur |-> F!NoCursor, skip |-> 0, times |-> [i \in F!Rows |-> 0],
              steady |-> {}, moved |-> FALSE, cut |-> {}]
  BY <1>1 DEF F!Unread
<1> HIDE DEF F!NoCursor, F!Cursors
<1>7. page \in F!Walks
  BY <1>2, <1>4, <1>5, <1>6 DEF F!Walks
<1>8. F!TypeOK
  BY <1>0, <1>3, <1>7 DEF F!TypeOK, F!Init
<1> QED BY <1>6, <1>8 DEF FeedsInv, Unasked, SteadyHeld, Once, Numbered

LEMMA OpenStep ==
  ASSUME FeedsInv, NEW limit \in 1 .. 2, F!Open(limit)
  PROVE  FeedsInv'
<1>1. page.pc = "idle" /\ UNCHANGED <<rows, open, now, changes>> /\ F!TypeOK
  BY DEF F!Open, FeedsInv
<1>2. PICK steady : steady = Members
  OBVIOUS
<1>3. PICK pc : pc = F!Asks
  OBVIOUS
<1>4. page' = [page EXCEPT !.limit = limit, !.pc = pc, !.steady = steady]
  BY <1>2, <1>3 DEF F!Open, Members
<1>5. pc \in {"profile", "check", "read"} /\ steady \subseteq F!Rows
  BY <1>2, <1>3 DEF F!Asks, Members
<1>6. page' \in F!Walks
  BY <1>1, <1>4, <1>5 DEF F!TypeOK, F!Walks
<1>7. /\ page'.list = page.list /\ page'.pc = pc /\ page'.steady = steady /\ page'.cur = page.cur
      /\ page'.skip = page.skip /\ page'.times = page.times /\ page'.moved = page.moved /\ page'.cut = page.cut
  BY <1>1, <1>4 DEF F!TypeOK, F!Walks
<1>8. Members' = Members
  BY <1>1, <1>7 DEF Members, F!Holds, F!Listed, F!Trashed, F!Eligible, F!ShownAlbum, F!OnShelf, F!Tabled
<1>9. page.cur = F!NoCursor /\ page.skip = 0 /\ ~page.moved /\ \A i \in F!Rows : page.times[i] = 0
  BY <1>1 DEF FeedsInv, Unasked
<1>10. F!TypeOK'
  BY <1>1, <1>6 DEF F!TypeOK
<1>11. Unasked' /\ SteadyHeld'
  BY <1>2, <1>5, <1>7, <1>8 DEF Unasked, SteadyHeld
<1>12. Once'
  <2> SUFFICES ASSUME NEW i \in page'.steady PROVE ShownOnce(i)'
    BY DEF Once
  <2>1. page'.times[i] = 0 /\ page'.cur = F!NoCursor /\ page'.pc # "done"
    BY <1>2, <1>5, <1>7, <1>9 DEF Members
  <2> QED BY <2>1 DEF ShownOnce
<1>13. Numbered'
  <2>1. ASSUME NEW i \in Members PROVE Cardinality({j \in Members : F!Precedes("table", j, i)}) >= 0
    <3>1. {j \in Members : F!Precedes("table", j, i)} \in SUBSET F!Rows
      BY DEF Members
    <3> QED BY <3>1, RowsFinite
  <2>2. F!Offset("table", Members, 0) = Members
    BY SameSizes, <2>1 DEF F!Offset
  <2>3. F!Offset("table", Members, page.skip)' = F!Offset("table", Members, 0)
    BY <1>1, <1>7, <1>8, <1>9 DEF F!Offset, F!Precedes, F!MostFirst, F!ByPosition, F!NewestFirst, F!Earlier
  <2>4. Members \ Members = {} /\ Cardinality({}) = 0
    BY FS_EmptySet
  <2>5. \A i \in Members : i \in F!Rows
    BY DEF Members
  <2> QED BY <1>2, <1>5, <1>7, <1>8, <1>9, <2>2, <2>3, <2>4, <2>5 DEF Numbered
<1> QED BY <1>10, <1>11, <1>12, <1>13 DEF FeedsInv

LEMMA GoStep ==
  ASSUME FeedsInv, F!UserPublic \/ F!Check
  PROVE  FeedsInv'
<1>1. UNCHANGED <<rows, open, now, changes>> /\ F!TypeOK /\ Going
  BY DEF F!UserPublic, F!Check, FeedsInv, Going
<1>2. PICK pc \in {"check", "read", "gone"} : page' = [page EXCEPT !.pc = pc]
  BY DEF F!UserPublic, F!Check
<1>3. page' \in F!Walks
  BY <1>1, <1>2 DEF F!TypeOK, F!Walks
<1>4. /\ page'.list = page.list /\ page'.pc = pc /\ page'.steady = page.steady /\ page'.cur = page.cur
      /\ page'.skip = page.skip /\ page'.times = page.times /\ page'.moved = page.moved /\ page'.cut = page.cut
  BY <1>1, <1>2 DEF F!TypeOK, F!Walks
<1>5. Members' = Members
  BY <1>1, <1>4 DEF Members, F!Holds, F!Listed, F!Trashed, F!Eligible, F!ShownAlbum, F!OnShelf, F!Tabled
<1>6. F!TypeOK'
  BY <1>1, <1>3 DEF F!TypeOK
<1>7. Unasked' /\ SteadyHeld'
  BY <1>1, <1>4, <1>5 DEF Unasked, SteadyHeld, FeedsInv, Going
<1>8. Once'
  <2> SUFFICES ASSUME page.list # "table", NEW i \in page.steady PROVE ShownOnce(i)'
    BY <1>4 DEF Once
  <2>1. ShownOnce(i)
    BY <1>1 DEF FeedsInv, Once, Going
  <2>2. (F!Beyond(page.list, page.cur, i) <=> F!Beyond(page.list, page.cur, i)') /\ (Split(i)' <=> Split(i))
    BY <1>1, <1>4 DEF F!Beyond, Split, F!Earlier
  <2> QED BY <1>1, <1>4, <2>1, <2>2 DEF ShownOnce, Going
<1>9. Numbered'
  <2>1. F!Offset("table", Members, page.skip)' = F!Offset("table", Members, page.skip)
    BY <1>1, <1>4, <1>5 DEF F!Offset, F!Precedes, F!MostFirst, F!ByPosition, F!NewestFirst, F!Earlier
  <2>2. Numbered /\ page.pc # "idle" /\ pc # "done"
    BY <1>1 DEF FeedsInv, Going
  <2> QED BY <1>1, <1>4, <1>5, <2>1, <2>2 DEF Numbered
<1> QED BY <1>6, <1>7, <1>8, <1>9 DEF FeedsInv

\* A page of the rows left, and the walk after it.
Shows(left, given, times) ==
  /\ left = F!Remaining(page.list, page.cur, page.skip)
  /\ given = F!First(page.list, left, page.limit)
  /\ given \subseteq left /\ (left # {} => given # {})
  /\ \A i \in given, j \in left \ given : F!Precedes(page.list, i, j)
  /\ times = [i \in F!Rows |-> IF i \in given /\ page.times[i] < 2 THEN page.times[i] + 1 ELSE page.times[i]]
  /\ given = left => page' = [page EXCEPT !.times = times, !.pc = "done"]
  /\ given # left =>
       \E last \in given, pc \in {"profile", "check", "read"}, cut \in SUBSET (0 .. MaxSecond) :
         /\ \A j \in given \ {last} : F!Precedes(page.list, j, last)
         /\ cut = (IF rows[last].at.half > 0 THEN page.cut \cup {rows[last].at.sec} ELSE page.cut)
         /\ page' = [page EXCEPT !.times = times, !.pc = pc, !.cur = F!CursorOf(last),
                                 !.skip = page.skip + page.limit, !.cut = cut]

LEMMA ReadPage ==
  ASSUME FeedsInv, F!Read
  PROVE  \E left \in SUBSET Members, given \in SUBSET F!Rows, times \in [F!Rows -> 0 .. 2] :
             Shows(left, given, times)
<1>1. F!TypeOK /\ Sorted(page.list)
  BY PageTypes, ListsAreSorted DEF FeedsInv
<1>2. PICK left : left = F!Remaining(page.list, page.cur, page.skip)
  OBVIOUS
<1>3. left \in SUBSET Members /\ Members \in SUBSET F!Rows
  BY <1>2 DEF F!Remaining, Members, F!Offset
<1>4. PICK given : given = F!First(page.list, left, page.limit)
  OBVIOUS
<1>5. /\ given \subseteq left /\ (left # {} => given # {})
      /\ \A i \in given, j \in left \ given : F!Precedes(page.list, i, j)
  BY <1>1, <1>3, <1>4, PageTypes, FirstIs
<1>6. PICK times : times = [i \in F!Rows |-> IF i \in given /\ page.times[i] < 2 THEN page.times[i] + 1 ELSE page.times[i]]
  OBVIOUS
<1>7. times \in [F!Rows -> 0 .. 2]
  <2>1. \A i \in F!Rows : page.times[i] \in 0 .. 2
    BY <1>1, PageTypes
  <2> QED BY <1>6, <2>1
<1>8. page' = IF given = left THEN [page EXCEPT !.times = times, !.pc = "done"]
              ELSE [page EXCEPT !.times = times, !.pc = F!Asks, !.cur = F!CursorOf(F!Last(page.list, given)),
                                !.skip = page.skip + page.limit,
                                !.cut = IF rows[F!Last(page.list, given)].at.half > 0
                                        THEN page.cut \cup {rows[F!Last(page.list, given)].at.sec} ELSE page.cut]
  <2>1. PICK last : last = F!Last(page.list, given)
    OBVIOUS
  <2>2. PICK seen : seen = [page EXCEPT !.times = times]
    OBVIOUS
  <2>3. page \in F!Walks
    BY <1>1 DEF F!TypeOK
  <2>4. page' = IF given = left THEN [seen EXCEPT !.pc = "done"]
                ELSE [seen EXCEPT !.pc = F!Asks, !.cur = F!CursorOf(last), !.skip = @ + page.limit,
                                  !.cut = IF rows[last].at.half > 0 THEN @ \cup {rows[last].at.sec} ELSE @]
    BY <1>2, <1>4, <1>6, <2>1, <2>2 DEF F!Read
  <2>5. seen.skip = page.skip /\ seen.cut = page.cut
    BY <2>2, <2>3 DEF F!Walks
  <2> QED BY <2>1, <2>2, <2>3, <2>4, <2>5 DEF F!Walks
<1>9. ASSUME given # left
      PROVE  \E last \in given, pc \in {"profile", "check", "read"}, cut \in SUBSET (0 .. MaxSecond) :
               /\ \A j \in given \ {last} : F!Precedes(page.list, j, last)
               /\ cut = (IF rows[last].at.half > 0 THEN page.cut \cup {rows[last].at.sec} ELSE page.cut)
               /\ page' = [page EXCEPT !.times = times, !.pc = pc, !.cur = F!CursorOf(last),
                                       !.skip = page.skip + page.limit, !.cut = cut]
  <2>1. given # {} /\ given \in SUBSET F!Rows
    BY <1>3, <1>5, <1>9
  <2>2. PICK last : last = F!Last(page.list, given)
    OBVIOUS
  <2>3. last \in given /\ \A j \in given \ {last} : F!Precedes(page.list, j, last)
    BY <1>1, <2>1, <2>2, LastIs
  <2>4. PICK pc : pc = F!Asks
    OBVIOUS
  <2>5. pc \in {"profile", "check", "read"}
    BY <2>4 DEF F!Asks
  <2>6. PICK cut : cut = (IF rows[last].at.half > 0 THEN page.cut \cup {rows[last].at.sec} ELSE page.cut)
    OBVIOUS
  <2>7. cut \in SUBSET (0 .. MaxSecond)
    <3>1. rows[last].at.sec \in 0 .. MaxSecond
      BY <1>1, <2>1, <2>3 DEF F!TypeOK, F!RowRecords, F!Times
    <3> QED BY <1>1, <2>6, <3>1, PageTypes
  <2>8. page' = [page EXCEPT !.times = times, !.pc = pc, !.cur = F!CursorOf(last),
                             !.skip = page.skip + page.limit, !.cut = cut]
    BY <1>8, <1>9, <2>2, <2>4, <2>6
  <2> QED BY <2>3, <2>5, <2>6, <2>7, <2>8
<1>10. given = left => page' = [page EXCEPT !.times = times, !.pc = "done"]
  BY <1>8
<1>11. given \in SUBSET F!Rows
  BY <1>3, <1>5
<1>12. left \in SUBSET Members
  BY <1>3
<1>13. Shows(left, given, times)
  BY <1>2, <1>4, <1>5, <1>6, <1>9, <1>10, Zenon DEF Shows
<1> QED BY <1>7, <1>11, <1>12, <1>13

LEMMA ReadStep ==
  ASSUME FeedsInv, F!Read
  PROVE  FeedsInv'
<1>1. UNCHANGED <<rows, open, now, changes>> /\ F!TypeOK /\ Going /\ page.pc # "idle"
  BY DEF F!Read, FeedsInv, Going
<1>2. PICK left \in SUBSET Members, given \in SUBSET F!Rows, times \in [F!Rows -> 0 .. 2] :
             Shows(left, given, times)
  BY ReadPage, Zenon
<1>3. page \in F!Walks /\ Members \subseteq F!Rows /\ page.steady \subseteq Members /\ left \subseteq F!Rows /\ given \subseteq F!Rows
  BY <1>1, <1>2 DEF F!TypeOK, FeedsInv, SteadyHeld, Members, Shows
<1>4. \A i \in F!Rows : page.times[i] \in 0 .. 2
  BY <1>1, PageTypes
<1>5. page'.list = page.list => Members' = Members
  BY <1>1 DEF Members, F!Holds, F!Listed, F!Trashed, F!Eligible, F!ShownAlbum, F!OnShelf, F!Tabled
<1>a. given \subseteq left
  BY <1>2 DEF Shows
<1>b. \A i \in F!Rows : times[i] = IF i \in given /\ page.times[i] < 2 THEN page.times[i] + 1 ELSE page.times[i]
  BY <1>2 DEF Shows
\* The rows left of a list by cursor.
<1>6. page.list # "table" => left = IF page.cur = F!NoCursor THEN Members ELSE {i \in Members : F!Beyond(page.list, page.cur, i)}
  BY <1>2 DEF F!Remaining, Members, Shows
<1>7. page.list = "table" => left = F!Offset("table", Members, page.skip)
  BY <1>2 DEF F!Remaining, Members, Shows
\* What was shown counts once.
<1>8. ASSUME page.list # "table", NEW i \in page.steady
      PROVE  /\ ShownOnce(i) /\ i \in Members /\ i \in F!Rows
             /\ i \in given => page.times[i] = 0 /\ times[i] = 1
             /\ i \notin given => times[i] = page.times[i]
             /\ i \in left \/ page.times[i] = 1 \/ Split(i)
  <2>1. ShownOnce(i) /\ i \in Members /\ i \in F!Rows
    BY <1>1, <1>3, <1>8 DEF FeedsInv, Once
  <2>2. i \in left => page.times[i] = 0
    BY <1>1, <1>6, <1>8, <2>1 DEF ShownOnce
  <2>3. i \in left \/ page.times[i] = 1 \/ Split(i)
    BY <1>1, <1>6, <1>8, <2>1 DEF ShownOnce
  <2>4. times[i] = IF i \in given /\ page.times[i] < 2 THEN page.times[i] + 1 ELSE page.times[i]
    BY <1>b, <2>1
  <2> QED BY <1>a, <2>1, <2>2, <2>3, <2>4
<1>9. ASSUME page.list = "table", ~page.moved, NEW i \in Members
      PROVE  times[i] = IF i \in left /\ i \notin given THEN 0 ELSE 1
  <2>1. page.times[i] = IF i \in left THEN 0 ELSE 1
    BY <1>1, <1>7, <1>9 DEF FeedsInv, Numbered
  <2>2. times[i] = IF i \in given /\ page.times[i] < 2 THEN page.times[i] + 1 ELSE page.times[i]
    BY <1>3, <1>b, <1>9
  <2> QED BY <1>a, <2>1, <2>2
<1>10. page.list = "table" /\ ~page.moved => page.steady = Members
  BY <1>1 DEF FeedsInv, Numbered
<1>11. CASE given = left
  <2>1. page' = [page EXCEPT !.times = times, !.pc = "done"]
    BY <1>2, <1>11 DEF Shows
  <2>2. page' \in F!Walks
    BY <1>2, <1>3, <2>1 DEF F!Walks, Shows
  <2>3. /\ page'.list = page.list /\ page'.pc = "done" /\ page'.steady = page.steady
        /\ page'.times = times /\ page'.moved = page.moved /\ page'.cut = page.cut
    BY <1>3, <2>1 DEF F!Walks
  <2>4. F!TypeOK'
    BY <1>1, <2>2 DEF F!TypeOK
  <2>5. Unasked' /\ SteadyHeld'
    BY <1>3, <1>5, <2>3 DEF Unasked, SteadyHeld
  <2>6. Once'
    <3> SUFFICES ASSUME page.list # "table", NEW i \in page.steady PROVE ShownOnce(i)'
      BY <2>3 DEF Once
    <3>1. Split(i)' <=> Split(i)
      BY <1>1, <2>3 DEF Split
    <3>2. times[i] \in {0, 1} /\ (times[i] = 1 \/ Split(i))
      BY <1>8, <1>11 DEF ShownOnce
    <3> QED BY <2>3, <3>1, <3>2 DEF ShownOnce, Going
  <2>7. Numbered'
    <3>1. page.list = "table" /\ ~page.moved => \A i \in Members : times[i] = 1
      BY <1>9, <1>11
    <3> QED BY <1>5, <1>10, <2>3, <3>1 DEF Numbered, Going
  <2> QED BY <2>4, <2>5, <2>6, <2>7 DEF FeedsInv
<1>12. CASE given # left
  <2>0. PICK last \in given, pc \in {"profile", "check", "read"}, cut \in SUBSET (0 .. MaxSecond) :
          /\ \A j \in given \ {last} : F!Precedes(page.list, j, last)
          /\ cut = (IF rows[last].at.half > 0 THEN page.cut \cup {rows[last].at.sec} ELSE page.cut)
          /\ page' = [page EXCEPT !.times = times, !.pc = pc, !.cur = F!CursorOf(last),
                                  !.skip = page.skip + page.limit, !.cut = cut]
    BY <1>2, <1>12, Zenon DEF Shows
  <2>1. PICK cursor : cursor = F!CursorOf(last)
    OBVIOUS
  <2>2. cursor \in F!Cursors /\ cursor # F!NoCursor /\ last \in F!Rows
    BY <1>1, <1>3, <2>1, CursorTypes
  <2>3. page' = [page EXCEPT !.times = times, !.pc = pc, !.cur = cursor,
                             !.skip = page.skip + page.limit, !.cut = cut]
    BY <2>0, <2>1
  <2>4. page.skip + page.limit \in Nat
    BY <1>1, PageTypes
  <2>5. page' \in F!Walks
    BY <1>2, <1>3, <2>2, <2>3, <2>4 DEF F!Walks, Shows
  <2>6. /\ page'.list = page.list /\ page'.pc = pc /\ page'.steady = page.steady /\ page'.cur = cursor
        /\ page'.times = times /\ page'.moved = page.moved /\ page'.cut = cut /\ page'.skip = page.skip + page.limit
    BY <1>3, <2>3 DEF F!Walks
  <2>7. F!TypeOK'
    BY <1>1, <2>5 DEF F!TypeOK
  <2>8. Unasked' /\ SteadyHeld'
    BY <1>3, <1>5, <2>6 DEF Unasked, SteadyHeld
  <2>9. Once'
    <3> SUFFICES ASSUME page.list # "table", NEW i \in page.steady PROVE ShownOnce(i)'
      BY <2>6 DEF Once
    <3>1. Split(i) => Split(i)'
      BY <1>1, <2>0, <2>6 DEF Split
    <3>2. F!Beyond(page.list, page.cur, i)' <=> F!Beyond(page.list, cursor, i)
      BY <1>1, <2>6 DEF F!Beyond, F!Earlier
    <3>3. page.list \in F!PagedLists \ {"table"} /\ page.cur \in F!Cursors /\ i \in F!Rows
      BY <1>1, <1>8, PageTypes
    <3>4. /\ (i = last \/ F!Precedes(page.list, i, last)) => ~F!Beyond(page.list, cursor, i)
          /\ F!Precedes(page.list, last, i) => \/ F!Beyond(page.list, cursor, i)
                                               \/ /\ page.list \in {"new", "profile"}
                                                  /\ rows[i].at.sec = rows[last].at.sec /\ rows[last].at.half > 0
          /\ F!Beyond(page.list, page.cur, last) /\ F!Beyond(page.list, cursor, i) => F!Beyond(page.list, page.cur, i)
      BY <1>1, <2>1, <2>2, <3>3, CursorIs
    <3>5. ASSUME i \in given PROVE times[i] = 1 /\ ~F!Beyond(page.list, cursor, i)
      BY <1>8, <2>0, <3>4, <3>5
    <3>6. ASSUME i \notin given, page.times[i] = 1 PROVE times[i] = 1 /\ ~F!Beyond(page.list, cursor, i)
      <4>1. page.cur # F!NoCursor /\ ~F!Beyond(page.list, page.cur, i)
        BY <1>1, <1>8, <3>6 DEF ShownOnce
      <4>2. F!Beyond(page.list, page.cur, last)
        BY <1>2, <1>6, <2>0, <4>1 DEF Shows
      <4> QED BY <1>8, <3>4, <3>6, <4>1, <4>2
    <3>7. ASSUME i \notin given, page.times[i] = 0
          PROVE  times[i] = 0 /\ (F!Beyond(page.list, cursor, i) \/ Split(i)')
      <4>1. CASE i \in left
        <5>1. F!Precedes(page.list, last, i)
          BY <1>2, <2>0, <3>7, <4>1 DEF Shows
        <5>2. F!Beyond(page.list, cursor, i) \/ Split(i)'
          BY <1>1, <2>0, <2>6, <3>4, <5>1 DEF Split
        <5> QED BY <1>8, <3>7, <5>2
      <4>2. CASE Split(i)
        BY <1>8, <3>1, <3>7, <4>2
      <4> QED BY <1>8, <3>7, <4>1, <4>2
    <3>8. page.times[i] \in {0, 1}
      BY <1>8 DEF ShownOnce
    <3> QED BY <2>2, <2>6, <3>2, <3>5, <3>6, <3>7, <3>8 DEF ShownOnce
  <2>10. Numbered'
    <3> SUFFICES ASSUME page.list = "table", ~page.moved
                 PROVE  /\ Cardinality(Members \ F!Offset("table", Members, page.skip + page.limit)) = page.skip + page.limit
                        /\ \A i \in Members :
                             times[i] = IF i \in F!Offset("table", Members, page.skip + page.limit) THEN 0 ELSE 1
      <4>1. F!Offset("table", Members, page.skip)' = F!Offset("table", Members, page.skip + page.limit)
        BY <1>1, <1>5, <2>6 DEF F!Offset, F!Precedes, F!MostFirst, F!ByPosition, F!NewestFirst, F!Earlier
      <4> QED BY <1>5, <1>10, <2>0, <2>6, <4>1 DEF Numbered, Going
    <3>1. Cardinality(Members \ left) = page.skip
      BY <1>1, <1>7 DEF FeedsInv, Numbered
    <3>2. Sorted("table")
      BY <1>1, ListsAreSorted, PageTypes
    <3>3. /\ F!Offset("table", Members, page.skip + page.limit) = left \ given
          /\ Cardinality(Members \ F!Offset("table", Members, page.skip + page.limit)) = page.skip + page.limit
      <4>1. left = F!Offset("table", Members, page.skip) /\ given = F!First("table", left, page.limit)
        BY <1>2, <1>7 DEF Shows
      <4>2. page.skip \in Nat /\ page.limit \in 1 .. 2 /\ Members \in SUBSET F!Rows
        BY <1>1, <1>3, PageTypes
      <4>3. PICK next : next = page.skip + page.limit
        OBVIOUS
      <4>4. Numbers("table", Members, page.skip, page.limit, left, given, next)
        BY <1>12, <3>1, <3>2, <4>1, <4>2, <4>3 DEF Numbers
      <4>5. F!Offset("table", Members, next) = left \ given /\ Cardinality(Members \ (left \ given)) = next
        BY <4>4, OffsetIs
      <4> QED BY <4>3, <4>5
    <3> QED BY <1>9, <3>3
  <2> QED BY <2>7, <2>8, <2>9, <2>10 DEF FeedsInv
<1> QED BY <1>11, <1>12

-----------------------------------------------------------------------------
(* Lists: the rows change.                                                 *)

\* A change of the rows keeps the times of those that are there.
LEMMA RowsStep ==
  ASSUME FeedsInv, F!Walking, F!Disturbed,
         rows' \in [F!Rows -> F!RowRecords], open' \in BOOLEAN, now' \in F!Times, changes' \in 0 .. MaxChanges,
         \A i \in F!Rows : rows[i].st = "there" => rows'[i].at = rows[i].at
  PROVE  FeedsInv'
<1>1. F!TypeOK /\ page \in F!Walks
  BY DEF FeedsInv, F!TypeOK
<1>2. CASE page.pc = "idle"
  <2>1. page' = page
    BY <1>2 DEF F!Disturbed
  <2>2. F!TypeOK'
    BY <1>1, <2>1 DEF F!TypeOK
  <2> QED BY <1>2, <2>1, <2>2 DEF FeedsInv, Unasked, SteadyHeld, Once, Numbered
<1>3. CASE page.pc # "idle"
  <2>1. PICK list \in {page.list} :
          page' = [page EXCEPT
                    !.steady = {i \in page.steady : F!Holds(list, i)' /\ rows'[i].val = rows[i].val},
                    !.moved = page.moved \/ \E i \in F!Rows : F!Holds(list, i)' # F!Holds(list, i) \/ rows'[i].val # rows[i].val]
    BY <1>3 DEF F!Disturbed
  <2>2. PICK steady : steady = {i \in page.steady : F!Holds(list, i)' /\ rows'[i].val = rows[i].val}
    OBVIOUS
  <2>3. PICK moved : moved = (page.moved \/ \E i \in F!Rows : F!Holds(list, i)' # F!Holds(list, i) \/ rows'[i].val # rows[i].val)
    OBVIOUS
  <2>4. page' = [page EXCEPT !.steady = steady, !.moved = moved]
    BY <2>1, <2>2, <2>3
  <2>5. steady \subseteq page.steady /\ steady \subseteq F!Rows /\ moved \in BOOLEAN
    BY <1>1, <2>2, <2>3, PageTypes
  <2>6. page' \in F!Walks
    BY <1>1, <2>4, <2>5 DEF F!Walks
  <2>7. /\ page'.list = page.list /\ page'.pc = page.pc /\ page'.steady = steady /\ page'.cur = page.cur
        /\ page'.skip = page.skip /\ page'.times = page.times /\ page'.moved = moved /\ page'.cut = page.cut
    BY <1>1, <2>4 DEF F!Walks
  <2>8. F!TypeOK'
    BY <2>6 DEF F!TypeOK
  <2>9. Members' = {i \in F!Rows : F!Holds(list, i)'}
    BY <2>1, <2>7 DEF Members, F!Holds, F!Listed, F!Trashed, F!Eligible, F!ShownAlbum, F!OnShelf, F!Tabled
  <2>10. Unasked' /\ SteadyHeld'
    BY <1>3, <2>2, <2>5, <2>7, <2>9 DEF Unasked, SteadyHeld
  <2>11. Once'
    <3> SUFFICES ASSUME page.list # "table", NEW i \in steady PROVE ShownOnce(i)'
      BY <2>7 DEF Once
    <3>1. i \in page.steady /\ rows'[i].val = rows[i].val
      BY <2>2
    <3>2. i \in Members /\ i \in F!Rows /\ rows[i].st = "there" /\ ShownOnce(i)
      BY <1>3, <3>1 DEF FeedsInv, SteadyHeld, Once, Members, F!Holds
    <3>3. rows'[i].at = rows[i].at
      BY <3>2
    <3>4. (F!Beyond(page.list, page.cur, i)' <=> F!Beyond(page.list, page.cur, i)) /\ (Split(i)' <=> Split(i))
      BY <2>7, <3>1, <3>3 DEF F!Beyond, F!Earlier, Split
    <3> QED BY <2>7, <3>2, <3>4 DEF ShownOnce, Going
  <2>12. Numbered'
    <3> SUFFICES ASSUME page.list = "table", ~moved PROVE Numbered'
      BY <2>7 DEF Numbered
    <3>1. ~page.moved /\ \A i \in F!Rows : F!Holds(list, i)' = F!Holds(list, i) /\ rows'[i].val = rows[i].val
      BY <2>3
    <3>2. \A i \in F!Rows : F!Holds(list, i)' <=> F!Holds(list, i)
      BY <3>1
    <3>3. Members' = Members
      BY <2>1, <2>9, <3>2 DEF Members
    <3>4. page.steady = Members /\ Members \subseteq F!Rows
      BY <1>3, <3>1 DEF FeedsInv, Numbered, Members
    <3>5. steady = Members
      BY <2>2, <2>9, <3>1, <3>3, <3>4
    <3>6. \A i, j \in F!Rows : F!Precedes("table", i, j)' <=> F!Precedes("table", i, j)
      BY <3>1 DEF F!Precedes, F!MostFirst, F!ById
    <3>7. F!Offset("table", Members, page.skip)' = F!Offset("table", Members, page.skip)
      <4>1. \A i \in Members : {j \in Members : F!Precedes("table", j, i)'} = {j \in Members : F!Precedes("table", j, i)}
        BY <3>4, <3>6
      <4>2. F!Offset("table", Members, page.skip)' = {i \in Members : Cardinality({j \in Members : F!Precedes("table", j, i)'}) >= page.skip}
        BY SameSizes, <2>7, <3>3 DEF F!Offset
      <4> QED BY SameSizes, <4>1, <4>2 DEF F!Offset
    <3> QED BY <1>3, <2>7, <3>1, <3>3, <3>5, <3>7 DEF Numbered, Going, FeedsInv
  <2> QED BY <2>8, <2>10, <2>11, <2>12 DEF FeedsInv
<1> QED BY <1>2, <1>3

LEMMA ChangeStep ==
  ASSUME FeedsInv, NEW i \in F!Rows, NEW v \in F!ValuesSeen, NEW bar \in F!Bars,
         F!Create(i, v) \/ F!Revalue(i, v) \/ F!Bar(i, bar) \/ F!Remove(i)
  PROVE  FeedsInv'
<1>1. rows \in [F!Rows -> F!RowRecords] /\ open \in BOOLEAN /\ now \in F!Times /\ changes \in 0 .. MaxChanges
  BY DEF FeedsInv, F!TypeOK
<1>2. v \in F!Values
  BY FeedsAssumption DEF F!ValuesSeen, F!Values, FeedsAssumption
<1>3. F!Walking /\ F!Disturbed /\ UNCHANGED <<open, now>>
  BY DEF F!Create, F!Revalue, F!Bar, F!Remove, F!Changing
<1>4. changes' \in 0 .. MaxChanges
  <2>1. changes' = changes \/ (changes < MaxChanges /\ changes' = changes + 1)
    BY DEF F!Create, F!Revalue, F!Bar, F!Remove, F!Changing
  <2> QED BY <1>1, <2>1, FeedsAssumption DEF FeedsAssumption
<1>5. \E r \in F!RowRecords : rows' = [rows EXCEPT ![i] = r] /\ (rows[i].st = "there" => r.at = rows[i].at)
  <2>0. rows[i] \in F!RowRecords
    BY <1>1
  <2>1. CASE F!Create(i, v)
    <3>1. [st |-> "there", bars |-> {}, at |-> now, val |-> v] \in F!RowRecords
      BY <1>1, <1>2 DEF F!RowRecords
    <3> QED BY <2>1, <3>1 DEF F!Create
  <2>2. CASE F!Revalue(i, v)
    <3>1. PICK r : r = [rows[i] EXCEPT !.val = v]
      OBVIOUS
    <3>2. r \in F!RowRecords /\ r.at = rows[i].at
      BY <1>2, <2>0, <3>1 DEF F!RowRecords
    <3>3. rows' = [rows EXCEPT ![i] = r]
      BY <1>1, <2>2, <3>1 DEF F!Revalue
    <3> QED BY <3>2, <3>3
  <2>3. CASE F!Bar(i, bar)
    <3>0. PICK bars : bars = (IF bar \in rows[i].bars THEN rows[i].bars \ {bar} ELSE rows[i].bars \cup {bar})
      OBVIOUS
    <3>1. PICK r : r = [rows[i] EXCEPT !.bars = bars]
      OBVIOUS
    <3>2. bars \in SUBSET F!Bars
      BY <2>0, <3>0 DEF F!RowRecords
    <3>3. r \in F!RowRecords /\ r.at = rows[i].at
      BY <2>0, <3>1, <3>2 DEF F!RowRecords
    <3>4. rows' = [rows EXCEPT ![i] = r]
      BY <1>1, <2>3, <3>0, <3>1 DEF F!Bar
    <3> QED BY <3>3, <3>4
  <2>4. CASE F!Remove(i)
    <3>1. PICK r : r = [rows[i] EXCEPT !.st = "gone"]
      OBVIOUS
    <3>2. r \in F!RowRecords /\ r.at = rows[i].at
      BY <2>0, <3>1 DEF F!RowRecords
    <3>3. rows' = [rows EXCEPT ![i] = r]
      BY <1>1, <2>4, <3>1 DEF F!Remove
    <3> QED BY <3>2, <3>3
  <2> QED BY <2>1, <2>2, <2>3, <2>4
<1>6. /\ rows' \in [F!Rows -> F!RowRecords]
      /\ \A j \in F!Rows : rows[j].st = "there" => rows'[j].at = rows[j].at
  BY <1>1, <1>5
<1> QED BY <1>1, <1>3, <1>4, <1>6, RowsStep

LEMMA FeedsStep ==
  ASSUME FeedsInv, [F!Next]_(F!rows)
  PROVE  FeedsInv'
<1>1. rows \in [F!Rows -> F!RowRecords] /\ open \in BOOLEAN /\ now \in F!Times /\ changes \in 0 .. MaxChanges
  BY DEF FeedsInv, F!TypeOK
<1>2. CASE F!Switch
  <2>1. F!Walking /\ F!Disturbed /\ UNCHANGED <<rows, now>> /\ open' = ~open /\ changes < MaxChanges /\ changes' = changes + 1
    BY <1>2 DEF F!Switch, F!Changing
  <2>2. changes' \in 0 .. MaxChanges
    BY <1>1, <2>1, FeedsAssumption DEF FeedsAssumption
  <2>3. \A i \in F!Rows : rows[i].st = "there" => rows'[i].at = rows[i].at
    BY <2>1
  <2> QED BY <1>1, <2>1, <2>2, <2>3, RowsStep
<1>3. CASE now' \in F!Times /\ UNCHANGED <<rows, open, page, changes>>
  <2>1. F!TypeOK'
    BY <1>1, <1>3 DEF F!TypeOK, FeedsInv
  <2>2. Members' = Members /\ Going' = Going
    BY <1>3 DEF Members, Going, F!Holds, F!Listed, F!Trashed, F!Eligible, F!ShownAlbum, F!OnShelf, F!Tabled
  <2>3. \A i : ShownOnce(i)' <=> ShownOnce(i)
    BY <1>3, <2>2 DEF ShownOnce, F!Beyond, F!Earlier, Split
  <2>4. F!Offset("table", Members, page.skip)' = F!Offset("table", Members, page.skip)
    BY <1>3, <2>2 DEF F!Offset, F!Precedes, F!MostFirst, F!ByPosition, F!NewestFirst, F!Earlier
  <2> QED BY <1>3, <2>1, <2>2, <2>3, <2>4 DEF FeedsInv, Unasked, SteadyHeld, Once, Numbered
<1>4. CASE F!Tick
  <2>1. now' \in F!Times /\ UNCHANGED <<rows, open, page, changes>>
    BY <1>4 DEF F!Tick
  <2> QED BY <1>3, <2>1
<1>5. CASE UNCHANGED F!rows
  <2>1. now' \in F!Times /\ UNCHANGED <<rows, open, page, changes>>
    BY <1>1, <1>5 DEF F!rows
  <2> QED BY <1>3, <2>1
<1>6. CASE \E limit \in 1 .. 2 : F!Open(limit)
  BY <1>6, OpenStep
<1>7. CASE F!UserPublic \/ F!Check
  BY <1>7, GoStep
<1>8. CASE F!Read
  BY <1>8, ReadStep
<1>9. ASSUME NEW i \in F!Rows, NEW v \in F!ValuesSeen, F!Create(i, v) \/ F!Revalue(i, v) PROVE FeedsInv'
  <2>1. "trash" \in F!Bars
    BY DEF F!Bars
  <2> QED BY <1>9, <2>1, ChangeStep
<1>10. ASSUME NEW i \in F!Rows, NEW bar \in F!Bars, F!Bar(i, bar) \/ F!Remove(i) PROVE FeedsInv'
  <2>1. 0 \in F!ValuesSeen
    BY FeedsAssumption DEF F!ValuesSeen, F!Values, FeedsAssumption
  <2> QED BY <1>10, <2>1, ChangeStep
<1>11. ASSUME NEW i \in F!Rows, F!Remove(i) PROVE FeedsInv'
  <2>1. "trash" \in F!Bars
    BY DEF F!Bars
  <2> QED BY <1>10, <1>11, <2>1
<1> QED BY <1>2, <1>4, <1>5, <1>6, <1>7, <1>8, <1>9, <1>10, <1>11 DEF F!Next

LEMMA FeedsInvIs ==
  ASSUME FeedsInv
  PROVE  F!TypeOK /\ F!ListsAreComplete
<1>1. F!TypeOK
  BY DEF FeedsInv
<1>2. ASSUME page.pc = "done", ~(page.list = "table" /\ page.moved)
      PROVE  F!Twice = {} /\ \A i \in F!Missed : page.list \in {"new", "profile"} /\ rows[i].at.sec \in page.cut
  <2>1. CASE page.list # "table"
    <3>1. \A i \in page.steady : ShownOnce(i)
      BY <1>2, <2>1 DEF FeedsInv, Once
    <3> QED BY <1>2, <3>1 DEF ShownOnce, Split, F!Twice, F!Missed
  <2>2. CASE page.list = "table"
    <3>1. \A i \in page.steady : page.times[i] = 1
      BY <1>1, <1>2, <2>2, PageTypes DEF FeedsInv, Numbered
    <3> QED BY <3>1 DEF F!Twice, F!Missed
  <2> QED BY <2>1, <2>2
<1> QED BY <1>1, <1>2 DEF F!ListsAreComplete

-----------------------------------------------------------------------------
(* Delivery.                                                               *)

\* What a request holds that nothing crossed is what the tables say now.
Current(r) ==
  LET q == fetch[r] IN
  /\ q.pc \in {"policy", "cdn", "sign", "stream"} => q.policy \in Policies
  /\ ~q.crossed =>
       /\ q.pc \in {"file", "policy", "cdn", "sign", "stream"} => q.image = shown
       /\ q.pc \in {"policy", "cdn", "sign", "stream"} => q.policy = home[shown.file]
       /\ q.pc \in {"cdn", "sign", "stream"} => q.row = policy[q.policy]
       /\ q.pc = "sign" => ~shown.public
       /\ q.pc = "done" =>
            CASE q.way = "cdn" ->
                   shown.public /\ ~shown.limited /\ shown.file # "private" /\ policy[home[shown.file]].cdn
              [] q.way = "signed" ->
                   /\ ~shown.public /\ policy[home[shown.file]].config.signs
                   /\ q.end = policy[home[shown.file]].config.end
              [] OTHER -> q.end = policy[home[shown.file]].config.end

\* A probe passes last, and knows where its policy points to.
Probed ==
  /\ probe.pc # "idle" => probe.policy \in Policies
  /\ probe.passed => probe.pc = "done" /\ ~probe.left
  /\ probe.pc # "idle" /\ ~probe.crossed => probe.end = policy[probe.policy].config.end

DeliveryInv == P!TypeOK /\ (\A r \in Requests : Current(r)) /\ Probed

LEMMA DeliveryValues ==
  /\ P!AnyConfig \in P!Configs /\ P!NewImage \in P!ImageRecords /\ P!NoRow \in P!RowRecords
  /\ P!Idle \in P!ReqRecords /\ P!Idle.pc = "idle" /\ ~P!Idle.crossed
  /\ P!NoProbe \in P!ProbeRecords /\ P!NoProbe.pc = "idle" /\ ~P!NoProbe.passed
  /\ 0 \notin Policies
<1>1. (CHOOSE e \in Endpoints : TRUE) \in Endpoints
  BY DeliveryAssumption DEF DeliveryAssumption
<1>2. P!AnyConfig \in P!Configs
  BY <1>1 DEF P!AnyConfig, P!Configs
<1>3. P!NewImage \in P!ImageRecords /\ P!NoRow \in P!RowRecords
  BY <1>2 DEF P!NewImage, P!ImageRecords, P!Files, P!NoRow, P!RowRecords
<1>4. P!Idle \in P!ReqRecords /\ P!Idle.pc = "idle" /\ ~P!Idle.crossed
  BY <1>3 DEF P!Idle, P!ReqRecords
<1>5. P!NoProbe \in P!ProbeRecords /\ P!NoProbe.pc = "idle" /\ ~P!NoProbe.passed
  BY DEF P!NoProbe, P!ProbeRecords
<1> QED BY <1>2, <1>3, <1>4, <1>5, DeliveryAssumption DEF DeliveryAssumption

LEMMA DeliveryInit == P!Init => DeliveryInv
<1> SUFFICES ASSUME P!Init PROVE DeliveryInv
  OBVIOUS
<1>1. PICK f \in P!Files, p \in Policies :
        /\ shown = [P!NewImage EXCEPT !.public = f # "private", !.file = f]
        /\ home = [g \in P!Files |-> IF g = f THEN p ELSE 0]
  BY DEF P!Init
<1>2. shown \in P!ImageRecords
  BY <1>1, DeliveryValues DEF P!ImageRecords
<1>3. home \in [P!Files -> Policies \cup {0}]
  BY <1>1
<1>4. policy \in [Policies -> P!RowRecords] /\ built \in [Policies -> P!Configs \cup {P!NoDriver}]
      /\ fetch \in [Requests -> P!ReqRecords] /\ probe \in P!ProbeRecords /\ edits \in 0 .. MaxEdits
  BY DeliveryValues, DeliveryAssumption DEF P!Init, DeliveryAssumption
<1>5. \A r \in Requests : fetch[r].pc = "idle"
  BY DeliveryValues DEF P!Init
<1>6. Probed
  BY DeliveryValues DEF P!Init, Probed
<1> QED BY <1>2, <1>3, <1>4, <1>5, <1>6 DEF DeliveryInv, P!TypeOK, Current

-----------------------------------------------------------------------------
\* One request moves on, the tables stay.
LEMMA RequestMoves ==
  ASSUME DeliveryInv, NEW r \in Requests, NEW q \in P!ReqRecords, fetch' = [fetch EXCEPT ![r] = q],
         UNCHANGED <<policy, shown, home, probe, edits>>,
         built' \in [Policies -> P!Configs \cup {P!NoDriver}],
         Current(r)'
  PROVE  DeliveryInv'
<1>1. fetch' \in [Requests -> P!ReqRecords] /\ \A o \in Requests : o # r => fetch'[o] = fetch[o]
  BY DEF DeliveryInv, P!TypeOK
<1>2. P!TypeOK'
  BY <1>1 DEF DeliveryInv, P!TypeOK
<1>3. \A o \in Requests : Current(o)'
  BY <1>1 DEF DeliveryInv, Current
<1> QED BY <1>2, <1>3 DEF DeliveryInv, Probed

LEMMA DriverIs ==
  ASSUME DeliveryInv, NEW r \in Requests, fetch[r].policy \in Policies
  PROVE  /\ P!Driver(r) = fetch[r].row.config /\ P!Driver(r) \in P!Configs
         /\ P!Keeps(r) => built' \in [Policies -> P!Configs \cup {P!NoDriver}]
<1>1. fetch[r] \in P!ReqRecords
  BY DEF DeliveryInv, P!TypeOK
<1>2. fetch[r].row.config \in P!Configs
  BY <1>1 DEF P!ReqRecords, P!RowRecords
<1>3. P!Driver(r) = fetch[r].row.config
  BY DEF P!Driver, P!Hit
<1> QED BY <1>2, <1>3 DEF P!Keeps, DeliveryInv, P!TypeOK

LEMMA AnswersIs ==
  ASSUME DeliveryInv, NEW r \in Requests, NEW way \in {"cdn", "signed", "stream"}, NEW end \in Endpoints \cup {"none"},
         P!Answers(r, way, end)
  PROVE  \E q \in P!ReqRecords : /\ fetch' = [fetch EXCEPT ![r] = q] /\ fetch'[r] = q
                                 /\ q.pc = "done" /\ q.way = way /\ q.end = end /\ q.crossed = fetch[r].crossed
<1>1. PICK q : q = [P!Idle EXCEPT !.pc = "done", !.way = way, !.end = end, !.crossed = fetch[r].crossed]
  OBVIOUS
<1>2. fetch[r].crossed \in BOOLEAN
  BY DEF DeliveryInv, P!TypeOK, P!ReqRecords
<1>3. q \in P!ReqRecords /\ q.pc = "done" /\ q.way = way /\ q.end = end /\ q.crossed = fetch[r].crossed
  BY <1>1, <1>2, DeliveryValues DEF P!ReqRecords
<1>4. fetch' = [fetch EXCEPT ![r] = q]
  BY <1>1 DEF P!Answers
<1> QED BY <1>3, <1>4 DEF DeliveryInv, P!TypeOK

LEMMA ServeKeeps ==
  ASSUME DeliveryInv, NEW r \in Requests, P!Serve(r)
  PROVE  DeliveryInv'
<1> /\ fetch \in [Requests -> P!ReqRecords] /\ fetch[r] \in P!ReqRecords
    /\ built \in [Policies -> P!Configs \cup {P!NoDriver}]
    /\ shown \in P!ImageRecords /\ home \in [P!Files -> Policies \cup {0}] /\ policy \in [Policies -> P!RowRecords]
  BY DEF DeliveryInv, P!TypeOK
<1> Current(r)
  BY DEF DeliveryInv
<1>a. shown.file \in P!Files /\ fetch[r].image \in P!ImageRecords /\ fetch[r].image.file \in P!Files
      /\ fetch[r].row \in P!RowRecords
  BY DEF P!ImageRecords, P!ReqRecords
<1>1. CASE P!Find(r)
  <2>1. PICK q : q = [P!Idle EXCEPT !.pc = "file", !.image = shown]
    OBVIOUS
  <2>2. q \in P!ReqRecords /\ q.pc = "file" /\ q.image = shown
    BY <2>1, DeliveryValues DEF P!ReqRecords
  <2>3. fetch' = [fetch EXCEPT ![r] = q] /\ UNCHANGED <<policy, built, shown, home, probe, edits>>
    BY <1>1, <2>1 DEF P!Find
  <2>4. Current(r)'
    BY <2>2, <2>3 DEF Current
  <2> QED BY <2>2, <2>3, <2>4, RequestMoves
<1>2. CASE P!LoadFile(r)
  <2>1. PICK p : p = home[fetch[r].image.file]
    OBVIOUS
  <2>2. p \in Policies \cup {0}
    BY <1>a, <2>1
  <2>3. PICK q : q = IF p = 0 THEN P!Idle ELSE [fetch[r] EXCEPT !.pc = "policy", !.policy = p]
    OBVIOUS
  <2>4. /\ q \in P!ReqRecords
        /\ p # 0 => q.pc = "policy" /\ q.policy = p /\ q.crossed = fetch[r].crossed /\ q.image = fetch[r].image
        /\ p = 0 => q.pc = "idle"
    BY <2>2, <2>3, DeliveryValues DEF P!ReqRecords
  <2>5. fetch' = [fetch EXCEPT ![r] = q] /\ UNCHANGED <<policy, built, shown, home, probe, edits>> /\ fetch[r].pc = "file"
    BY <1>2, <2>1, <2>3 DEF P!LoadFile, P!At
  <2>6. p # 0 => p \in Policies
    BY <2>2
  <2>7. Current(r)'
    BY <2>1, <2>4, <2>5, <2>6 DEF Current
  <2> QED BY <2>4, <2>5, <2>7, RequestMoves
<1>3. CASE P!LoadPolicy(r)
  <2>1. /\ fetch[r].pc = "policy" /\ fetch[r].policy \in Policies
        /\ UNCHANGED <<policy, built, shown, home, probe, edits>>
    BY <1>3 DEF P!LoadPolicy, P!At, Current
  <2>2. PICK q : q = [fetch[r] EXCEPT !.pc = "cdn", !.row = policy[fetch[r].policy]]
    OBVIOUS
  <2>3. policy[fetch[r].policy] \in P!RowRecords
    BY <2>1
  <2>4. /\ q \in P!ReqRecords /\ q.pc = "cdn" /\ q.row = policy[fetch[r].policy] /\ q.policy = fetch[r].policy
        /\ q.image = fetch[r].image /\ q.crossed = fetch[r].crossed
    BY <2>2, <2>3 DEF P!ReqRecords
  <2>5. fetch' = [fetch EXCEPT ![r] = q]
    BY <1>3, <2>2 DEF P!LoadPolicy
  <2>6. Current(r)'
    BY <2>1, <2>4, <2>5 DEF Current
  <2> QED BY <2>1, <2>4, <2>5, <2>6, RequestMoves
<1>4. CASE P!Redirect(r)
  <2>1. fetch[r].pc = "cdn" /\ UNCHANGED <<policy, built, shown, home, probe, edits>>
    BY <1>4 DEF P!Redirect, P!At
  <2>2. CASE /\ ~fetch[r].image.limited /\ fetch[r].image.public /\ fetch[r].image.file \in {"old", "public"}
             /\ P!ObjectURL(fetch[r].row, fetch[r].image.file)
    <3>1. P!Answers(r, "cdn", "none") /\ fetch[r].row.cdn
      BY <1>4, <2>2 DEF P!Redirect, P!ObjectURL
    <3>2. PICK q \in P!ReqRecords : /\ fetch' = [fetch EXCEPT ![r] = q] /\ fetch'[r] = q
                                    /\ q.pc = "done" /\ q.way = "cdn" /\ q.end = "none" /\ q.crossed = fetch[r].crossed
      BY <3>1, AnswersIs
    <3>3. ~fetch[r].crossed => /\ fetch[r].image = shown /\ fetch[r].policy = home[shown.file]
                               /\ fetch[r].row = policy[home[shown.file]]
      BY <2>1 DEF Current
    <3>4. Current(r)'
      BY <2>1, <2>2, <3>1, <3>2, <3>3 DEF Current
    <3> QED BY <2>1, <3>2, <3>4, RequestMoves
  <2>3. CASE ~(/\ ~fetch[r].image.limited /\ fetch[r].image.public /\ fetch[r].image.file \in {"old", "public"}
               /\ P!ObjectURL(fetch[r].row, fetch[r].image.file))
    <3>1. PICK q : q = [fetch[r] EXCEPT !.pc = IF fetch[r].image.public THEN "stream" ELSE "sign"]
      OBVIOUS
    <3>2. /\ q \in P!ReqRecords /\ q.pc = (IF fetch[r].image.public THEN "stream" ELSE "sign")
          /\ q.row = fetch[r].row /\ q.policy = fetch[r].policy /\ q.image = fetch[r].image /\ q.crossed = fetch[r].crossed
      BY <3>1 DEF P!ReqRecords
    <3>3. fetch' = [fetch EXCEPT ![r] = q]
      BY <1>4, <2>3, <3>1 DEF P!Redirect
    <3>4. fetch'[r] = q
      BY <3>3
    <3>5. Current(r)'
      BY <2>1, <3>2, <3>4 DEF Current
    <3> QED BY <2>1, <3>2, <3>3, <3>5, RequestMoves
  <2> QED BY <2>2, <2>3
<1>5. CASE P!Presign(r)
  <2>1. fetch[r].pc = "sign" /\ UNCHANGED <<policy, shown, home, probe, edits>> /\ fetch[r].policy \in Policies
    BY <1>5 DEF P!Presign, P!At, Current
  <2>2. built' \in [Policies -> P!Configs \cup {P!NoDriver}]
    BY <1>5, <2>1, DriverIs DEF P!Presign
  <2>3. CASE P!Driver(r).signs /\ P!Answers(r, "signed", P!Driver(r).end)
    <3>1. P!Driver(r).end \in Endpoints
      BY <2>1, DriverIs DEF P!Configs
    <3>2. PICK q \in P!ReqRecords : /\ fetch' = [fetch EXCEPT ![r] = q] /\ fetch'[r] = q
                                    /\ q.pc = "done" /\ q.way = "signed" /\ q.end = P!Driver(r).end
                                    /\ q.crossed = fetch[r].crossed
      BY <2>3, <3>1, AnswersIs
    <3>3. ~fetch[r].crossed => ~shown.public /\ fetch[r].row = policy[home[shown.file]]
      BY <2>1 DEF Current
    <3>4. P!Driver(r) = fetch[r].row.config
      BY <2>1, DriverIs
    <3>5. Current(r)'
      BY <2>1, <2>3, <3>2, <3>3, <3>4 DEF Current
    <3> QED BY <2>1, <2>2, <3>2, <3>5, RequestMoves
  <2>4. CASE fetch' = [fetch EXCEPT ![r].pc = "stream"]
    <3>1. PICK q : q = [fetch[r] EXCEPT !.pc = "stream"]
      OBVIOUS
    <3>2. /\ q \in P!ReqRecords /\ q.pc = "stream"
          /\ q.row = fetch[r].row /\ q.policy = fetch[r].policy /\ q.image = fetch[r].image /\ q.crossed = fetch[r].crossed
      BY <3>1 DEF P!ReqRecords
    <3>3. fetch' = [fetch EXCEPT ![r] = q]
      BY <2>4, <3>1
    <3>4. Current(r)'
      BY <2>1, <3>2, <3>3 DEF Current
    <3> QED BY <2>1, <2>2, <3>2, <3>3, <3>4, RequestMoves
  <2> QED BY <1>5, <2>3, <2>4 DEF P!Presign
<1>6. CASE P!Stream(r)
  <2>1. fetch[r].pc = "stream" /\ UNCHANGED <<policy, shown, home, probe, edits>> /\ fetch[r].policy \in Policies
    BY <1>6 DEF P!Stream, P!At, Current
  <2>2. built' \in [Policies -> P!Configs \cup {P!NoDriver}]
    BY <1>6, <2>1, DriverIs DEF P!Stream
  <2>3. CASE P!Answers(r, "stream", P!Driver(r).end)
    <3>1. P!Driver(r).end \in Endpoints
      BY <2>1, DriverIs DEF P!Configs
    <3>2. PICK q \in P!ReqRecords : /\ fetch' = [fetch EXCEPT ![r] = q] /\ fetch'[r] = q
                                    /\ q.pc = "done" /\ q.way = "stream" /\ q.end = P!Driver(r).end
                                    /\ q.crossed = fetch[r].crossed
      BY <2>3, <3>1, AnswersIs
    <3>3. ~fetch[r].crossed => fetch[r].row = policy[home[shown.file]]
      BY <2>1 DEF Current
    <3>4. P!Driver(r) = fetch[r].row.config
      BY <2>1, DriverIs
    <3>5. Current(r)'
      BY <2>1, <3>2, <3>3, <3>4 DEF Current
    <3> QED BY <2>1, <2>2, <3>2, <3>5, RequestMoves
  <2>4. CASE fetch' = [fetch EXCEPT ![r] = P!Idle]
    <3>1. Current(r)'
      BY <2>4, DeliveryValues DEF Current
    <3> QED BY <2>1, <2>2, <2>4, <3>1, DeliveryValues, RequestMoves
  <2> QED BY <1>6, <2>3, <2>4 DEF P!Stream
<1>7. CASE P!Finish(r)
  <2>1. fetch' = [fetch EXCEPT ![r] = P!Idle] /\ UNCHANGED <<policy, built, shown, home, probe, edits>>
    BY <1>7 DEF P!Finish
  <2>2. Current(r)'
    BY <2>1, DeliveryValues DEF Current
  <2> QED BY <2>1, <2>2, DeliveryValues, RequestMoves
<1> QED BY <1>1, <1>2, <1>3, <1>4, <1>5, <1>6, <1>7 DEF P!Serve

-----------------------------------------------------------------------------
LEMMA ProbeMoves ==
  ASSUME DeliveryInv, probe' \in P!ProbeRecords, Probed', UNCHANGED <<policy, built, shown, home, fetch, edits>>
  PROVE  DeliveryInv'
BY DEF DeliveryInv, P!TypeOK, Current

LEMMA ProbingKeeps ==
  ASSUME DeliveryInv, P!ProbePut \/ P!ProbeOpen \/ P!ProbeDelete \/ P!ProbeFinish \/ \E p \in Policies : P!TestPolicy(p)
  PROVE  DeliveryInv'
<1> probe \in P!ProbeRecords /\ Probed /\ policy \in [Policies -> P!RowRecords]
  BY DEF DeliveryInv, P!TypeOK
<1> UNCHANGED <<policy, built, shown, home, fetch, edits>>
  BY Zenon DEF P!ProbePut, P!ProbeOpen, P!ProbeDelete, P!ProbeFinish, P!TestPolicy
<1>1. CASE probe' = P!NoProbe
  <2>1. Probed'
    BY <1>1, DeliveryValues DEF Probed
  <2> QED BY <1>1, <2>1, DeliveryValues, ProbeMoves
<1>2. ASSUME NEW x \in BOOLEAN, NEW y \in BOOLEAN, NEW pc \in {"open", "delete", "done"},
             probe' = [probe EXCEPT !.pc = pc, !.left = x, !.passed = y], probe.pc # "idle",
             y => pc = "done" /\ ~x
      PROVE  DeliveryInv'
  <2>1. /\ probe' \in P!ProbeRecords /\ probe'.pc = pc /\ probe'.left = x /\ probe'.passed = y
        /\ probe'.policy = probe.policy /\ probe'.end = probe.end /\ probe'.crossed = probe.crossed
    BY <1>2 DEF P!ProbeRecords
  <2>2. Probed'
    BY <1>2, <2>1 DEF Probed
  <2> QED BY <2>1, <2>2, ProbeMoves
<1>3. CASE probe' \in P!Perhaps(probe) /\ probe.pc \in {"put", "open", "delete"}
  <2>1. PICK x \in BOOLEAN : probe' = [probe EXCEPT !.pc = "done", !.left = x]
    BY <1>3 DEF P!Perhaps
  <2>2. probe.passed = FALSE
    BY <1>3 DEF Probed, P!ProbeRecords
  <2>3. probe' = [probe EXCEPT !.pc = "done", !.left = x, !.passed = FALSE]
    BY <2>1, <2>2 DEF P!ProbeRecords
  <2> QED BY <1>2, <1>3, <2>3
<1>4. CASE P!ProbePut
  <2>1. CASE probe' = [probe EXCEPT !.pc = "open", !.left = TRUE]
    <3>1. probe.passed = FALSE /\ probe.pc = "put"
      BY <1>4 DEF Probed, P!ProbeRecords, P!ProbePut
    <3>2. probe' = [probe EXCEPT !.pc = "open", !.left = TRUE, !.passed = FALSE]
      BY <2>1, <3>1 DEF P!ProbeRecords
    <3> QED BY <1>2, <3>1, <3>2
  <2> QED BY <1>3, <1>4, <2>1 DEF P!ProbePut
<1>5. CASE P!ProbeOpen
  <2>1. CASE probe' = [probe EXCEPT !.pc = "delete"]
    <3>1. probe.passed = FALSE /\ probe.pc = "open" /\ probe.left \in BOOLEAN
      BY <1>5 DEF Probed, P!ProbeRecords, P!ProbeOpen
    <3>2. PICK x \in BOOLEAN : x = probe.left
      BY <3>1
    <3>3. probe' = [probe EXCEPT !.pc = "delete", !.left = x, !.passed = FALSE]
      BY <2>1, <3>1, <3>2 DEF P!ProbeRecords
    <3> QED BY <1>2, <3>1, <3>3
  <2> QED BY <1>3, <1>5, <2>1 DEF P!ProbeOpen
<1>6. CASE P!ProbeDelete
  <2>1. CASE probe' = [probe EXCEPT !.pc = "done", !.left = FALSE, !.passed = TRUE]
    BY <1>2, <1>6, <2>1 DEF P!ProbeDelete
  <2> QED BY <1>3, <1>6, <2>1 DEF P!ProbeDelete
<1>7. ASSUME NEW p \in Policies, P!TestPolicy(p) PROVE DeliveryInv'
  <2>1. PICK q : q = [P!NoProbe EXCEPT !.pc = "put", !.policy = p, !.end = policy[p].config.end]
    OBVIOUS
  <2>2. policy[p].config.end \in Endpoints
    BY DEF P!RowRecords, P!Configs
  <2>3. q \in P!ProbeRecords /\ q.pc = "put" /\ q.policy = p /\ q.end = policy[p].config.end /\ q.passed = FALSE
    BY <2>1, <2>2 DEF P!ProbeRecords, P!NoProbe
  <2>4. probe' = q
    BY <1>7, <2>1 DEF P!TestPolicy
  <2>5. Probed'
    BY <2>3, <2>4 DEF Probed
  <2> QED BY <2>3, <2>4, <2>5, ProbeMoves
<1> QED BY <1>1, <1>4, <1>5, <1>6, <1>7 DEF P!ProbeFinish

-----------------------------------------------------------------------------
\* Whatever changes crosses everybody who is under way.
LEMMA ChangesKeep ==
  ASSUME DeliveryInv, P!Changes, UNCHANGED built,
         policy' \in [Policies -> P!RowRecords], shown' \in P!ImageRecords, home' \in [P!Files -> Policies \cup {0}]
  PROVE  DeliveryInv'
<1> /\ fetch \in [Requests -> P!ReqRecords] /\ probe \in P!ProbeRecords /\ edits \in 0 .. MaxEdits
    /\ built \in [Policies -> P!Configs \cup {P!NoDriver}] /\ MaxEdits \in Nat
  BY DeliveryAssumption DEF DeliveryInv, P!TypeOK, DeliveryAssumption
<1>1. edits' \in 0 .. MaxEdits
  BY DEF P!Changes
<1>2. ASSUME NEW r \in Requests
      PROVE  /\ fetch'[r] \in P!ReqRecords /\ Current(r)'
  <2>1. CASE P!At(r, "idle")
    <3>1. fetch'[r] = fetch[r]
      BY <2>1 DEF P!Changes
    <3> QED BY <2>1, <3>1 DEF P!At, Current
  <2>2. CASE ~P!At(r, "idle")
    <3>1. fetch'[r] = [fetch[r] EXCEPT !.crossed = TRUE] /\ fetch[r] \in P!ReqRecords
      BY <2>2 DEF P!Changes
    <3>2. /\ fetch'[r] \in P!ReqRecords /\ fetch'[r].crossed
          /\ fetch'[r].pc = fetch[r].pc /\ fetch'[r].policy = fetch[r].policy
      BY <3>1 DEF P!ReqRecords
    <3>3. fetch[r].pc \in {"policy", "cdn", "sign", "stream"} => fetch[r].policy \in Policies
      BY DEF DeliveryInv, Current
    <3> QED BY <3>2, <3>3 DEF Current
  <2> QED BY <2>1, <2>2
<1>3. fetch' \in [Requests -> P!ReqRecords]
  BY <1>2 DEF P!Changes
<1>4. probe' \in P!ProbeRecords /\ Probed'
  <2>1. CASE probe.pc = "idle"
    BY <2>1 DEF P!Changes, DeliveryInv, Probed
  <2>2. CASE probe.pc # "idle"
    <3>1. probe' = [probe EXCEPT !.crossed = TRUE]
      BY <2>2 DEF P!Changes
    <3>2. /\ probe' \in P!ProbeRecords /\ probe'.crossed /\ probe'.pc = probe.pc /\ probe'.policy = probe.policy
          /\ probe'.passed = probe.passed /\ probe'.left = probe.left
      BY <3>1 DEF P!ProbeRecords
    <3> QED BY <2>2, <3>2 DEF DeliveryInv, Probed
  <2> QED BY <2>1, <2>2
<1> QED BY <1>1, <1>2, <1>3, <1>4 DEF DeliveryInv, P!TypeOK

LEMMA EditsKeep ==
  ASSUME DeliveryInv
  PROVE  /\ \A p \in Policies : P!UpdatePolicy(p) \/ P!Migrate(p) => DeliveryInv'
         /\ P!Update \/ P!Restart => DeliveryInv'
<1> /\ policy \in [Policies -> P!RowRecords] /\ shown \in P!ImageRecords /\ home \in [P!Files -> Policies \cup {0}]
    /\ edits \in 0 .. MaxEdits /\ MaxEdits \in Nat
  BY DeliveryAssumption DEF DeliveryInv, P!TypeOK, DeliveryAssumption
<1>1. ASSUME NEW p \in Policies, P!UpdatePolicy(p) PROVE DeliveryInv'
  <2>1. policy[p] \in P!RowRecords
    OBVIOUS
  <2>2. policy' \in [Policies -> P!RowRecords]
    <3>1. ASSUME NEW c \in P!Configs, policy' = [policy EXCEPT ![p].config = c] PROVE policy' \in [Policies -> P!RowRecords]
      BY <2>1, <3>1 DEF P!RowRecords
    <3>2. CASE policy' = [policy EXCEPT ![p].cdn = ~@]
      BY <2>1, <3>2 DEF P!RowRecords
    <3> QED BY <1>1, <3>1, <3>2 DEF P!UpdatePolicy
  <2> QED BY <1>1, <2>2, ChangesKeep DEF P!UpdatePolicy
<1>2. ASSUME NEW p \in Policies, P!Migrate(p) PROVE DeliveryInv'
  <2>1. home' \in [P!Files -> Policies \cup {0}]
    BY <1>2 DEF P!Migrate
  <2> QED BY <1>2, <2>1, ChangesKeep DEF P!Migrate
<1>3. CASE P!Update
  <2>1. CASE shown' = [shown EXCEPT !.limited = ~@] /\ UNCHANGED home
    <3>1. shown' \in P!ImageRecords
      BY <2>1 DEF P!ImageRecords
    <3> QED BY <1>3, <2>1, <3>1, ChangesKeep DEF P!Update
  <2>2. ASSUME NEW public \in BOOLEAN, NEW moves \in BOOLEAN, NEW shared \in BOOLEAN,
               P!Switched(public, moves, shared)
        PROVE  DeliveryInv'
    <3>1. PICK f : f = shown.file
      OBVIOUS
    <3>2. PICK g : g = IF ~moves \/ public = (f # "private") THEN f ELSE IF public THEN "public" ELSE "private"
      OBVIOUS
    <3>3. f \in P!Files /\ g \in P!Files
      BY <3>1, <3>2 DEF P!ImageRecords, P!Files
    <3>4. shown' = [shown EXCEPT !.public = public, !.file = g]
      BY <2>2, <3>1, <3>2 DEF P!Switched
    <3>5. home' = [home EXCEPT ![f] = IF shared \/ f = g THEN @ ELSE 0, ![g] = IF @ = 0 THEN home[f] ELSE @]
      BY <2>2, <3>1, <3>2 DEF P!Switched
    <3>6. shown' \in P!ImageRecords
      BY <3>3, <3>4 DEF P!ImageRecords
    <3>7. home' \in [P!Files -> Policies \cup {0}]
      BY <3>3, <3>5
    <3> QED BY <1>3, <3>6, <3>7, ChangesKeep DEF P!Update
  <2> QED BY <1>3, <2>1, <2>2 DEF P!Update
<1>4. CASE P!Restart
  <2>1. edits' \in 0 .. MaxEdits
    BY <1>4 DEF P!Restart
  <2>2. /\ built' \in [Policies -> P!Configs \cup {P!NoDriver}] /\ fetch' \in [Requests -> P!ReqRecords]
        /\ probe' \in P!ProbeRecords /\ probe'.pc = "idle" /\ ~probe'.passed
        /\ \A r \in Requests : fetch'[r].pc = "idle"
        /\ UNCHANGED <<policy, shown, home>>
    BY <1>4, DeliveryValues DEF P!Restart
  <2> QED BY <2>1, <2>2 DEF DeliveryInv, P!TypeOK, Current, Probed
<1> QED BY <1>1, <1>2, <1>3, <1>4

LEMMA DeliveryStep == DeliveryInv /\ [P!Delivering \/ P!Probing]_(P!vars) => DeliveryInv'
<1> SUFFICES ASSUME DeliveryInv, [P!Delivering \/ P!Probing]_(P!vars) PROVE DeliveryInv'
  OBVIOUS
<1>1. CASE UNCHANGED P!vars
  BY <1>1 DEF P!vars, DeliveryInv, P!TypeOK, Current, Probed
<1>2. CASE P!Delivering
  BY <1>2, ServeKeeps, EditsKeep DEF P!Delivering
<1>3. CASE P!Probing
  BY <1>3, ProbingKeeps, EditsKeep DEF P!Probing
<1> QED BY <1>1, <1>2, <1>3

LEMMA DeliveryInvIs == DeliveryInv => P!TypeOK /\ P!DeliveredAsStored /\ P!ProbesCleanUp
<1> SUFFICES ASSUME DeliveryInv PROVE P!DeliveredAsStored /\ P!ProbesCleanUp
  BY DEF DeliveryInv
<1>1. P!DeliveredAsStored
  BY DEF DeliveryInv, Current, P!DeliveredAsStored
<1>2. P!ProbesCleanUp
  BY DEF DeliveryInv, Probed, P!ProbesCleanUp
<1> QED BY <1>1, <1>2

-----------------------------------------------------------------------------
(* Drivers: objects.                                                       *)

Objects == {s \in Seq(D!Pieces) : Len(s) <= 2}

\* A part of an object: its pieces are those from pos on.
Placed(data, pos) == \A j \in 1 .. Len(data) : data[j][2] = pos + j

LEMMA ObjectIs ==
  ASSUME NEW s \in Objects
  PROVE  s \in Seq(D!Pieces) /\ Len(s) \in 0 .. 2 /\ \A j \in 1 .. Len(s) : s[j] \in D!Pieces
<1>1. s \in Seq(D!Pieces) /\ Len(s) <= 2
  BY DEF Objects
<1>2. Len(s) \in Nat
  BY <1>1
<1>3. Len(s) \in 0 .. 2
  <2>1. PICK n : n = Len(s)
    OBVIOUS
  <2>2. n \in Nat /\ n <= 2
    BY <1>1, <1>2, <2>1
  <2>3. n \in 0 .. 2
    BY <2>2
  <2> QED BY <2>1, <2>3
<1>4. \A j \in 1 .. Len(s) : s[j] \in D!Pieces
  BY <1>1
<1> QED BY <1>1, <1>3, <1>4

LEMMA ObjectsAre ==
  ASSUME NEW s \in Seq(D!Pieces), NEW n \in 0 .. 2, Len(s) = n
  PROVE  s \in Objects
BY DEF Objects

Ones == {<<p>> : p \in D!Pieces}
Twos == {<<p, q>> : p \in D!Pieces, q \in D!Pieces}

LEMMA ContentsAre ==
  D!Contents = {Absent} \cup Objects /\ Absent \notin Objects
<1>1. /\ \A s \in Ones : \E p \in D!Pieces : s = <<p>>
      /\ \A s \in Twos : \E p, q \in D!Pieces : s = <<p, q>>
      /\ \A p, q \in D!Pieces : <<p>> \in Ones /\ <<p, q>> \in Twos
  BY DEF Ones, Twos
<1>2. ASSUME NEW s \in Objects PROVE s = <<>> \/ s \in Ones \/ s \in Twos
  <2>1. s \in Seq(D!Pieces) /\ Len(s) \in 0 .. 2
    BY ObjectIs
  <2>2. CASE Len(s) = 0
    BY <2>1, <2>2
  <2>3. CASE Len(s) = 1
    <3>1. s[1] \in D!Pieces
      BY <2>1, <2>3
    <3>2. s = <<s[1]>>
      BY <2>1, <2>3
    <3> QED BY <1>1, <3>1, <3>2
  <2>4. CASE Len(s) = 2
    <3>1. s[1] \in D!Pieces /\ s[2] \in D!Pieces
      BY <2>1, <2>4
    <3>2. s = <<s[1], s[2]>>
      BY <2>1, <2>4
    <3> QED BY <1>1, <3>1, <3>2
  <2> QED BY <2>1, <2>2, <2>3, <2>4
<1>3. <<>> \in Objects
  BY DEF Objects
<1>4. ASSUME NEW p \in D!Pieces, NEW q \in D!Pieces PROVE <<p>> \in Objects /\ <<p, q>> \in Objects
  <2>1. <<p>> \in Seq(D!Pieces) /\ Len(<<p>>) = 1 /\ <<p, q>> \in Seq(D!Pieces) /\ Len(<<p, q>>) = 2
    OBVIOUS
  <2> QED BY <2>1 DEF Objects
<1>5. \A s : s \in Ones \cup Twos => s \in Objects
  <2>1. \A s \in Ones : s \in Objects
    BY <1>1, <1>4
  <2>2. ASSUME NEW s \in Twos PROVE s \in Objects
    <3>1. PICK p, q \in D!Pieces : s = <<p, q>>
      BY <1>1
    <3> QED BY <1>4, <3>1
  <2> QED BY <2>1, <2>2
<1>6. Absent # <<>> /\ Absent \notin Ones /\ Absent \notin Twos
  BY <1>1, DriversAssumption DEF DriversAssumption
<1>7. Absent \notin Objects
  BY <1>2, <1>6
<1>8. D!Contents = {Absent} \cup {<<>>} \cup Ones \cup Twos
  BY DEF D!Contents, Ones, Twos
<1>9. \A s : s \in D!Contents <=> s = Absent \/ s \in Objects
  BY <1>2, <1>3, <1>5, <1>8
<1> QED BY <1>7, <1>9

LEMMA PiecesAre ==
  ASSUME NEW p \in D!Pieces
  PROVE  p = <<p[1], p[2]>> /\ p[1] \in {0} \cup D!Versions /\ p[2] \in 1 .. 2
<1>1. PICK v \in {0} \cup D!Versions, i \in 1 .. 2 : p = <<v, i>>
  BY DEF D!Pieces
<1> QED BY <1>1

LEMMA PieceIs ==
  ASSUME NEW v \in {0} \cup D!Versions, NEW i \in 1 .. 2
  PROVE  <<v, i>> \in D!Pieces
BY DEF D!Pieces

LEMMA SizesAre ==
  /\ D!Versions = 1 .. Len(Sizes) /\ Len(Sizes) \in Nat
  /\ \A v \in D!Versions : v \in Nat /\ Sizes[v] \in 0 .. 2
BY DriversAssumption DEF DriversAssumption, D!Versions

\* The first n pieces of a version.
Begun(v, n) == [i \in 1 .. n |-> <<v, i>>]

LEMMA BegunIs ==
  ASSUME NEW v \in D!Versions, NEW n \in 0 .. 2
  PROVE  /\ Begun(v, n) \in Objects /\ Len(Begun(v, n)) = n /\ Placed(Begun(v, n), 0)
         /\ \A i \in 1 .. n : Begun(v, n)[i] = <<v, i>>
<1>1. \A i \in 1 .. n : <<v, i>> \in D!Pieces
  <2>1. \A i \in 1 .. n : i \in 1 .. 2
    OBVIOUS
  <2> QED BY <2>1, PieceIs
<1>2. Begun(v, n) \in Seq(D!Pieces) /\ Len(Begun(v, n)) = n
  BY <1>1 DEF Begun
<1>3. \A i \in 1 .. n : Begun(v, n)[i] = <<v, i>>
  BY DEF Begun
<1> QED BY <1>2, <1>3 DEF Objects, Placed

\* What a reader that nobody disturbed has delivered before a position.
Front(data, pos) == {<<i - 1, data[i]>> : i \in 1 .. pos}

LEMMA FrontIs ==
  ASSUME NEW data \in Objects
  PROVE  /\ Front(data, 0) = {} /\ Front(data, Len(data)) = D!At(data)
         /\ \A pos \in 0 .. 2 : pos < Len(data) =>
              /\ Front(data, pos + 1) = Front(data, pos) \cup {<<pos, data[pos + 1]>>}
              /\ <<pos, data[pos + 1]>> \in D!At(data)
<1>1. Len(data) \in Nat /\ DOMAIN data = 1 .. Len(data)
  BY ObjectIs
<1>2. Front(data, 0) = {}
  BY DEF Front
<1>3. Front(data, Len(data)) = D!At(data)
  BY <1>1 DEF Front, D!At
<1>4. ASSUME NEW pos \in 0 .. 2, pos < Len(data)
      PROVE  /\ Front(data, pos + 1) = Front(data, pos) \cup {<<pos, data[pos + 1]>>}
             /\ <<pos, data[pos + 1]>> \in D!At(data)
  <2>1. pos + 1 \in 1 .. Len(data) /\ (pos + 1) - 1 = pos
    BY <1>1, <1>4
  <2>2. <<pos, data[pos + 1]>> \in D!At(data)
    BY <1>1, <2>1 DEF D!At
  <2>3. \A i \in 1 .. pos + 1 : i \in 1 .. pos \/ i = pos + 1
    OBVIOUS
  <2>4. \A i \in 1 .. pos : i \in 1 .. pos + 1
    OBVIOUS
  <2>5. pos + 1 \in 1 .. pos + 1
    OBVIOUS
  <2>6. Front(data, pos + 1) = Front(data, pos) \cup {<<pos, data[pos + 1]>>}
    BY <2>1, <2>3, <2>4, <2>5 DEF Front
  <2> QED BY <2>2, <2>6
<1> QED BY <1>2, <1>3, <1>4

LEMMA WholeIs ==
  ASSUME NEW v \in D!Versions
  PROVE  D!Whole(v) = Begun(v, Sizes[v]) /\ D!Whole(v) \in Objects /\ Placed(D!Whole(v), 0)
BY SizesAre, BegunIs DEF D!Whole, Begun

LEMMA FromIs ==
  ASSUME NEW data \in Objects, NEW pos \in 0 .. 2, pos <= Len(data)
  PROVE  /\ D!From(data, pos) \in Objects /\ Len(D!From(data, pos)) = Len(data) - pos
         /\ \A j \in 1 .. Len(data) - pos : D!From(data, pos)[j] = data[pos + j]
         /\ Placed(data, 0) => Placed(D!From(data, pos), pos)
<1>1. data \in Seq(D!Pieces) /\ Len(data) \in 0 .. 2
  BY ObjectIs
<1>2. PICK cutting : cutting = SubSeq(data, pos + 1, Len(data))
  OBVIOUS
<1>3. /\ cutting \in Seq(D!Pieces) /\ Len(cutting) = Len(data) - pos
      /\ \A j \in 1 .. Len(data) - pos : cutting[j] = data[pos + j]
  BY <1>1, <1>2
<1>4. Placed(data, 0) => Placed(cutting, pos)
  <2> SUFFICES ASSUME Placed(data, 0), NEW j \in 1 .. Len(data) - pos PROVE cutting[j][2] = pos + j
    BY <1>3 DEF Placed
  <2>1. pos + j \in 1 .. Len(data)
    BY <1>1
  <2>2. data[pos + j][2] = 0 + (pos + j)
    BY <2>1 DEF Placed
  <2> QED BY <1>3, <2>2
<1>5. cutting \in Objects
  BY <1>1, <1>3 DEF Objects
<1> QED BY <1>2, <1>3, <1>4, <1>5 DEF D!From

LEMMA FromTail ==
  ASSUME NEW data \in Objects, NEW pos \in 0 .. 2
  PROVE  /\ D!From(data, 0) = data
         /\ pos < Len(data) => /\ D!From(data, pos) # <<>> /\ Head(D!From(data, pos)) = data[pos + 1]
                               /\ Tail(D!From(data, pos)) = D!From(data, pos + 1)
<1>1. data \in Seq(D!Pieces) /\ Len(data) \in Nat
  BY ObjectIs
<1>2. D!From(data, 0) = data
  BY <1>1 DEF D!From
<1>3. ASSUME pos < Len(data)
      PROVE  /\ D!From(data, pos) # <<>> /\ Head(D!From(data, pos)) = data[pos + 1]
             /\ Tail(D!From(data, pos)) = D!From(data, pos + 1)
  <2>1. PICK s : s = SubSeq(data, pos + 1, Len(data))
    OBVIOUS
  <2>2. PICK r : r = SubSeq(data, pos + 2, Len(data))
    OBVIOUS
  <2>3. /\ s \in Seq(D!Pieces) /\ Len(s) = Len(data) - pos
        /\ \A j \in 1 .. Len(data) - pos : s[j] = data[pos + j]
    BY <1>1, <1>3, <2>1
  <2>4. /\ r \in Seq(D!Pieces) /\ Len(r) = Len(data) - pos - 1
        /\ \A j \in 1 .. Len(data) - pos - 1 : r[j] = data[pos + 1 + j]
    BY <1>1, <1>3, <2>2
  <2>5. Len(s) # 0 /\ 1 \in 1 .. Len(data) - pos
    BY <1>1, <1>3, <2>3
  <2>6. s # <<>> /\ Head(s) = s[1] /\ s[1] = data[pos + 1]
    BY <2>3, <2>5
  <2>7. /\ Tail(s) \in Seq(D!Pieces) /\ Len(Tail(s)) = Len(data) - pos - 1
        /\ \A j \in 1 .. Len(data) - pos - 1 : Tail(s)[j] = s[j + 1]
    BY <1>1, <2>3, <2>6
  <2>8. \A j \in 1 .. Len(data) - pos - 1 : Tail(s)[j] = r[j]
    <3> SUFFICES ASSUME NEW j \in 1 .. Len(data) - pos - 1 PROVE Tail(s)[j] = r[j]
      OBVIOUS
    <3>1. j + 1 \in 1 .. Len(data) - pos /\ pos + (j + 1) = pos + 1 + j
      BY <1>1
    <3> QED BY <2>3, <2>4, <2>7, <3>1
  <2>9. Tail(s) = r
    <3>1. PICK n, u : n = Len(data) - pos - 1 /\ u = Tail(s)
      OBVIOUS
    <3>2. u \in Seq(D!Pieces) /\ Len(u) = n /\ r \in Seq(D!Pieces) /\ Len(r) = n /\ n \in Nat
      BY <1>1, <1>3, <2>4, <2>7, <3>1
    <3>3. u = [j \in 1 .. n |-> u[j]] /\ r = [j \in 1 .. n |-> r[j]]
      BY <3>2
    <3>4. \A j \in 1 .. n : u[j] = r[j]
      BY <2>8, <3>1
    <3>5. u = r
      <4>1. [j \in 1 .. n |-> u[j]] = [j \in 1 .. n |-> r[j]]
        BY <3>4
      <4> QED BY <3>3, <4>1
    <3> QED BY <3>1, <3>5
  <2>10. D!From(data, pos) = s /\ D!From(data, pos + 1) = r
    BY <2>1, <2>2 DEF D!From
  <2> QED BY <2>6, <2>9, <2>10
<1> QED BY <1>2, <1>3

LEMMA TailIs ==
  ASSUME NEW data \in Objects, data # <<>>, NEW pos \in 0 .. 2, Placed(data, pos)
  PROVE  /\ Head(data) \in D!Pieces /\ Head(data) = data[1] /\ data[1][2] = pos + 1
         /\ Tail(data) \in Objects /\ Len(Tail(data)) = Len(data) - 1
         /\ \A j \in 1 .. Len(data) - 1 : Tail(data)[j] = data[j + 1]
         /\ Placed(Tail(data), pos + 1)
<1>1. data \in Seq(D!Pieces) /\ Len(data) \in 1 .. 2
  <2>1. data \in Seq(D!Pieces) /\ Len(data) \in 0 .. 2
    BY ObjectIs
  <2>2. Len(data) # 0
    BY <2>1
  <2> QED BY <2>1, <2>2
<1>2. Head(data) = data[1] /\ data[1] \in D!Pieces /\ data[1][2] = pos + 1
  BY <1>1 DEF Placed
<1>3. /\ Tail(data) \in Seq(D!Pieces) /\ Len(Tail(data)) = Len(data) - 1
      /\ \A j \in 1 .. Len(data) - 1 : Tail(data)[j] = data[j + 1]
  BY <1>1
<1>4. Placed(Tail(data), pos + 1)
  <2> SUFFICES ASSUME NEW j \in 1 .. Len(data) - 1 PROVE Tail(data)[j][2] = pos + 1 + j
    BY <1>3 DEF Placed
  <2>1. j + 1 \in 1 .. Len(data)
    BY <1>1
  <2>2. data[j + 1][2] = pos + (j + 1)
    BY <2>1 DEF Placed
  <2> QED BY <1>3, <2>2
<1>5. Len(data) - 1 \in 0 .. 2
  BY <1>1
<1>6. Tail(data) \in Objects
  BY <1>3, <1>5, ObjectsAre
<1> QED BY <1>2, <1>3, <1>4, <1>6

\* A piece written into a file; what lies before it and was never written is
\* filled up.
Written(data, i, piece) ==
  [j \in 1 .. (IF i > Len(data) THEN i ELSE Len(data)) |->
     IF j = i THEN piece ELSE IF j <= Len(data) THEN data[j] ELSE <<0, j>>]

LEMMA WrittenIs ==
  ASSUME NEW data \in Objects, Placed(data, 0), NEW v \in D!Versions, NEW i \in 1 .. 2
  PROVE  /\ Written(data, i, <<v, i>>) \in Objects /\ Placed(Written(data, i, <<v, i>>), 0)
         /\ data = Begun(v, i - 1) => Written(data, i, <<v, i>>) = Begun(v, i)
<1>1. data \in Seq(D!Pieces) /\ Len(data) \in 0 .. 2
  BY ObjectIs
<1>2. PICK n : n = IF i > Len(data) THEN i ELSE Len(data)
  OBVIOUS
<1>3. n \in 0 .. 2
  BY <1>1, <1>2
<1>4. PICK w : w = Written(data, i, <<v, i>>)
  OBVIOUS
<1>5. w = [j \in 1 .. n |-> IF j = i THEN <<v, i>> ELSE IF j <= Len(data) THEN data[j] ELSE <<0, j>>]
  BY <1>2, <1>4 DEF Written
<1>6. ASSUME NEW j \in 1 .. n PROVE w[j] \in D!Pieces /\ w[j][2] = j
  <2>1. CASE j = i
    BY <1>5, <2>1, PieceIs
  <2>2. CASE j # i /\ j <= Len(data)
    <3>1. w[j] = data[j] /\ j \in 1 .. Len(data)
      BY <1>1, <1>3, <1>5, <2>2
    <3> QED BY <1>1, <3>1 DEF Placed
  <2>3. CASE j # i /\ ~(j <= Len(data))
    <3>1. w[j] = <<0, j>> /\ j \in 1 .. 2
      BY <1>3, <1>5, <2>3
    <3>2. <<0, j>> \in D!Pieces
      BY <3>1, PieceIs
    <3> QED BY <3>1, <3>2
  <2> QED BY <2>1, <2>2, <2>3
<1>7. w \in Seq(D!Pieces) /\ Len(w) = n
  BY <1>3, <1>5, <1>6
<1>8. w \in Objects /\ Placed(w, 0)
  BY <1>3, <1>6, <1>7 DEF Objects, Placed
<1>9. ASSUME data = Begun(v, i - 1) PROVE w = Begun(v, i)
  <2>0. i - 1 \in 0 .. 2
    OBVIOUS
  <2>1. Len(data) = i - 1 /\ \A j \in 1 .. i - 1 : data[j] = <<v, j>>
    BY <1>9, <2>0, BegunIs
  <2>2. n = i
    BY <1>2, <2>1
  <2>3. \A j \in 1 .. i : w[j] = <<v, j>>
    BY <1>5, <2>1, <2>2
  <2> QED BY <1>5, <2>2, <2>3 DEF Begun
<1> QED BY <1>4, <1>8, <1>9

-----------------------------------------------------------------------------
(* Drivers: the pool of FTP sessions.                                      *)

PoolRecords == [id: 1 .. D!MaxSessions, good: BOOLEAN]

LEMMA MaxSessionsIs == D!MaxSessions \in Nat /\ Cardinality(Clients) \in Nat
BY SameSizes, DriversAssumption, FS_CardinalityType DEF D!MaxSessions, DriversAssumption

\* No session with two calls, none in the pool twice, none with a call and in
\* the pool; and the server's are just these.
Unshared == \A c, d \in Clients : op[c].session # 0 /\ op[c].session = op[d].session => c = d
PooledOnce == \A i, j \in 1 .. Len(pool) : pool[i].id = pool[j].id => i = j
NotPooled == \A c \in Clients, i \in 1 .. Len(pool) : op[c].session # pool[i].id
OpenAre == \A s \in 1 .. D!MaxSessions :
             s \in sessions <=> ((\E c \in Clients : op[c].session = s) \/ \E i \in 1 .. Len(pool) : pool[i].id = s)

SessionsInv ==
  /\ pool \in Seq(PoolRecords) /\ Len(pool) <= MaxPool /\ sessions \subseteq 1 .. D!MaxSessions
  /\ Unshared /\ PooledOnce /\ NotPooled /\ OpenAre

LEMMA PoolIs ==
  ASSUME SessionsInv
  PROVE  /\ Len(pool) \in Nat /\ Len(pool) <= MaxPool /\ DOMAIN pool = 1 .. Len(pool)
         /\ \A i \in 1 .. Len(pool) : pool[i] \in PoolRecords /\ pool[i].id \in 1 .. D!MaxSessions
<1>1. pool \in Seq(PoolRecords) /\ Len(pool) <= MaxPool
  BY DEF SessionsInv
<1>2. \A i \in 1 .. Len(pool) : pool[i] \in PoolRecords
  BY <1>1
<1>3. \A i \in 1 .. Len(pool) : pool[i].id \in 1 .. D!MaxSessions
  BY <1>2 DEF PoolRecords
<1> QED BY <1>1, <1>2, <1>3

LEMMA SessionsKept ==
  ASSUME SessionsInv, \A c \in Clients : op'[c].session = op[c].session,
         UNCHANGED <<pool, sessions>>
  PROVE  SessionsInv'
BY DEF SessionsInv, Unshared, PooledOnce, NotPooled, OpenAre

LEMMA SessionReleased ==
  ASSUME SessionsInv, NEW c \in Clients, op[c].session \in 0 .. D!MaxSessions, NEW bad \in BOOLEAN, D!Release(c, bad),
         \A d \in Clients : op'[d].session = IF d = c THEN 0 ELSE op[d].session
  PROVE  SessionsInv'
<1> DEFINE s == op[c].session
<1>1. /\ pool' = IF s # 0 /\ D!Pooled(c, bad) THEN Append(pool, [id |-> s, good |-> TRUE]) ELSE pool
      /\ sessions' = IF s # 0 /\ D!Quit(c, bad) THEN sessions \ {s} ELSE sessions
  BY DEF D!Release
<1>2. CASE s = 0
  <2>1. UNCHANGED <<pool, sessions>> /\ \A d \in Clients : op'[d].session = op[d].session
    BY <1>1, <1>2
  <2> QED BY <2>1, SessionsKept
<1>3. CASE s # 0 /\ D!Quit(c, bad)
  <2>1. pool' = pool /\ sessions' = sessions \ {s}
    BY <1>1, <1>3 DEF D!Quit
  <2>2. \A d \in Clients : op'[d].session = s => s = 0
    BY <1>3 DEF SessionsInv, Unshared
  <2>3. \A i \in 1 .. Len(pool) : pool[i].id # s
    BY DEF SessionsInv, NotPooled
  <2>4. OpenAre'
    <3> SUFFICES ASSUME NEW t \in 1 .. D!MaxSessions
                 PROVE  t \in sessions' <=> ((\E d \in Clients : op'[d].session = t) \/ \E i \in 1 .. Len(pool) : pool[i].id = t)
      BY <2>1 DEF OpenAre, D!MaxSessions
    <3>1. t \in sessions <=> ((\E d \in Clients : op[d].session = t) \/ \E i \in 1 .. Len(pool) : pool[i].id = t)
      BY DEF SessionsInv, OpenAre
    <3>2. CASE t = s
      BY <1>3, <2>1, <2>2, <2>3, <3>2
    <3>3. CASE t # s
      <4>1. (\E d \in Clients : op[d].session = t) <=> \E d \in Clients : op'[d].session = t
        BY <3>3
      <4> QED BY <2>1, <3>1, <3>3, <4>1
    <3> QED BY <3>2, <3>3
  <2>5. Unshared' /\ PooledOnce'
    BY <2>1 DEF SessionsInv, Unshared, PooledOnce
  <2>6. NotPooled'
    <3>1. \A i \in 1 .. Len(pool) : pool[i].id # 0
      BY PoolIs
    <3> QED BY <2>1, <3>1 DEF SessionsInv, NotPooled
  <2> QED BY <2>1, <2>4, <2>5, <2>6 DEF SessionsInv, D!MaxSessions, PoolRecords
<1>4. CASE s # 0 /\ D!Pooled(c, bad)
  <2>1. PICK r : r = [id |-> s, good |-> TRUE]
    OBVIOUS
  <2>2. pool' = Append(pool, r) /\ sessions' = sessions
    BY <1>1, <1>4, <2>1 DEF D!Quit
  <2>3. r \in PoolRecords /\ r.id = s
    BY <1>4, <2>1, MaxSessionsIs DEF PoolRecords
  <2>4. pool \in Seq(PoolRecords) /\ Len(pool) \in Nat
    BY PoolIs DEF SessionsInv
  <2>5. /\ pool' \in Seq(PoolRecords) /\ Len(pool') = Len(pool) + 1
        /\ \A i \in 1 .. Len(pool) : pool'[i] = pool[i]
        /\ pool'[Len(pool) + 1] = r
    BY <2>2, <2>3, <2>4
  <2>6. \A i \in 1 .. Len(pool) : pool[i].id # s /\ pool[i].id # 0
    BY PoolIs DEF SessionsInv, NotPooled
  <2>7. PICK n : n = Len(pool)
    OBVIOUS
  <2>8. /\ n \in Nat /\ Len(pool') = n + 1 /\ pool'[n + 1].id = s
        /\ \A i \in 1 .. n + 1 : i \in 1 .. n \/ i = n + 1
        /\ \A i \in 1 .. n : pool'[i] = pool[i] /\ i \in 1 .. n + 1 /\ i # n + 1
        /\ n + 1 \in 1 .. n + 1
    BY <2>3, <2>4, <2>5, <2>7
  <2>9. Unshared'
    BY DEF SessionsInv, Unshared
  <2>10. PooledOnce'
    BY <2>6, <2>7, <2>8 DEF SessionsInv, PooledOnce
  <2>11. NotPooled'
    <3>1. \A d \in Clients : op'[d].session # s
      BY <1>4 DEF SessionsInv, Unshared
    <3> QED BY <2>6, <2>7, <2>8, <3>1 DEF SessionsInv, NotPooled
  <2>12. OpenAre'
    <3> SUFFICES ASSUME NEW t \in 1 .. D!MaxSessions
                 PROVE  t \in sessions <=> ((\E d \in Clients : op'[d].session = t) \/ \E i \in 1 .. n + 1 : pool'[i].id = t)
      BY <2>2, <2>8 DEF OpenAre, D!MaxSessions
    <3>1. t \in sessions <=> ((\E d \in Clients : op[d].session = t) \/ \E i \in 1 .. n : pool[i].id = t)
      BY <2>7 DEF SessionsInv, OpenAre
    <3>2. CASE t = s
      BY <2>8, <3>1, <3>2
    <3>3. CASE t # s
      <4>1. (\E d \in Clients : op[d].session = t) <=> \E d \in Clients : op'[d].session = t
        BY <3>3
      <4>2. (\E i \in 1 .. n : pool[i].id = t) <=> \E i \in 1 .. n + 1 : pool'[i].id = t
        BY <2>8, <3>3
      <4> QED BY <3>1, <4>1, <4>2
    <3> QED BY <3>2, <3>3
  <2>13. Len(pool') <= MaxPool
    BY <1>4, <2>4, <2>5, DriversAssumption DEF D!Pooled, DriversAssumption
  <2>14. sessions' \subseteq 1 .. D!MaxSessions
    BY <2>2 DEF SessionsInv
  <2> QED BY <2>5, <2>9, <2>10, <2>11, <2>12, <2>13, <2>14 DEF SessionsInv, D!MaxSessions, PoolRecords
<1> QED BY <1>2, <1>3, <1>4 DEF D!Quit

\* The session released last is taken out of the pool.
LEMMA PoolFront ==
  ASSUME SessionsInv, pool # <<>>, pool' = SubSeq(pool, 1, Len(pool) - 1), NEW n, n = Len(pool)
  PROVE  /\ n \in 1 .. MaxPool /\ n \in 1 .. n /\ Len(pool') = n - 1
         /\ pool' \in Seq(PoolRecords) /\ \A i \in 1 .. n - 1 : pool'[i] = pool[i] /\ i \in 1 .. n
         /\ \A i \in 1 .. n : i \in 1 .. n - 1 \/ i = n
         /\ pool[n].id \in 1 .. D!MaxSessions
         /\ \A i \in 1 .. n - 1 : pool[i].id # pool[n].id
<1>1. pool \in Seq(PoolRecords) /\ Len(pool) \in Nat /\ Len(pool) <= MaxPool
  BY PoolIs DEF SessionsInv
<1>2. Len(pool) # 0
  BY <1>1
<1>4. n \in Nat /\ n # 0 /\ n <= MaxPool
  BY <1>1, <1>2
<1>5. n \in 1 .. MaxPool /\ n \in 1 .. n /\ n - 1 \in Nat /\ n - 1 <= n
  BY <1>4, DriversAssumption DEF DriversAssumption
<1>6. \A i \in 1 .. n : i \in 1 .. n - 1 \/ i = n
  BY <1>4
<1>7. \A i \in 1 .. n - 1 : i \in 1 .. n /\ i # n
  BY <1>4
<1>8. pool' = SubSeq(pool, 1, n - 1)
  OBVIOUS
<1>9. pool' \in Seq(PoolRecords) /\ Len(pool') = n - 1 /\ \A i \in 1 .. n - 1 : pool'[i] = pool[i]
  BY <1>1, <1>5, <1>8
<1>10. pool[n].id \in 1 .. D!MaxSessions
  BY <1>5, PoolIs
<1>11. \A i \in 1 .. n - 1 : pool[i].id # pool[n].id
  BY <1>5, <1>7 DEF SessionsInv, PooledOnce
<1> QED BY <1>5, <1>6, <1>7, <1>9, <1>10, <1>11

LEMMA SessionReused ==
  ASSUME SessionsInv, NEW c \in Clients, op[c].session = 0,
         pool # <<>>, pool' = SubSeq(pool, 1, Len(pool) - 1), sessions' = sessions,
         \A d \in Clients : op'[d].session = IF d = c THEN pool[Len(pool)].id ELSE op[d].session
  PROVE  SessionsInv'
<1>1. PICK n, s : n = Len(pool) /\ s = pool[Len(pool)].id
  OBVIOUS
<1>0. /\ n \in 1 .. MaxPool /\ n \in 1 .. n /\ Len(pool') = n - 1
      /\ pool' \in Seq(PoolRecords) /\ \A i \in 1 .. n - 1 : pool'[i] = pool[i] /\ i \in 1 .. n
      /\ \A i \in 1 .. n : i \in 1 .. n - 1 \/ i = n
      /\ pool[n].id \in 1 .. D!MaxSessions
      /\ \A i \in 1 .. n - 1 : pool[i].id # pool[n].id
  BY <1>1, PoolFront
<1>2. /\ n \in 1 .. MaxPool /\ Len(pool') = n - 1
      /\ pool' \in Seq(PoolRecords) /\ \A i \in 1 .. n - 1 : pool'[i] = pool[i] /\ i \in 1 .. n
      /\ \A i \in 1 .. n : i \in 1 .. n - 1 \/ i = n
      /\ s \in 1 .. D!MaxSessions /\ s = pool[n].id /\ n \in 1 .. n
      /\ \A i \in 1 .. n - 1 : pool[i].id # s
  BY <1>0, <1>1
<1>a. Len(pool) = n /\ Len(pool') = n - 1 /\ \A i \in 1 .. n - 1 : pool'[i] = pool[i] /\ i \in 1 .. n
  BY <1>1, <1>2
<1>3. s # 0 /\ \A d \in Clients : op[d].session # s
  BY <1>1, <1>2 DEF SessionsInv, NotPooled
<1>4. Unshared'
  BY <1>1, <1>3 DEF SessionsInv, Unshared
<1>5. PooledOnce'
  BY <1>a DEF SessionsInv, PooledOnce
<1>6. NotPooled'
  BY <1>1, <1>2 DEF SessionsInv, NotPooled
<1>7. OpenAre'
  <2> SUFFICES ASSUME NEW t \in 1 .. D!MaxSessions
               PROVE  t \in sessions <=> ((\E d \in Clients : op'[d].session = t) \/ \E i \in 1 .. n - 1 : pool'[i].id = t)
    BY <1>a DEF OpenAre, D!MaxSessions
  <2>1. t \in sessions <=> ((\E d \in Clients : op[d].session = t) \/ \E i \in 1 .. n : pool[i].id = t)
    BY <1>1 DEF SessionsInv, OpenAre
  <2>2. CASE t = s
    <3>1. op'[c].session = t
      BY <1>1, <2>2
    <3> QED BY <1>2, <2>1, <2>2, <3>1
  <2>3. CASE t # s
    <3>1. t # 0
      BY MaxSessionsIs
    <3>2. (\E d \in Clients : op[d].session = t) <=> \E d \in Clients : op'[d].session = t
      BY <1>1, <2>3, <3>1
    <3>3. (\E i \in 1 .. n : pool[i].id = t) <=> \E i \in 1 .. n - 1 : pool'[i].id = t
      BY <1>2, <2>3
    <3> QED BY <2>1, <3>2, <3>3
  <2> QED BY <2>2, <2>3
<1>8. Len(pool') <= MaxPool
  BY <1>2, DriversAssumption DEF DriversAssumption
<1> QED BY <1>2, <1>4, <1>5, <1>6, <1>7, <1>8 DEF SessionsInv, D!MaxSessions, PoolRecords

LEMMA SessionStale ==
  ASSUME SessionsInv,
         pool # <<>>, pool' = SubSeq(pool, 1, Len(pool) - 1), sessions' = sessions \ {pool[Len(pool)].id}, op' = op
  PROVE  SessionsInv'
<1>1. PICK n, s : n = Len(pool) /\ s = pool[Len(pool)].id
  OBVIOUS
<1>0. /\ n \in 1 .. MaxPool /\ n \in 1 .. n /\ Len(pool') = n - 1
      /\ pool' \in Seq(PoolRecords) /\ \A i \in 1 .. n - 1 : pool'[i] = pool[i] /\ i \in 1 .. n
      /\ \A i \in 1 .. n : i \in 1 .. n - 1 \/ i = n
      /\ pool[n].id \in 1 .. D!MaxSessions
      /\ \A i \in 1 .. n - 1 : pool[i].id # pool[n].id
  BY <1>1, PoolFront
<1>2. /\ n \in 1 .. MaxPool /\ Len(pool') = n - 1
      /\ pool' \in Seq(PoolRecords) /\ \A i \in 1 .. n - 1 : pool'[i] = pool[i] /\ i \in 1 .. n
      /\ \A i \in 1 .. n : i \in 1 .. n - 1 \/ i = n
      /\ s \in 1 .. D!MaxSessions /\ s = pool[n].id /\ n \in 1 .. n
      /\ \A i \in 1 .. n - 1 : pool[i].id # s
  BY <1>0, <1>1
<1>a. Len(pool) = n /\ Len(pool') = n - 1 /\ \A i \in 1 .. n - 1 : pool'[i] = pool[i] /\ i \in 1 .. n
  BY <1>1, <1>2
<1>3. \A d \in Clients : op[d].session # s
  BY <1>1, <1>2 DEF SessionsInv, NotPooled
<1>4. Unshared'
  BY DEF SessionsInv, Unshared
<1>5. PooledOnce'
  BY <1>a DEF SessionsInv, PooledOnce
<1>6. NotPooled'
  BY <1>1, <1>2 DEF SessionsInv, NotPooled
<1>7. OpenAre'
  <2> SUFFICES ASSUME NEW t \in 1 .. D!MaxSessions
               PROVE  t \in sessions \ {s} <=> ((\E d \in Clients : op[d].session = t) \/ \E i \in 1 .. n - 1 : pool'[i].id = t)
    BY <1>1, <1>a DEF OpenAre, D!MaxSessions
  <2>1. t \in sessions <=> ((\E d \in Clients : op[d].session = t) \/ \E i \in 1 .. n : pool[i].id = t)
    BY <1>1 DEF SessionsInv, OpenAre
  <2>2. CASE t = s
    BY <1>2, <1>3, <2>2
  <2>3. CASE t # s
    <3>1. (\E i \in 1 .. n : pool[i].id = t) <=> \E i \in 1 .. n - 1 : pool'[i].id = t
      BY <1>2, <2>3
    <3> QED BY <2>1, <2>3, <3>1
  <2> QED BY <2>2, <2>3
<1>8. Len(pool') <= MaxPool
  BY <1>2, DriversAssumption DEF DriversAssumption
<1>9. sessions' \subseteq 1 .. D!MaxSessions
  BY DEF SessionsInv
<1> QED BY <1>2, <1>4, <1>5, <1>6, <1>7, <1>8, <1>9 DEF SessionsInv, D!MaxSessions, PoolRecords

\* A call that holds none and finds the pool empty leaves a number free.
LEMMA SessionFree ==
  ASSUME SessionsInv, NEW c \in Clients, op[c].session = 0, pool = <<>>
  PROVE  \E s \in (1 .. D!MaxSessions) \ sessions : \A t \in (1 .. D!MaxSessions) \ sessions : s <= t
<1>1. (1 .. D!MaxSessions) \ sessions # {}
  <2> SUFFICES ASSUME (1 .. D!MaxSessions) \subseteq sessions PROVE FALSE
    OBVIOUS
  <2>1. PICK f : f = [d \in Clients \ {c} |-> op[d].session]
    OBVIOUS
  <2>2. PICK T : T = {f[d] : d \in Clients \ {c}}
    OBVIOUS
  <2>3. f \in Surjection(Clients \ {c}, T)
    BY <2>1, <2>2 DEF Surjection
  <2>4. IsFiniteSet(Clients \ {c}) /\ Cardinality(Clients \ {c}) = Cardinality(Clients) - 1
    BY DriversAssumption, FS_RemoveElement DEF DriversAssumption
  <2>5. IsFiniteSet(T) /\ Cardinality(T) <= Cardinality(Clients) - 1
    BY <2>3, <2>4, FS_Surjection
  <2>6. 1 .. D!MaxSessions \subseteq T
    <3> SUFFICES ASSUME NEW s \in 1 .. D!MaxSessions PROVE s \in T
      OBVIOUS
    <3>1. s # 0 /\ s \in sessions
      BY MaxSessionsIs
    <3>2. Len(pool) = 0
      OBVIOUS
    <3>3. \E d \in Clients : op[d].session = s
      BY <3>1, <3>2 DEF SessionsInv, OpenAre
    <3> QED BY <2>1, <2>2, <3>1, <3>3
  <2>7. Cardinality(1 .. D!MaxSessions) = D!MaxSessions
    <3>1. 1 \in Int /\ D!MaxSessions \in Int
      BY MaxSessionsIs
    <3>2. Cardinality(1 .. D!MaxSessions) = IF 1 > D!MaxSessions THEN 0 ELSE D!MaxSessions - 1 + 1
      BY <3>1, FS_Interval, Zenon
    <3> QED BY <3>2, MaxSessionsIs
  <2>8. D!MaxSessions <= Cardinality(Clients) - 1
    <3>1. Cardinality(1 .. D!MaxSessions) <= Cardinality(T)
      BY <2>5, <2>6, FS_Subset
    <3>2. Cardinality(T) \in Nat
      BY <2>5, FS_CardinalityType
    <3> QED BY <2>5, <2>7, <3>1, <3>2, MaxSessionsIs
  <2> QED BY SameSizes, <2>8, MaxSessionsIs, DriversAssumption DEF D!MaxSessions, DriversAssumption
<1>2. (1 .. D!MaxSessions) \ sessions \in SUBSET Nat
  BY MaxSessionsIs
<1> QED BY <1>1, <1>2, NatMin

LEMMA SessionOpened ==
  ASSUME SessionsInv, NEW c \in Clients, op[c].session = 0, pool = <<>>, pool' = pool,
         NEW s \in (1 .. D!MaxSessions) \ sessions, sessions' = sessions \cup {s},
         \A d \in Clients : op'[d].session = IF d = c THEN s ELSE op[d].session
  PROVE  SessionsInv'
<1>1. Len(pool) = 0 /\ s # 0
  BY MaxSessionsIs
<1>2. \A d \in Clients : op[d].session # s
  BY DEF SessionsInv, OpenAre
<1>3. Unshared'
  BY <1>1, <1>2 DEF SessionsInv, Unshared
<1>4. PooledOnce' /\ NotPooled'
  BY <1>1 DEF PooledOnce, NotPooled
<1>5. OpenAre'
  <2> SUFFICES ASSUME NEW t \in 1 .. D!MaxSessions
               PROVE  t \in sessions \cup {s} <=> \E d \in Clients : op'[d].session = t
    BY <1>1 DEF OpenAre, D!MaxSessions
  <2>1. t \in sessions <=> \E d \in Clients : op[d].session = t
    BY <1>1 DEF SessionsInv, OpenAre
  <2>2. t # 0
    BY MaxSessionsIs
  <2> QED BY <2>1, <2>2
<1> QED BY <1>3, <1>4, <1>5 DEF SessionsInv, D!MaxSessions, PoolRecords

\* Each session is in one place: that is what the property counts.
LEMMA SessionsAre ==
  ASSUME SessionsInv
  PROVE  D!SessionsAccountedFor
<1> SUFFICES ASSUME NEW s \in 1 .. D!MaxSessions
             PROVE  Cardinality({c \in Clients : op[c].session = s}) + Cardinality({i \in DOMAIN pool : pool[i].id = s})
                      = IF s \in sessions THEN 1 ELSE 0
  BY SameSizes DEF D!SessionsAccountedFor
<1>1. PICK C : C = {c \in Clients : op[c].session = s}
  OBVIOUS
<1>2. PICK Slots : Slots = {i \in 1 .. Len(pool) : pool[i].id = s}
  OBVIOUS
<1>3. DOMAIN pool = 1 .. Len(pool) /\ s # 0
  BY PoolIs, MaxSessionsIs
<1>4. \A x, y \in C : x = y
  BY <1>1, <1>3 DEF SessionsInv, Unshared
<1>5. \A x, y \in Slots : x = y
  BY <1>2 DEF SessionsInv, PooledOnce
<1>6. C = {} \/ Slots = {}
  BY <1>1, <1>2 DEF SessionsInv, NotPooled
<1>7. s \in sessions <=> ~(C = {} /\ Slots = {})
  BY <1>1, <1>2 DEF SessionsInv, OpenAre
<1>8. ASSUME NEW S, \A x, y \in S : x = y PROVE Cardinality(S) = IF S = {} THEN 0 ELSE 1
  <2>1. CASE S = {}
    BY <2>1, FS_EmptySet
  <2>2. CASE S # {}
    <3>1. PICK x : x \in S
      BY <2>2
    <3>2. S = {x}
      BY <1>8, <3>1
    <3>3. Cardinality({x}) = 1
      BY FS_Singleton
    <3> QED BY <2>2, <3>2, <3>3
  <2> QED BY <2>1, <2>2
<1>9. Cardinality(C) = (IF C = {} THEN 0 ELSE 1) /\ Cardinality(Slots) = IF Slots = {} THEN 0 ELSE 1
  BY <1>4, <1>5, <1>8
<1>10. Cardinality(C) + Cardinality(Slots) = IF s \in sessions THEN 1 ELSE 0
  BY <1>6, <1>7, <1>9
<1> QED BY <1>1, <1>2, <1>3, <1>10

-----------------------------------------------------------------------------
(* Drivers: the calls.                                                     *)

\* AnswerIsTrue, of a call and an object.
Truth(r, data) ==
  /\ r.answer = "ok" /\ r.kind = "put" => data = D!Whole(r.v)
  /\ r.answer = "ok" /\ r.kind = "delete" => data = Absent
  /\ r.answer = "ok" /\ r.kind = "open" =>
       data # Absent /\ r.got \subseteq D!At(data) /\ (r.sought \/ r.got = D!At(data))
  /\ r.answer = "missing" => data = Absent
  /\ r.answer \in {"yes", "no"} => ((data = Absent) <=> (r.answer = "no"))

Untouched(r) ==
  /\ r.got = {} /\ r.pos = 0 /\ ~r.sought /\ r.buf = Absent /\ r.body = Absent
  /\ r.kind = "put" => r.v \in D!Versions

\* A reader nobody disturbed has the object as it is.
Faithful(r, data) ==
  /\ data # Absent /\ r.size = Len(data) /\ r.pos <= r.size
  /\ r.buf # Absent => r.buf = data
  /\ r.body # Absent => r.body = D!From(data, r.pos)
  /\ r.got \subseteq D!At(data)
  /\ r.sought \/ r.got = Front(data, r.pos)

Delivering(r, data) ==
  /\ r.kind = "open"
  /\ r.buf # Absent => r.body = Absent /\ r.session = 0 /\ Placed(r.buf, 0)
  /\ r.body # Absent => driver # "ftp" /\ Placed(r.body, r.pos)
  /\ ~r.over => Faithful(r, data)

Right(r, data) ==
  /\ \A g \in r.got : g[2][2] = g[1] + 1
  /\ r.session # 0 => r.pc \in {"ready", "stor", "read"}
  /\ r.session # 0 \/ r.pc = "acquire" => driver = "ftp"
  /\ r.pc # "idle" => r.answer = "none" /\ ~r.denied
  /\ r.pc \in {"start", "acquire", "ready", "stor", "mkcol", "retry", "rename"} => Untouched(r)
  /\ r.pc \in {"stor", "mkcol", "retry", "rename"} => r.kind = "put"
  /\ r.pc \in {"acquire", "ready", "retry"} => r.at = 0
  /\ r.pc = "stor" => r.at = r.done /\ (~r.over => data = Begun(r.v, r.done))
  /\ r.pc = "read" => Delivering(r, data)
  /\ r.pc = "idle" => r.denied \/ r.over \/ Truth(r, data)
  /\ r.pc = "idle" /\ r.answer = "none" => r.got = {}

DriversInv ==
  /\ D!TypeOK /\ SessionsInv
  /\ obj # Absent => Placed(obj, 0)
  /\ \A c \in Clients : Right(op[c], obj)

LEMMA TruthIs ==
  ASSUME NEW c \in Clients, Truth(op[c], obj)
  PROVE  D!AnswerIsTrue(c)
BY DEF Truth, D!AnswerIsTrue

LEMMA CallIs ==
  ASSUME DriversInv, NEW c \in Clients
  PROVE  /\ op[c] \in D!CallRecords /\ Right(op[c], obj) /\ obj \in D!Contents /\ op[c].session \in 0 .. D!MaxSessions
         /\ op[c].pos \in 0 .. 2 /\ op[c].size \in 0 .. 2 /\ op[c].at \in 0 .. 2 /\ op[c].done \in 0 .. 2
         /\ op[c].buf \in D!Contents /\ op[c].body \in D!Contents /\ op[c].v \in {0} \cup D!Versions
         /\ op[c].got \subseteq (0 .. 1) \X D!Pieces /\ op[c].over \in BOOLEAN /\ op[c].sought \in BOOLEAN
<1>1. op \in [Clients -> D!CallRecords] /\ obj \in D!Contents /\ Right(op[c], obj)
  BY DEF DriversInv, D!TypeOK
<1>2. op[c] \in D!CallRecords
  BY <1>1
<1> QED BY <1>1, <1>2 DEF D!CallRecords

\* Its session, if it had one, has been released.
Settled(c) == (op[c].session = 0 /\ UNCHANGED <<pool, sessions>>) \/ \E bad \in BOOLEAN : D!Release(c, bad)

\* What the invariant asks of a step besides the calls.
Bounded == UNCHANGED <<driver, server>> /\ version' \in 0 .. Len(Sizes) /\ calls' \in 0 .. MaxCalls /\ mishaps' \in 0 .. Mishaps
Accounted(c, session) ==
  \/ session = op[c].session /\ UNCHANGED <<pool, sessions>>
  \/ session = 0 /\ \E bad \in BOOLEAN : D!Release(c, bad)

LEMMA AccountedIs ==
  ASSUME DriversInv, NEW c \in Clients, NEW session, Accounted(c, session),
         \A d \in Clients : op'[d].session = IF d = c THEN session ELSE op[d].session
  PROVE  SessionsInv'
<1>1. SessionsInv /\ op[c].session \in 0 .. D!MaxSessions
  BY CallIs DEF DriversInv
<1>2. CASE session = op[c].session /\ UNCHANGED <<pool, sessions>>
  BY <1>1, <1>2, SessionsKept
<1>3. CASE session = 0 /\ \E bad \in BOOLEAN : D!Release(c, bad)
  BY <1>1, <1>3, SessionReleased
<1> QED BY <1>2, <1>3 DEF Accounted

\* Calls and objects that are right make the invariant.
LEMMA InvFrom ==
  ASSUME DriversInv, SessionsInv', Bounded, op' \in [Clients -> D!CallRecords], obj' \in D!Contents,
         obj' # Absent => Placed(obj', 0), \A c \in Clients : Right(op'[c], obj')
  PROVE  DriversInv'
<1>1. /\ Len(pool') <= MaxPool /\ sessions' \subseteq 1 .. D!MaxSessions
      /\ \A i \in DOMAIN pool' : pool'[i] \in [id: 1 .. D!MaxSessions, good: BOOLEAN]
  <2>1. pool' \in Seq(PoolRecords) /\ Len(pool') <= MaxPool /\ sessions' \subseteq 1 .. D!MaxSessions
    BY DEF SessionsInv, PoolRecords, D!MaxSessions
  <2>2. \A i \in DOMAIN pool' : pool'[i] \in PoolRecords
    BY <2>1
  <2> QED BY <2>1, <2>2 DEF PoolRecords
<1>2. D!TypeOK'
  BY <1>1 DEF DriversInv, D!TypeOK, Bounded, D!MaxSessions, D!CallRecords
<1>3. \A c \in Clients : Right(op[c], obj)'
  BY DEF Right, Delivering, Untouched, Faithful, Bounded
<1> QED BY <1>2, <1>3 DEF DriversInv

\* A call goes on, and the object stays.
LEMMA KeepsStep ==
  ASSUME DriversInv, NEW c \in Clients, NEW call \in D!CallRecords, D!Keeps(c, call), Right(call, obj),
         Accounted(c, call.session), Bounded
  PROVE  DriversInv'
<1>1. op' = [op EXCEPT ![c] = call] /\ obj' = obj
  BY DEF D!Keeps
<1>2. op \in [Clients -> D!CallRecords] /\ obj \in D!Contents /\ (obj # Absent => Placed(obj, 0))
  BY DEF DriversInv, D!TypeOK
<1>3. op' \in [Clients -> D!CallRecords] /\ \A d \in Clients : op'[d] = IF d = c THEN call ELSE op[d]
  BY <1>1, <1>2
<1>4. SessionsInv'
  BY <1>3, AccountedIs
<1>5. \A d \in Clients : Right(op'[d], obj')
  BY <1>1, <1>3, CallIs
<1> QED BY <1>1, <1>2, <1>3, <1>4, <1>5, InvFrom

\* A call changes the object; the others are told.
LEMMA BecomesStep ==
  ASSUME DriversInv, NEW c \in Clients, NEW call \in D!CallRecords, NEW new \in D!Contents, D!Becomes(c, new, call),
         new # Absent => Placed(new, 0), Right(call, new), Accounted(c, call.session), Bounded
  PROVE  DriversInv'
<1>1. op \in [Clients -> D!CallRecords]
  BY DEF DriversInv, D!TypeOK
<1>2. obj' = new
  BY DEF D!Becomes
<1>3. ASSUME NEW d \in Clients
      PROVE  /\ op'[d] \in D!CallRecords /\ Right(op'[d], new)
             /\ op'[d].session = IF d = c THEN call.session ELSE op[d].session
  <2>1. op'[d] = IF d = c THEN call
                 ELSE IF op[d].answer = "none" /\ op[d].pc = "idle" THEN op[d]
                 ELSE [op[d] EXCEPT !.over = TRUE]
    BY DEF D!Becomes
  <2>2. op[d] \in D!CallRecords /\ Right(op[d], obj)
    BY CallIs
  <2>3. CASE d = c
    BY <2>1, <2>3
  <2>4. CASE d # c /\ op[d].answer = "none" /\ op[d].pc = "idle"
    <3>1. op'[d] = op[d]
      BY <2>1, <2>4
    <3>2. Right(op[d], new)
      BY <2>2, <2>4 DEF Right, Truth
    <3> QED BY <2>2, <2>4, <3>1, <3>2
  <2>5. CASE d # c /\ ~(op[d].answer = "none" /\ op[d].pc = "idle")
    <3>1. PICK r : r = [op[d] EXCEPT !.over = TRUE]
      OBVIOUS
    <3>2. /\ r \in D!CallRecords /\ r.over = TRUE /\ r.pc = op[d].pc /\ r.kind = op[d].kind /\ r.v = op[d].v
          /\ r.at = op[d].at /\ r.done = op[d].done /\ r.session = op[d].session /\ r.pos = op[d].pos
          /\ r.body = op[d].body /\ r.buf = op[d].buf /\ r.sought = op[d].sought /\ r.got = op[d].got
          /\ r.answer = op[d].answer /\ r.denied = op[d].denied
      BY <2>2, <3>1 DEF D!CallRecords
    <3>3. Right(r, new)
      BY <2>2, <3>2 DEF Right, Untouched, Delivering
    <3> QED BY <2>1, <2>5, <3>1, <3>2, <3>3
  <2> QED BY <2>3, <2>4, <2>5
<1>4. op' \in [Clients -> D!CallRecords]
  <2>1. op' = [d \in Clients |-> IF d = c THEN call
                 ELSE IF op[d].answer = "none" /\ op[d].pc = "idle" THEN op[d]
                 ELSE [op[d] EXCEPT !.over = TRUE]]
    BY DEF D!Becomes
  <2>2. PICK f : f = op'
    OBVIOUS
  <2>3. \A d \in Clients : f[d] \in D!CallRecords
    BY <1>3, <2>2
  <2> HIDE DEF D!Becomes
  <2>4. f = [d \in Clients |-> f[d]]
    BY <2>1, <2>2
  <2>5. f \in [Clients -> D!CallRecords]
    BY <2>3, <2>4
  <2> QED BY <2>2, <2>5
<1>5. SessionsInv'
  BY <1>3, AccountedIs
<1>6. \A d \in Clients : Right(op'[d], obj')
  BY <1>2, <1>3
<1> QED BY <1>2, <1>4, <1>5, <1>6, InvFrom

Answers == {"none", "ok", "error", "missing", "yes", "no"}

LEMMA FreshIs == D!Fresh \in D!CallRecords
<1>1. 0 \in 0 .. D!MaxSessions
  BY MaxSessionsIs
<1>2. Absent \in D!Contents
  BY ContentsAre
<1> HIDE DEF D!MaxSessions
<1> QED BY <1>1, <1>2 DEF D!Fresh, D!CallRecords

\* One field of a call changes.
LEMMA FieldsAre ==
  ASSUME NEW r \in D!CallRecords
  PROVE  /\ \A x \in {"idle", "start", "acquire", "ready", "stor", "mkcol", "retry", "rename", "read"} : [r EXCEPT !.pc = x] \in D!CallRecords
         /\ \A x \in 1 .. 2 : [r EXCEPT !.try = x] \in D!CallRecords
         /\ \A x \in 0 .. 2 : [r EXCEPT !.at = x] \in D!CallRecords
         /\ \A x \in 0 .. 2 : [r EXCEPT !.done = x] \in D!CallRecords
         /\ \A x \in 0 .. D!MaxSessions : [r EXCEPT !.session = x] \in D!CallRecords
         /\ \A x \in 0 .. 2 : [r EXCEPT !.size = x] \in D!CallRecords
         /\ \A x \in 0 .. 2 : [r EXCEPT !.pos = x] \in D!CallRecords
         /\ \A x \in D!Contents : [r EXCEPT !.body = x] \in D!CallRecords
         /\ \A x \in D!Contents : [r EXCEPT !.buf = x] \in D!CallRecords
         /\ \A x \in BOOLEAN : [r EXCEPT !.sought = x] \in D!CallRecords
         /\ \A x \in BOOLEAN : [r EXCEPT !.denied = x] \in D!CallRecords
         /\ \A x \in SUBSET ((0 .. 1) \X D!Pieces) : [r EXCEPT !.got = x] \in D!CallRecords
<1>1. \A x \in {"idle", "start", "acquire", "ready", "stor", "mkcol", "retry", "rename", "read"} : [r EXCEPT !.pc = x] \in D!CallRecords
  BY DEF D!CallRecords
<1>2. \A x \in 1 .. 2 : [r EXCEPT !.try = x] \in D!CallRecords
  BY DEF D!CallRecords
<1>3. \A x \in 0 .. 2 : [r EXCEPT !.at = x] \in D!CallRecords
  BY DEF D!CallRecords
<1>4. \A x \in 0 .. 2 : [r EXCEPT !.done = x] \in D!CallRecords
  BY DEF D!CallRecords
<1>5. \A x \in 0 .. D!MaxSessions : [r EXCEPT !.session = x] \in D!CallRecords
  BY DEF D!CallRecords
<1>6. \A x \in 0 .. 2 : [r EXCEPT !.size = x] \in D!CallRecords
  BY DEF D!CallRecords
<1>7. \A x \in 0 .. 2 : [r EXCEPT !.pos = x] \in D!CallRecords
  BY DEF D!CallRecords
<1>8. \A x \in D!Contents : [r EXCEPT !.body = x] \in D!CallRecords
  BY DEF D!CallRecords
<1>9. \A x \in D!Contents : [r EXCEPT !.buf = x] \in D!CallRecords
  BY DEF D!CallRecords
<1>10. \A x \in BOOLEAN : [r EXCEPT !.sought = x] \in D!CallRecords
  BY DEF D!CallRecords
<1>11. \A x \in BOOLEAN : [r EXCEPT !.denied = x] \in D!CallRecords
  BY DEF D!CallRecords
<1>12. \A x \in SUBSET ((0 .. 1) \X D!Pieces) : [r EXCEPT !.got = x] \in D!CallRecords
  BY DEF D!CallRecords
<1> QED BY <1>11, <1>12, <1>1, <1>2, <1>3, <1>4, <1>5, <1>6, <1>7, <1>8, <1>9, <1>10

\* A call that has returned.
LEMMA AnsweredIs ==
  ASSUME DriversInv, NEW c \in Clients, NEW answer \in Answers, NEW r, r = D!Answered(c, answer)
  PROVE  /\ r \in D!CallRecords /\ r.pc = "idle" /\ r.session = 0 /\ r.answer = answer /\ r.kind = op[c].kind
         /\ r.v = op[c].v /\ r.got = op[c].got /\ r.over = op[c].over /\ r.denied = op[c].denied
         /\ r.sought = op[c].sought
<1>1. op[c] \in D!CallRecords
  BY CallIs
<1>2. D!Fresh \in D!CallRecords
  BY FreshIs
<1>3. D!Fresh.pc = "idle" /\ D!Fresh.session = 0
  BY DEF D!Fresh
<1>4. r = [D!Fresh EXCEPT !.kind = op[c].kind, !.v = op[c].v, !.answer = answer, !.denied = op[c].denied,
                !.over = op[c].over, !.got = op[c].got, !.sought = op[c].sought, !.size = op[c].size]
  BY DEF D!Answered
<1> HIDE DEF D!Fresh
<1>5. /\ r.pc = "idle" /\ r.session = 0 /\ r.answer = answer /\ r.kind = op[c].kind
      /\ r.v = op[c].v /\ r.got = op[c].got /\ r.over = op[c].over /\ r.denied = op[c].denied
      /\ r.sought = op[c].sought
  BY <1>2, <1>3, <1>4 DEF D!CallRecords
<1>6. /\ op[c].kind \in {"put", "open", "exists", "delete"} /\ op[c].v \in {0} \cup D!Versions /\ op[c].size \in 0 .. 2
      /\ op[c].sought \in BOOLEAN /\ op[c].got \in SUBSET ((0 .. 1) \X D!Pieces)
      /\ op[c].denied \in BOOLEAN /\ op[c].over \in BOOLEAN
      /\ answer \in {"none", "ok", "error", "missing", "yes", "no"}
  BY <1>1 DEF D!CallRecords, Answers
<1>7. r \in D!CallRecords
  <2>1. PICK q : q = [D!Fresh EXCEPT !.kind = op[c].kind, !.v = op[c].v, !.answer = answer]
    OBVIOUS
  <2>2. q \in D!CallRecords
    BY <1>2, <1>6, <2>1 DEF D!CallRecords
  <2>3. PICK s : s = [q EXCEPT !.denied = op[c].denied, !.over = op[c].over, !.got = op[c].got]
    OBVIOUS
  <2>4. s \in D!CallRecords
    BY <1>6, <2>2, <2>3 DEF D!CallRecords
  <2>5. r = [s EXCEPT !.sought = op[c].sought, !.size = op[c].size]
    BY <1>2, <1>4, <2>1, <2>3 DEF D!CallRecords
  <2> QED BY <1>6, <2>4, <2>5 DEF D!CallRecords
<1> QED BY <1>5, <1>7

LEMMA ReturnsKeeping ==
  ASSUME DriversInv, NEW c \in Clients, NEW answer \in Answers \ {"none"}, D!Keeps(c, D!Answered(c, answer)),
         op[c].over \/ Truth(D!Answered(c, answer), obj), Bounded, Settled(c)
  PROVE  DriversInv'
<1>1. PICK r : r = D!Answered(c, answer)
  OBVIOUS
<1>2. /\ r \in D!CallRecords /\ r.pc = "idle" /\ r.session = 0 /\ r.answer = answer /\ r.kind = op[c].kind
      /\ r.v = op[c].v /\ r.got = op[c].got /\ r.over = op[c].over /\ r.denied = op[c].denied
      /\ r.sought = op[c].sought
  BY <1>1, AnsweredIs
<1>3. \A g \in op[c].got : g[2][2] = g[1] + 1
  BY CallIs DEF Right
<1>4. Right(r, obj)
  BY <1>1, <1>2, <1>3 DEF Right
<1>5. Accounted(c, r.session)
  BY <1>2 DEF Accounted, Settled
<1> QED BY <1>1, <1>2, <1>4, <1>5, KeepsStep

LEMMA ReturnsChanging ==
  ASSUME DriversInv, NEW c \in Clients, NEW answer \in Answers \ {"none"}, NEW new \in D!Contents,
         new # Absent => Placed(new, 0), D!Becomes(c, new, D!Answered(c, answer)),
         op[c].over \/ Truth(D!Answered(c, answer), new), Bounded, Settled(c)
  PROVE  DriversInv'
<1>1. PICK r : r = D!Answered(c, answer)
  OBVIOUS
<1>2. /\ r \in D!CallRecords /\ r.pc = "idle" /\ r.session = 0 /\ r.answer = answer /\ r.kind = op[c].kind
      /\ r.v = op[c].v /\ r.got = op[c].got /\ r.over = op[c].over /\ r.denied = op[c].denied
      /\ r.sought = op[c].sought
  BY <1>1, AnsweredIs
<1>3. \A g \in op[c].got : g[2][2] = g[1] + 1
  BY CallIs DEF Right
<1>4. Right(r, new)
  BY <1>1, <1>2, <1>3 DEF Right
<1>5. Accounted(c, r.session)
  BY <1>2 DEF Accounted, Settled
<1> QED BY <1>1, <1>2, <1>4, <1>5, BecomesStep

-----------------------------------------------------------------------------
(* Drivers: the steps.                                                     *)

LEMMA BoundedIs ==
  ASSUME DriversInv, UNCHANGED <<driver, server, version, calls>>, UNCHANGED mishaps \/ D!Mishap
  PROVE  Bounded
<1>1. mishaps \in 0 .. Mishaps /\ version \in 0 .. Len(Sizes) /\ calls \in 0 .. MaxCalls
  BY DEF DriversInv, D!TypeOK
<1>2. mishaps' \in 0 .. Mishaps
  BY <1>1, DriversAssumption DEF D!Mishap, DriversAssumption
<1> QED BY <1>1, <1>2 DEF Bounded

\* A call that goes on with its session, if any.
LEMMA GoesOn ==
  ASSUME DriversInv, NEW c \in Clients, NEW call \in D!CallRecords, D!Keeps(c, call), Right(call, obj),
         call.session = op[c].session, UNCHANGED <<pool, sessions, driver, server, version, calls>>,
         UNCHANGED mishaps \/ D!Mishap
  PROVE  DriversInv'
<1>1. Accounted(c, call.session)
  BY DEF Accounted
<1> QED BY <1>1, BoundedIs, KeepsStep

\* The same, when it changes the object.
LEMMA GoesOnChanging ==
  ASSUME DriversInv, NEW c \in Clients, NEW call \in D!CallRecords, NEW new \in D!Contents, D!Becomes(c, new, call),
         new # Absent => Placed(new, 0), Right(call, new),
         call.session = op[c].session, UNCHANGED <<pool, sessions, driver, server, version, calls>>,
         UNCHANGED mishaps \/ D!Mishap
  PROVE  DriversInv'
<1>1. Accounted(c, call.session)
  BY DEF Accounted
<1> QED BY <1>1, BoundedIs, BecomesStep

LEMMA ErrorStep ==
  ASSUME DriversInv, NEW c \in Clients, D!Keeps(c, D!Answered(c, "error")), Settled(c),
         UNCHANGED <<driver, server, version, calls>>, UNCHANGED mishaps \/ D!Mishap
  PROVE  DriversInv'
<1>1. "error" \in Answers \ {"none"}
  BY DEF Answers
<1>2. Truth(D!Answered(c, "error"), obj)
  <2>1. PICK r : r = D!Answered(c, "error")
    OBVIOUS
  <2>2. r.answer = "error"
    BY <1>1, <2>1, AnsweredIs
  <2> QED BY <2>1, <2>2 DEF Truth
<1> QED BY <1>1, <1>2, BoundedIs, ReturnsKeeping

LEMMA ErrorChanging ==
  ASSUME DriversInv, NEW c \in Clients, NEW new \in D!Contents, new # Absent => Placed(new, 0),
         D!Becomes(c, new, D!Answered(c, "error")), Settled(c),
         UNCHANGED <<driver, server, version, calls>>, UNCHANGED mishaps \/ D!Mishap
  PROVE  DriversInv'
<1>1. "error" \in Answers \ {"none"}
  BY DEF Answers
<1>2. Truth(D!Answered(c, "error"), new)
  <2>1. PICK r : r = D!Answered(c, "error")
    OBVIOUS
  <2>2. r.answer = "error"
    BY <1>1, <2>1, AnsweredIs
  <2> QED BY <2>1, <2>2 DEF Truth
<1> QED BY <1>1, <1>2, BoundedIs, ReturnsChanging

\* A call without a session has nothing to release.
LEMMA NoSession ==
  ASSUME DriversInv, NEW c \in Clients, op[c].pc \notin {"ready", "stor", "read"} \/ driver # "ftp",
         UNCHANGED <<pool, sessions>>
  PROVE  op[c].session = 0 /\ Settled(c)
BY CallIs DEF Right, Settled

LEMMA CallStep ==
  ASSUME DriversInv, NEW c \in Clients, D!Call(c)
  PROVE  DriversInv'
<1>1. op[c].pc = "idle" /\ calls < MaxCalls /\ calls' = calls + 1 /\ UNCHANGED <<driver, server, obj, pool, sessions, mishaps>>
  BY DEF D!Call
<1>2. PICK kind \in {"put", "open", "exists", "delete"} :
        /\ kind = "put" => version + 1 \in D!Versions
        /\ version' = IF kind = "put" THEN version + 1 ELSE version
        /\ op' = [op EXCEPT ![c] = [D!Fresh EXCEPT !.kind = kind, !.v = IF kind = "put" THEN version + 1 ELSE 0,
                                     !.pc = IF driver = "ftp" THEN "acquire" ELSE "start"]]
  BY DEF D!Call
<1>3. PICK v : v = IF kind = "put" THEN version + 1 ELSE 0
  OBVIOUS
<1>4. PICK pc : pc = IF driver = "ftp" THEN "acquire" ELSE "start"
  OBVIOUS
<1>5. PICK call : call = [D!Fresh EXCEPT !.kind = kind, !.v = v, !.pc = pc]
  OBVIOUS
<1>6. v \in {0} \cup D!Versions /\ (kind = "put" => v \in D!Versions) /\ pc \in {"acquire", "start"} /\ (pc = "acquire" => driver = "ftp")
  BY <1>2, <1>3, <1>4
<1>7. call \in D!CallRecords
  BY <1>5, <1>6, FreshIs DEF D!CallRecords
<1>8. call = [pc |-> pc, kind |-> kind, v |-> v, try |-> 1, at |-> 0, done |-> 0, session |-> 0,
              size |-> 0, pos |-> 0, body |-> Absent, buf |-> Absent, sought |-> FALSE, got |-> {},
              answer |-> "none", denied |-> FALSE, over |-> FALSE]
  BY <1>5 DEF D!Fresh
<1>9. Right(call, obj)
  BY <1>6, <1>8 DEF Right, Untouched
<1>10. D!Keeps(c, call)
  BY <1>1, <1>2, <1>3, <1>4, <1>5 DEF D!Keeps
<1>11. Accounted(c, call.session)
  BY <1>1, <1>8, NoSession DEF Accounted
<1>12. Bounded
  <2>1. mishaps \in 0 .. Mishaps /\ version \in 0 .. Len(Sizes) /\ calls \in 0 .. MaxCalls
    BY DEF DriversInv, D!TypeOK
  <2>2. calls' \in 0 .. MaxCalls
    BY <1>1, <2>1, DriversAssumption DEF DriversAssumption
  <2>3. version' \in 0 .. Len(Sizes)
    BY <1>2, <2>1, SizesAre
  <2> QED BY <1>1, <2>1, <2>2, <2>3 DEF Bounded
<1> QED BY <1>7, <1>9, <1>10, <1>11, <1>12, KeepsStep

LEMMA AcquireStep ==
  ASSUME DriversInv, NEW c \in Clients, D!Acquire(c)
  PROVE  DriversInv'
<1>1. op[c].pc = "acquire" /\ UNCHANGED <<driver, server, obj, version, calls>> /\ SessionsInv
  BY DEF D!Acquire, DriversInv
<1>2. /\ op[c] \in D!CallRecords /\ Right(op[c], obj) /\ op[c].session = 0 /\ driver = "ftp"
      /\ op \in [Clients -> D!CallRecords]
  BY <1>1, CallIs DEF Right, DriversInv, D!TypeOK
\* With a session the call is ready.
<1>3. ASSUME NEW s \in 1 .. D!MaxSessions, op' = [op EXCEPT ![c].pc = "ready", ![c].session = s], SessionsInv', UNCHANGED mishaps
      PROVE  DriversInv'
  <2>1. PICK call : call = [op[c] EXCEPT !.pc = "ready", !.session = s]
    OBVIOUS
  <2>2. s \in 0 .. D!MaxSessions
    BY MaxSessionsIs
  <2>3. call \in D!CallRecords
    <3>1. PICK q : q = [op[c] EXCEPT !.pc = "ready"]
      OBVIOUS
    <3>2. q \in D!CallRecords
      BY <1>2, <3>1 DEF D!CallRecords
    <3>3. call = [q EXCEPT !.session = s]
      BY <1>2, <2>1, <3>1 DEF D!CallRecords
    <3> HIDE DEF D!MaxSessions
    <3> QED BY <2>2, <3>2, <3>3 DEF D!CallRecords
  <2>4. op' = [op EXCEPT ![c] = call]
    BY <1>2, <1>3, <2>1
  <2>5. Right(call, obj)
    BY <1>1, <1>2, <2>1 DEF Right, Untouched, D!CallRecords
  <2>6. op' \in [Clients -> D!CallRecords] /\ \A d \in Clients : op'[d] = IF d = c THEN call ELSE op[d]
    BY <1>2, <2>3, <2>4
  <2>7. Bounded
    BY <1>1, <1>3, BoundedIs
  <2>8. \A d \in Clients : Right(op'[d], obj')
    BY <1>1, <2>5, <2>6, CallIs
  <2>9. obj' \in D!Contents /\ (obj' # Absent => Placed(obj', 0))
    BY <1>1 DEF DriversInv, D!TypeOK
  <2> QED BY <1>3, <2>6, <2>7, <2>8, <2>9, InvFrom
<1>4. ASSUME NEW s, op' = [op EXCEPT ![c].pc = "ready", ![c].session = s]
      PROVE  \A d \in Clients : op'[d].session = IF d = c THEN s ELSE op[d].session
  BY <1>2, <1>4 DEF D!CallRecords
<1>5. CASE /\ pool # <<>> /\ pool[Len(pool)].good
           /\ op' = [op EXCEPT ![c].pc = "ready", ![c].session = pool[Len(pool)].id]
           /\ pool' = SubSeq(pool, 1, Len(pool) - 1)
           /\ UNCHANGED <<sessions, mishaps>>
  <2>1. PICK s : s = pool[Len(pool)].id
    OBVIOUS
  <2>2. op' = [op EXCEPT ![c].pc = "ready", ![c].session = s]
    BY <1>5, <2>1
  <2>3. s \in 1 .. D!MaxSessions
    BY <1>1, <1>5, <2>1, PoolFront
  <2>4. \A d \in Clients : op'[d].session = IF d = c THEN pool[Len(pool)].id ELSE op[d].session
    BY <1>4, <2>1, <2>2
  <2>5. SessionsInv'
    BY <1>1, <1>2, <1>5, <2>4, SessionReused
  <2> QED BY <1>3, <1>5, <2>2, <2>3, <2>5
<1>6. CASE /\ pool # <<>> /\ ~pool[Len(pool)].good
           /\ pool' = SubSeq(pool, 1, Len(pool) - 1)
           /\ sessions' = sessions \ {pool[Len(pool)].id}
           /\ UNCHANGED <<op, mishaps>>
  <2>1. SessionsInv'
    BY <1>1, <1>6, SessionStale
  <2>2. Bounded
    BY <1>1, <1>6, BoundedIs
  <2>3. \A d \in Clients : Right(op'[d], obj')
    BY <1>1, <1>6, CallIs
  <2>4. op' \in [Clients -> D!CallRecords] /\ obj' \in D!Contents /\ (obj' # Absent => Placed(obj', 0))
    BY <1>1, <1>6 DEF DriversInv, D!TypeOK
  <2> QED BY <2>1, <2>2, <2>3, <2>4, InvFrom
<1>7. CASE /\ pool = <<>>
           /\ LET free == (1 .. D!MaxSessions) \ sessions
                  new == CHOOSE s \in free : \A t \in free : s <= t IN
              /\ op' = [op EXCEPT ![c].pc = "ready", ![c].session = new]
              /\ sessions' = sessions \cup {new}
           /\ UNCHANGED <<pool, mishaps>>
  <2> DEFINE free == (1 .. D!MaxSessions) \ sessions
             new == CHOOSE s \in free : \A t \in free : s <= t
  <2>0. new \in (1 .. D!MaxSessions) \ sessions
    BY <1>1, <1>2, <1>7, SessionFree
  <2>1. PICK s : s = new
    OBVIOUS
  <2>2. s \in (1 .. D!MaxSessions) \ sessions
    BY <2>0, <2>1
  <2>3. op' = [op EXCEPT ![c].pc = "ready", ![c].session = s] /\ sessions' = sessions \cup {s}
    BY <1>7, <2>1
  <2>4. \A d \in Clients : op'[d].session = IF d = c THEN s ELSE op[d].session
    BY <1>4, <2>3
  <2>5. SessionsInv'
    BY <1>1, <1>2, <1>7, <2>2, <2>3, <2>4, SessionOpened
  <2> QED BY <1>3, <1>7, <2>2, <2>3, <2>5
<1>8. CASE /\ pool = <<>> /\ D!Mishap
           /\ op' = [op EXCEPT ![c] = D!Answered(c, "error")]
           /\ UNCHANGED <<pool, sessions>>
  <2>1. D!Keeps(c, D!Answered(c, "error")) /\ Settled(c)
    BY <1>1, <1>2, <1>8 DEF D!Keeps, Settled
  <2> QED BY <1>1, <1>8, <2>1, ErrorStep
<1> QED BY <1>5, <1>6, <1>7, <1>8 DEF D!Acquire

LEMMA AgeStep ==
  ASSUME DriversInv, NEW i, D!Age(i)
  PROVE  DriversInv'
<1>1. /\ i \in DOMAIN pool /\ pool' = [pool EXCEPT ![i].good = FALSE]
      /\ UNCHANGED <<driver, server, obj, op, sessions, version, calls, mishaps>>
  BY DEF D!Age
<1>2. pool \in Seq(PoolRecords) /\ Len(pool) \in Nat /\ DOMAIN pool = 1 .. Len(pool)
  BY PoolIs DEF DriversInv, SessionsInv
<1>3. PICK n : n = Len(pool)
  OBVIOUS
<1>4. PICK r : r = [pool[i] EXCEPT !.good = FALSE]
  OBVIOUS
<1>5. pool[i] \in PoolRecords /\ i \in 1 .. n
  BY <1>1, <1>2, <1>3
<1>6. r \in PoolRecords /\ r.id = pool[i].id
  BY <1>4, <1>5 DEF PoolRecords
<1>7. pool' = [pool EXCEPT ![i] = r]
  BY <1>1, <1>4
<1>8. pool' \in Seq(PoolRecords) /\ Len(pool') = n
  <2>1. PICK q : q = pool'
    OBVIOUS
  <2>2. PICK T : T = PoolRecords
    OBVIOUS
  <2>3. pool \in Seq(T) /\ r \in T /\ q = [pool EXCEPT ![i] = r] /\ i \in 1 .. n /\ n = Len(pool) /\ n \in Nat
    BY <1>2, <1>3, <1>5, <1>6, <1>7, <2>1, <2>2
  <2>4. q \in Seq(T) /\ Len(q) = n
    BY <2>3
  <2> QED BY <2>1, <2>2, <2>4
<1>9. ASSUME NEW j \in 1 .. n PROVE pool'[j].id = pool[j].id
  <2>1. pool' = [k \in 1 .. n |-> IF k = i THEN r ELSE pool[k]]
    BY <1>2, <1>3, <1>7
  <2>2. pool'[j] = IF j = i THEN r ELSE pool[j]
    BY <2>1
  <2> QED BY <1>6, <2>2
<1>10. SessionsInv'
  <2>1. Unshared' /\ PooledOnce' /\ NotPooled'
    BY <1>1, <1>3, <1>8, <1>9 DEF DriversInv, SessionsInv, Unshared, PooledOnce, NotPooled
  <2>2. OpenAre'
    BY <1>1, <1>3, <1>8, <1>9 DEF DriversInv, SessionsInv, OpenAre, D!MaxSessions
  <2>3. Len(pool') <= MaxPool /\ sessions' \subseteq 1 .. D!MaxSessions
    BY <1>1, <1>3, <1>8 DEF DriversInv, SessionsInv
  <2> QED BY <1>8, <2>1, <2>2, <2>3 DEF SessionsInv, D!MaxSessions, PoolRecords
<1>11. Bounded
  BY <1>1, BoundedIs
<1>12. \A d \in Clients : Right(op'[d], obj')
  BY <1>1, CallIs
<1>13. op' \in [Clients -> D!CallRecords] /\ obj' \in D!Contents /\ (obj' # Absent => Placed(obj', 0))
  BY <1>1 DEF DriversInv, D!TypeOK
<1> QED BY <1>10, <1>11, <1>12, <1>13, InvFrom

-----------------------------------------------------------------------------
(* Drivers: Put.                                                           *)

\* A version's object, put as a whole.
LEMMA PutWhole ==
  ASSUME DriversInv, NEW c \in Clients, op[c].kind = "put", op[c].pc \in {"start", "retry", "rename"},
         UNCHANGED <<driver, server, pool, sessions, version, calls>>
  PROVE  /\ op[c].v \in D!Versions /\ D!Whole(op[c].v) \in D!Contents /\ Placed(D!Whole(op[c].v), 0)
         /\ op[c].session = 0 /\ Settled(c)
<1>1. op[c].v \in D!Versions
  BY CallIs DEF Right, Untouched
<1>2. D!Whole(op[c].v) \in D!Contents /\ Placed(D!Whole(op[c].v), 0)
  BY <1>1, WholeIs, ContentsAre
<1> QED BY <1>1, <1>2, NoSession

LEMMA PutDone ==
  ASSUME DriversInv, NEW c \in Clients, op[c].kind = "put", op[c].pc \in {"start", "retry", "rename"},
         D!Becomes(c, D!Whole(op[c].v), D!Answered(c, "ok")),
         UNCHANGED <<driver, server, pool, sessions, version, calls, mishaps>>
  PROVE  DriversInv'
<1>1. "ok" \in Answers \ {"none"}
  BY DEF Answers
<1>2. Truth(D!Answered(c, "ok"), D!Whole(op[c].v))
  <2>1. PICK r : r = D!Answered(c, "ok")
    OBVIOUS
  <2>2. r.answer = "ok" /\ r.kind = "put" /\ r.v = op[c].v
    BY <1>1, <2>1, AnsweredIs
  <2> QED BY <2>1, <2>2 DEF Truth
<1> QED BY <1>1, <1>2, PutWhole, BoundedIs, ReturnsChanging

LEMMA PutFailed ==
  ASSUME DriversInv, NEW c \in Clients, op[c].kind = "put", op[c].pc \in {"start", "retry", "rename"}, D!PutFails(c),
         UNCHANGED <<driver, server, pool, sessions, version, calls>>
  PROVE  DriversInv'
BY PutWhole, ErrorStep, ErrorChanging DEF D!PutFails

\* A put goes on to its next request, with the body at a position.
LEMMA PutGoesOn ==
  ASSUME DriversInv, NEW c \in Clients, op[c].kind = "put", op[c].pc \in {"start", "mkcol"},
         NEW pc \in {"mkcol", "retry", "rename"}, NEW at \in 0 .. 2, pc = "retry" => at = 0,
         D!Keeps(c, [op[c] EXCEPT !.pc = pc, !.at = at]),
         UNCHANGED <<driver, server, pool, sessions, version, calls, mishaps>>
  PROVE  DriversInv'
<1>1. PICK call : call = [op[c] EXCEPT !.pc = pc, !.at = at]
  OBVIOUS
<1>2. op[c] \in D!CallRecords /\ Right(op[c], obj) /\ op[c].session = 0
  BY CallIs, NoSession
<1>3. /\ call.pc = pc /\ call.at = at /\ call.kind = "put" /\ call.v = op[c].v /\ call.session = op[c].session
      /\ call.got = op[c].got /\ call.answer = op[c].answer /\ call.denied = op[c].denied /\ call.pos = op[c].pos
      /\ call.sought = op[c].sought /\ call.buf = op[c].buf /\ call.body = op[c].body
  BY <1>1, <1>2 DEF D!CallRecords
<1>4. call \in D!CallRecords
  <2>1. PICK q : q = [op[c] EXCEPT !.pc = pc]
    OBVIOUS
  <2>2. q \in D!CallRecords
    BY <1>2, <2>1, FieldsAre
  <2>3. call = [q EXCEPT !.at = at]
    BY <1>1, <1>2, <2>1 DEF D!CallRecords
  <2> QED BY <2>2, <2>3, FieldsAre
<1>5. Right(call, obj)
  BY <1>2, <1>3 DEF Right, Untouched
<1> QED BY <1>1, <1>3, <1>4, <1>5, GoesOn

LEMMA LocalPutStep ==
  ASSUME DriversInv, NEW c \in Clients, D!LocalPut(c) \/ D!LocalRename(c)
  PROVE  DriversInv'
<1>1. CASE D!LocalPut(c)
  <2>1. driver = "local" /\ op[c].pc = "start" /\ op[c].kind = "put" /\ UNCHANGED <<driver, server, obj, pool, sessions, version, calls>>
    BY <1>1 DEF D!LocalPut
  <2>2. CASE op' = [op EXCEPT ![c].pc = "rename"] /\ UNCHANGED mishaps
    <3>1. op[c] \in D!CallRecords /\ op[c].at \in 0 .. 2
      BY CallIs
    <3>2. PICK call : call = [op[c] EXCEPT !.pc = "rename"]
      OBVIOUS
    <3>3. call = [op[c] EXCEPT !.pc = "rename", !.at = op[c].at]
      BY <3>1, <3>2 DEF D!CallRecords
    <3>4. D!Keeps(c, call)
      BY <2>1, <2>2, <3>2 DEF D!Keeps
    <3> QED BY <2>1, <2>2, <3>1, <3>3, <3>4, PutGoesOn
  <2>3. CASE op' = [op EXCEPT ![c] = D!Answered(c, "error")] /\ D!Mishap
    <3>1. D!Keeps(c, D!Answered(c, "error"))
      BY <2>1, <2>3 DEF D!Keeps
    <3> QED BY <2>1, <2>3, <3>1, PutWhole, ErrorStep
  <2> QED BY <1>1, <2>2, <2>3 DEF D!LocalPut
<1>2. CASE D!LocalRename(c)
  <2>1. op[c].pc = "rename" /\ op[c].kind = "put"
    BY <1>2, CallIs DEF D!LocalRename, Right
  <2> QED BY <1>2, <2>1, PutDone DEF D!LocalRename
<1> QED BY <1>1, <1>2

LEMMA HttpPutStep ==
  ASSUME DriversInv, NEW c \in Clients, D!S3Put(c) \/ D!WebdavPut(c) \/ D!MkcolParents(c) \/ D!WebdavRetry(c)
  PROVE  DriversInv'
<1>1. CASE D!S3Put(c)
  <2>1. /\ op[c].pc = "start" /\ op[c].kind = "put" /\ UNCHANGED <<driver, server, pool, sessions, version, calls>>
        /\ (D!Becomes(c, D!Whole(op[c].v), D!Answered(c, "ok")) /\ UNCHANGED mishaps) \/ D!PutFails(c)
    BY <1>1 DEF D!S3Put
  <2> QED BY <2>1, PutDone, PutFailed
<1>2. CASE D!WebdavPut(c)
  <2>1. op[c].pc = "start" /\ op[c].kind = "put" /\ UNCHANGED <<driver, server, pool, sessions, version, calls>>
    BY <1>2 DEF D!WebdavPut
  <2>2. CASE \/ (D!Becomes(c, D!Whole(op[c].v), D!Answered(c, "ok")) /\ UNCHANGED mishaps)
             \/ D!PutFails(c)
    BY <2>1, <2>2, PutDone, PutFailed
  <2>3. CASE /\ \E sent \in {0, Sizes[op[c].v]} : D!Keeps(c, [op[c] EXCEPT !.pc = "mkcol", !.at = sent])
             /\ UNCHANGED mishaps
    <3>1. PICK sent \in {0, Sizes[op[c].v]} : D!Keeps(c, [op[c] EXCEPT !.pc = "mkcol", !.at = sent])
      BY <2>3
    <3>2. sent \in 0 .. 2
      BY <2>1, PutWhole, SizesAre
    <3> QED BY <2>1, <2>3, <3>1, <3>2, PutGoesOn
  <2> QED BY <1>2, <2>2, <2>3 DEF D!WebdavPut
<1>3. CASE D!MkcolParents(c)
  <2>1. op[c].pc = "mkcol" /\ op[c].kind = "put" /\ UNCHANGED <<driver, server, obj, pool, sessions, version, calls>>
    BY <1>3, CallIs DEF D!MkcolParents, Right
  <2>2. CASE op' = [op EXCEPT ![c].pc = "retry", ![c].at = D!Rewound(c)] /\ UNCHANGED mishaps
    <3>1. op[c] \in D!CallRecords /\ op \in [Clients -> D!CallRecords]
      BY CallIs DEF DriversInv, D!TypeOK
    <3>2. D!Keeps(c, [op[c] EXCEPT !.pc = "retry", !.at = 0])
      BY <2>1, <2>2, <3>1 DEF D!Keeps, D!Rewound
    <3>3. 0 \in 0 .. 2
      OBVIOUS
    <3> QED BY <2>1, <2>2, <3>2, <3>3, PutGoesOn
  <2>3. CASE op' = [op EXCEPT ![c] = D!Answered(c, "error")] /\ D!Mishap
    <3>1. D!Keeps(c, D!Answered(c, "error"))
      BY <2>1, <2>3 DEF D!Keeps
    <3> QED BY <2>1, <2>3, <3>1, NoSession, ErrorStep
  <2> QED BY <1>3, <2>2, <2>3 DEF D!MkcolParents
<1>4. CASE D!WebdavRetry(c)
  <2>1. /\ op[c].pc = "retry" /\ op[c].kind = "put" /\ op[c].at = 0
        /\ UNCHANGED <<driver, server, pool, sessions, version, calls>>
        /\ (D!Becomes(c, D!From(D!Whole(op[c].v), op[c].at), D!Answered(c, "ok")) /\ UNCHANGED mishaps) \/ D!PutFails(c)
    BY <1>4, CallIs DEF D!WebdavRetry, Right
  <2>2. D!From(D!Whole(op[c].v), op[c].at) = D!Whole(op[c].v)
    <3>1. D!Whole(op[c].v) \in Objects
      BY <2>1, PutWhole, WholeIs
    <3> QED BY <2>1, <3>1, FromTail
  <2> QED BY <2>1, <2>2, PutDone, PutFailed
<1> QED BY <1>1, <1>2, <1>3, <1>4

LEMMA FtpStorStep ==
  ASSUME DriversInv, NEW c \in Clients, D!FtpStor(c)
  PROVE  DriversInv'
<1>1. /\ op[c].pc = "ready" /\ op[c].kind = "put" /\ D!Becomes(c, <<>>, [op[c] EXCEPT !.pc = "stor", !.done = 0])
      /\ UNCHANGED <<driver, server, pool, sessions, version, calls, mishaps>>
  BY DEF D!FtpStor
<1>2. PICK call : call = [op[c] EXCEPT !.pc = "stor", !.done = 0]
  OBVIOUS
<1>3. op[c] \in D!CallRecords /\ Right(op[c], obj)
  BY CallIs
<1>4. /\ call.pc = "stor" /\ call.at = op[c].at /\ call.done = 0 /\ call.kind = "put" /\ call.v = op[c].v
      /\ call.session = op[c].session
      /\ call.got = op[c].got /\ call.answer = op[c].answer /\ call.denied = op[c].denied /\ call.pos = op[c].pos
      /\ call.sought = op[c].sought /\ call.buf = op[c].buf /\ call.body = op[c].body
  BY <1>1, <1>2, <1>3 DEF D!CallRecords
<1>5. call \in D!CallRecords
  <2>1. PICK q : q = [op[c] EXCEPT !.pc = "stor"]
    OBVIOUS
  <2>2. q \in D!CallRecords
    BY <1>3, <2>1, FieldsAre
  <2>3. call = [q EXCEPT !.done = 0] /\ 0 \in 0 .. 2
    BY <1>2, <1>3, <2>1 DEF D!CallRecords
  <2> QED BY <2>2, <2>3, FieldsAre
<1>6. op[c].v \in D!Versions
  BY <1>1, <1>3 DEF Right, Untouched
<1>7. <<>> = Begun(op[c].v, 0) /\ <<>> \in D!Contents /\ Placed(<<>>, 0)
  BY ContentsAre DEF Begun, Placed, D!Contents
<1>8. Right(call, <<>>)
  BY <1>1, <1>3, <1>4, <1>7 DEF Right, Untouched
<1> QED BY <1>1, <1>2, <1>4, <1>5, <1>7, <1>8, GoesOnChanging

LEMMA FtpStorPieceStep ==
  ASSUME DriversInv, NEW c \in Clients, D!FtpStorPiece(c)
  PROVE  DriversInv'
<1>1. /\ op[c].pc = "stor" /\ op[c].at < Sizes[op[c].v]
      /\ UNCHANGED <<driver, server, pool, sessions, version, calls, mishaps>>
  BY DEF D!FtpStorPiece
<1>2. op[c] \in D!CallRecords /\ Right(op[c], obj) /\ op[c].kind = "put" /\ op[c].at = op[c].done /\ op[c].v \in D!Versions
      /\ op[c].done \in 0 .. 2 /\ (obj # Absent => Placed(obj, 0)) /\ obj \in D!Contents
  BY <1>1, CallIs DEF Right, Untouched, DriversInv
<1>3. PICK i : i = op[c].done + 1
  OBVIOUS
<1>4. i \in 1 .. 2 /\ i \in 0 .. 2 /\ i = op[c].at + 1
  BY <1>1, <1>2, <1>3, SizesAre
<1>5. PICK call : call = [op[c] EXCEPT !.at = @ + 1, !.done = @ + 1]
  OBVIOUS
<1>6. call = [op[c] EXCEPT !.at = i, !.done = i]
  BY <1>2, <1>3, <1>4, <1>5 DEF D!CallRecords
<1>7. /\ call.pc = "stor" /\ call.at = i /\ call.done = i /\ call.kind = "put" /\ call.v = op[c].v
      /\ call.session = op[c].session /\ call.over = op[c].over
      /\ call.got = op[c].got /\ call.answer = op[c].answer /\ call.denied = op[c].denied /\ call.pos = op[c].pos
      /\ call.sought = op[c].sought /\ call.buf = op[c].buf /\ call.body = op[c].body
  BY <1>1, <1>2, <1>6 DEF D!CallRecords
<1>8. call \in D!CallRecords
  BY <1>2, <1>4, <1>6 DEF D!CallRecords
<1>9. ASSUME NEW new, ~op[c].over => new = Begun(op[c].v, i)
      PROVE  Right(call, new)
  BY <1>1, <1>2, <1>7, <1>9 DEF Right, Untouched
<1>10. op[c].over \/ obj = Begun(op[c].v, op[c].done)
  BY <1>1, <1>2 DEF Right
<1>11. CASE obj = Absent /\ D!Keeps(c, call)
  <2>1. op[c].over
    <3>1. Begun(op[c].v, op[c].done) \in Objects
      BY <1>2, BegunIs
    <3> QED BY <1>10, <1>11, <3>1, ContentsAre
  <2>2. Right(call, obj)
    BY <1>9, <2>1
  <2> QED BY <1>1, <1>7, <1>8, <1>11, <2>2, GoesOn
<1>12. CASE /\ obj # Absent
            /\ D!Becomes(c, [j \in 1 .. (IF i > Len(obj) THEN i ELSE Len(obj)) |->
                             IF j = i THEN <<op[c].v, op[c].at + 1>>
                             ELSE IF j <= Len(obj) THEN obj[j] ELSE <<0, j>>], call)
  <2>1. D!Becomes(c, Written(obj, i, <<op[c].v, i>>), call)
    BY <1>4, <1>12 DEF Written
  <2>2. PICK new : new = Written(obj, i, <<op[c].v, i>>)
    OBVIOUS
  <2>3. obj \in Objects /\ Placed(obj, 0) /\ i - 1 = op[c].done
    BY <1>2, <1>3, <1>12, ContentsAre
  <2>4. new \in Objects /\ Placed(new, 0) /\ (obj = Begun(op[c].v, i - 1) => new = Begun(op[c].v, i))
    BY <1>2, <1>4, <2>2, <2>3, WrittenIs
  <2>5. new \in D!Contents /\ Right(call, new)
    BY <1>9, <1>10, <2>3, <2>4, ContentsAre
  <2> QED BY <1>1, <1>7, <1>8, <2>1, <2>2, <2>4, <2>5, GoesOnChanging
<1> QED BY <1>3, <1>5, <1>11, <1>12 DEF D!FtpStorPiece

LEMMA FtpStorEndStep ==
  ASSUME DriversInv, NEW c \in Clients, D!FtpStorEnd(c)
  PROVE  DriversInv'
<1>1. op[c].pc = "stor" /\ UNCHANGED <<driver, server, version, calls>>
  BY DEF D!FtpStorEnd
<1>2. /\ op[c] \in D!CallRecords /\ Right(op[c], obj) /\ op[c].kind = "put" /\ op[c].at = op[c].done /\ op[c].v \in D!Versions
      /\ (op[c].over \/ obj = Begun(op[c].v, op[c].done))
  BY <1>1, CallIs DEF Right, Untouched
<1>3. CASE op[c].at = Sizes[op[c].v] /\ D!Keeps(c, D!Answered(c, "ok")) /\ D!Release(c, FALSE) /\ UNCHANGED mishaps
  <2>1. "ok" \in Answers \ {"none"}
    BY DEF Answers
  <2>2. op[c].over \/ Truth(D!Answered(c, "ok"), obj)
    <3>1. PICK r : r = D!Answered(c, "ok")
      OBVIOUS
    <3>2. r.answer = "ok" /\ r.kind = "put" /\ r.v = op[c].v
      BY <1>2, <2>1, <3>1, AnsweredIs
    <3>3. op[c].over \/ obj = D!Whole(op[c].v)
      BY <1>2, <1>3, WholeIs
    <3> QED BY <3>1, <3>2, <3>3 DEF Truth
  <2>3. Settled(c)
    BY <1>3 DEF Settled
  <2> QED BY <1>1, <1>3, <2>1, <2>2, <2>3, BoundedIs, ReturnsKeeping
<1>4. CASE /\ op[c].try = 1 /\ D!Mishap
           /\ D!Keeps(c, [op[c] EXCEPT !.pc = "ready", !.try = 2, !.at = D!Rewound(c)])
           /\ UNCHANGED <<pool, sessions>>
  <2>1. PICK call : call = [op[c] EXCEPT !.pc = "ready", !.try = 2, !.at = 0]
    OBVIOUS
  <2>2. D!Keeps(c, call)
    BY <1>4, <2>1 DEF D!Rewound
  <2>3. /\ call.pc = "ready" /\ call.at = 0 /\ call.kind = "put" /\ call.v = op[c].v
        /\ call.session = op[c].session /\ call.over = op[c].over
        /\ call.got = op[c].got /\ call.answer = op[c].answer /\ call.denied = op[c].denied /\ call.pos = op[c].pos
        /\ call.sought = op[c].sought /\ call.buf = op[c].buf /\ call.body = op[c].body
    BY <1>2, <2>1 DEF D!CallRecords
  <2>4. call \in D!CallRecords
    <3>1. PICK q : q = [op[c] EXCEPT !.pc = "ready"]
      OBVIOUS
    <3>2. PICK t : t = [q EXCEPT !.try = 2]
      OBVIOUS
    <3>3. q \in D!CallRecords
      BY <1>2, <3>1, FieldsAre
    <3>5. t \in D!CallRecords
      <4>1. 2 \in 1 .. 2
        OBVIOUS
      <4> QED BY <3>2, <3>3, <4>1, FieldsAre
    <3>4. call = [t EXCEPT !.at = 0] /\ 0 \in 0 .. 2
      BY <1>2, <2>1, <3>1, <3>2 DEF D!CallRecords
    <3> QED BY <3>4, <3>5, FieldsAre
  <2>5. Right(call, obj)
    BY <1>1, <1>2, <2>3 DEF Right, Untouched
  <2> QED BY <1>1, <1>4, <2>2, <2>3, <2>4, <2>5, GoesOn
<1>5. CASE op[c].try = 2 /\ D!Mishap /\ D!Keeps(c, D!Answered(c, "error")) /\ D!Release(c, TRUE)
  <2>1. Settled(c)
    BY <1>5 DEF Settled
  <2> QED BY <1>1, <1>5, <2>1, ErrorStep
<1> QED BY <1>3, <1>4, <1>5 DEF D!FtpStorEnd

-----------------------------------------------------------------------------
(* Drivers: Exists and Delete.                                             *)

\* A call about to send its request.
LEMMA AskedIs ==
  ASSUME DriversInv, NEW c \in Clients, NEW kind, D!Asked(c, kind)
  PROVE  /\ op[c] \in D!CallRecords /\ Right(op[c], obj) /\ Untouched(op[c]) /\ op[c].kind = kind
         /\ op[c].answer = "none" /\ ~op[c].denied /\ op[c].pc \in {"ready", "start"}
<1>1. op[c] \in D!CallRecords /\ Right(op[c], obj)
  BY CallIs
<1>2. op[c].kind = kind /\ op[c].pc \in {"ready", "start"}
  BY DEF D!Asked
<1> QED BY <1>1, <1>2 DEF Right

LEMMA FailsStep ==
  ASSUME DriversInv, NEW c \in Clients, D!Fails(c), UNCHANGED <<driver, server, version, calls>>
  PROVE  DriversInv'
<1>1. D!Keeps(c, D!Answered(c, "error")) /\ D!Mishap /\ Settled(c)
  BY DEF D!Fails, Settled
<1> QED BY <1>1, ErrorStep

LEMMA DeniesStep ==
  ASSUME DriversInv, NEW c \in Clients, D!Denies(c), UNCHANGED <<driver, server, version, calls>>
  PROVE  DriversInv'
<1>1. PICK answer : answer = IF op[c].kind = "open" THEN "missing" ELSE IF op[c].kind = "exists" THEN "no" ELSE "ok"
  OBVIOUS
<1>2. D!Mishap /\ D!Keeps(c, [D!Answered(c, answer) EXCEPT !.denied = TRUE]) /\ D!Release(c, FALSE)
  BY <1>1 DEF D!Denies
<1>3. answer \in Answers /\ answer # "none"
  BY <1>1 DEF Answers
<1>4. PICK r : r = D!Answered(c, answer)
  OBVIOUS
<1>5. r \in D!CallRecords /\ r.pc = "idle" /\ r.session = 0 /\ r.answer = answer /\ r.got = op[c].got
  BY <1>3, <1>4, AnsweredIs
<1>6. PICK call : call = [r EXCEPT !.denied = TRUE]
  OBVIOUS
<1>7. call \in D!CallRecords
  BY <1>5, <1>6, FieldsAre
<1>8. call.pc = "idle" /\ call.session = 0 /\ call.answer = answer /\ call.got = op[c].got /\ call.denied
  BY <1>5, <1>6 DEF D!CallRecords
<1>9. \A g \in op[c].got : g[2][2] = g[1] + 1
  BY CallIs DEF Right
<1>10. Right(call, obj)
  BY <1>3, <1>8, <1>9 DEF Right
<1>11. Accounted(c, call.session)
  BY <1>2, <1>8 DEF Accounted
<1>12. D!Keeps(c, call)
  BY <1>2, <1>4, <1>6
<1> QED BY <1>2, <1>7, <1>10, <1>11, <1>12, BoundedIs, KeepsStep

LEMMA TellsStep ==
  ASSUME DriversInv, NEW c \in Clients, D!Tells(c), Settled(c), op[c].kind = "exists",
         UNCHANGED <<driver, server, version, calls, mishaps>>
  PROVE  DriversInv'
<1>1. PICK answer : answer = IF obj = Absent THEN "no" ELSE "yes"
  OBVIOUS
<1>2. D!Keeps(c, D!Answered(c, answer)) /\ answer \in Answers \ {"none"} /\ answer \in Answers
  BY <1>1 DEF D!Tells, Answers
<1>3. Truth(D!Answered(c, answer), obj)
  <2>1. PICK r : r = D!Answered(c, answer)
    OBVIOUS
  <2>2. r.answer = answer
    BY <1>2, <2>1, AnsweredIs
  <2> QED BY <1>1, <2>1, <2>2 DEF Truth
<1> QED BY <1>2, <1>3, BoundedIs, ReturnsKeeping

\* An answer that says of the object what it is, or that the deletion has left none.
LEMMA OkStep ==
  ASSUME DriversInv, NEW c \in Clients, op[c].kind = "delete", obj = Absent, D!Keeps(c, D!Answered(c, "ok")), Settled(c),
         UNCHANGED <<driver, server, version, calls, mishaps>>
  PROVE  DriversInv'
<1>1. "ok" \in Answers \ {"none"} /\ "ok" \in Answers
  BY DEF Answers
<1>2. Truth(D!Answered(c, "ok"), obj)
  <2>1. PICK r : r = D!Answered(c, "ok")
    OBVIOUS
  <2>2. r.answer = "ok" /\ r.kind = "delete"
    BY <1>1, <2>1, AnsweredIs
  <2> QED BY <2>1, <2>2 DEF Truth
<1> QED BY <1>1, <1>2, BoundedIs, ReturnsKeeping

LEMMA DeletesStep ==
  ASSUME DriversInv, NEW c \in Clients, op[c].kind = "delete", D!Deletes(c), Settled(c),
         UNCHANGED <<driver, server, version, calls, mishaps>>
  PROVE  DriversInv'
<1>1. CASE obj = Absent
  BY <1>1, OkStep DEF D!Deletes
<1>2. CASE obj # Absent
  <2>1. "ok" \in Answers \ {"none"} /\ "ok" \in Answers
    BY DEF Answers
  <2>2. Truth(D!Answered(c, "ok"), Absent)
    <3>1. PICK r : r = D!Answered(c, "ok")
      OBVIOUS
    <3>2. r.answer = "ok" /\ r.kind = "delete"
      BY <2>1, <3>1, AnsweredIs
    <3> QED BY <3>1, <3>2 DEF Truth
  <2>3. Absent \in D!Contents
    BY ContentsAre
  <2>4. D!Becomes(c, Absent, D!Answered(c, "ok"))
    BY <1>2 DEF D!Deletes
  <2> QED BY <2>1, <2>2, <2>3, <2>4, BoundedIs, ReturnsChanging
<1> QED BY <1>1, <1>2

LEMMA DeleteFailsStep ==
  ASSUME DriversInv, NEW c \in Clients, D!DeleteFails(c), UNCHANGED <<driver, server, version, calls>>
  PROVE  DriversInv'
<1>1. /\ D!Mishap /\ Settled(c) /\ Absent \in D!Contents
      /\ D!Keeps(c, D!Answered(c, "error")) \/ D!Becomes(c, Absent, D!Answered(c, "error"))
  BY ContentsAre DEF D!DeleteFails, Settled
<1> QED BY <1>1, ErrorStep, ErrorChanging

LEMMA ExistsStep ==
  ASSUME DriversInv, NEW c \in Clients, D!LocalExists(c) \/ D!FtpExists(c) \/ D!WebdavExists(c) \/ D!S3Exists(c)
  PROVE  DriversInv'
<1>1. D!Asked(c, "exists") /\ UNCHANGED <<driver, server, version, calls>>
  BY DEF D!LocalExists, D!FtpExists, D!WebdavExists, D!S3Exists
<1>2. op[c].kind = "exists" /\ op[c].pc \in {"ready", "start"}
  BY <1>1, AskedIs
<1>3. CASE D!Tells(c) /\ D!Release(c, FALSE) /\ UNCHANGED mishaps
  BY <1>1, <1>2, <1>3, TellsStep DEF Settled
<1>4. CASE D!Fails(c) \/ D!Denies(c)
  BY <1>1, <1>4, FailsStep, DeniesStep
<1>5. CASE D!Keeps(c, D!Answered(c, "error")) /\ D!Release(c, TRUE) /\ UNCHANGED mishaps
  BY <1>1, <1>5, ErrorStep DEF Settled
<1>6. CASE driver # "ftp" /\ D!Tells(c) /\ UNCHANGED <<pool, sessions, mishaps>>
  BY <1>1, <1>2, <1>6, NoSession, TellsStep
<1>7. CASE driver # "ftp" /\ D!Keeps(c, D!Answered(c, "error")) /\ UNCHANGED <<pool, sessions, mishaps>>
  BY <1>1, <1>7, NoSession, ErrorStep
<1>8. ASSUME D!LocalExists(c) PROVE DriversInv'
  BY <1>6, <1>8 DEF D!LocalExists
<1>9. ASSUME D!FtpExists(c) PROVE DriversInv'
  BY <1>3, <1>4, <1>5, <1>9 DEF D!FtpExists
<1>10. ASSUME D!WebdavExists(c) PROVE DriversInv'
  BY <1>3, <1>4, <1>10 DEF D!WebdavExists
<1>11. ASSUME D!S3Exists(c) PROVE DriversInv'
  BY <1>3, <1>4, <1>7, <1>11 DEF D!S3Exists
<1> QED BY <1>8, <1>9, <1>10, <1>11

LEMMA DeleteStep ==
  ASSUME DriversInv, NEW c \in Clients, D!LocalDelete(c) \/ D!FtpDelete(c) \/ D!WebdavDelete(c) \/ D!S3Delete(c)
  PROVE  DriversInv'
<1>1. D!Asked(c, "delete") /\ UNCHANGED <<driver, server, version, calls>>
  BY DEF D!LocalDelete, D!FtpDelete, D!WebdavDelete, D!S3Delete
<1>2. op[c].kind = "delete" /\ op[c].pc \in {"ready", "start"}
  BY <1>1, AskedIs
<1>3. CASE D!Deletes(c) /\ D!Release(c, FALSE) /\ UNCHANGED mishaps
  BY <1>1, <1>2, <1>3, DeletesStep DEF Settled
<1>4. CASE D!Denies(c) \/ D!DeleteFails(c)
  BY <1>1, <1>4, DeniesStep, DeleteFailsStep
<1>5. CASE driver # "ftp" /\ D!Deletes(c) /\ UNCHANGED <<pool, sessions, mishaps>>
  BY <1>1, <1>2, <1>5, NoSession, DeletesStep
<1>6. CASE driver # "ftp" /\ D!Keeps(c, D!Answered(c, "error")) /\ D!Mishap /\ UNCHANGED <<pool, sessions>>
  BY <1>1, <1>6, NoSession, ErrorStep
<1>7. ASSUME D!LocalDelete(c) PROVE DriversInv'
  BY <1>5, <1>6, <1>7 DEF D!LocalDelete
<1>8. ASSUME D!FtpDelete(c) PROVE DriversInv'
  BY <1>3, <1>4, <1>8 DEF D!FtpDelete
<1>9. ASSUME D!WebdavDelete(c) PROVE DriversInv'
  BY <1>3, <1>4, <1>9 DEF D!WebdavDelete
<1>10. ASSUME D!S3Delete(c) PROVE DriversInv'
  BY <1>3, <1>4, <1>10 DEF D!S3Delete
<1> QED BY <1>7, <1>8, <1>9, <1>10

-----------------------------------------------------------------------------
(* Drivers: Open, and the readers it hands out.                            *)

LEMMA MissesStep ==
  ASSUME DriversInv, NEW c \in Clients, D!Misses(c), UNCHANGED <<driver, server, version, calls>>
  PROVE  DriversInv'
<1>1. "missing" \in Answers \ {"none"} /\ "missing" \in Answers
  BY DEF Answers
<1>2. /\ obj = Absent /\ D!Keeps(c, D!Answered(c, "missing")) /\ UNCHANGED mishaps /\ Settled(c)
  BY DEF D!Misses, Settled
<1>3. Truth(D!Answered(c, "missing"), obj)
  <2>1. PICK r : r = D!Answered(c, "missing")
    OBVIOUS
  <2>2. r.answer = "missing"
    BY <1>1, <2>1, AnsweredIs
  <2> QED BY <1>2, <2>1, <2>2 DEF Truth
<1> QED BY <1>1, <1>2, <1>3, BoundedIs, ReturnsKeeping

\* The object a reader meets.
LEMMA ObjIs ==
  ASSUME DriversInv, obj # Absent
  PROVE  /\ obj \in Objects /\ obj \in D!Contents /\ Placed(obj, 0) /\ Len(obj) \in 0 .. 2
         /\ \A j \in 1 .. Len(obj) : obj[j] \in D!Pieces /\ obj[j][2] = j
<1>1. obj \in D!Contents /\ Placed(obj, 0)
  BY DEF DriversInv, D!TypeOK
<1>2. obj \in Objects
  BY <1>1, ContentsAre
<1>3. Len(obj) \in 0 .. 2 /\ \A j \in 1 .. Len(obj) : obj[j] \in D!Pieces
  BY <1>2, ObjectIs
<1>4. \A j \in 1 .. Len(obj) : obj[j][2] = j
  BY <1>1, <1>3 DEF Placed
<1> QED BY <1>1, <1>2, <1>3, <1>4

LEMMA StreamsStep ==
  ASSUME DriversInv, NEW c \in Clients, D!Asked(c, "open"), D!Streams(c), UNCHANGED <<driver, server, version, calls>>
  PROVE  DriversInv'
<1>1. PICK n : n = Len(obj)
  OBVIOUS
<1>2. PICK call : call = [op[c] EXCEPT !.pc = "read", !.size = n]
  OBVIOUS
<1>3. obj # Absent /\ D!Keeps(c, call) /\ UNCHANGED <<pool, sessions, mishaps>>
  BY <1>1, <1>2 DEF D!Streams
<1>4. n \in 0 .. 2
  BY <1>1, <1>3, ObjIs
<1>5. /\ op[c] \in D!CallRecords /\ Right(op[c], obj) /\ Untouched(op[c]) /\ op[c].kind = "open"
      /\ op[c].answer = "none" /\ ~op[c].denied
  BY AskedIs
<1>6. /\ call.pc = "read" /\ call.kind = "open" /\ call.session = op[c].session /\ call.size = n
      /\ call.got = op[c].got /\ call.answer = op[c].answer /\ call.denied = op[c].denied /\ call.pos = op[c].pos
      /\ call.buf = op[c].buf /\ call.body = op[c].body
  BY <1>2, <1>5 DEF D!CallRecords
<1>7. call \in D!CallRecords
  <2>1. PICK q : q = [op[c] EXCEPT !.pc = "read"]
    OBVIOUS
  <2>2. q \in D!CallRecords
    BY <1>5, <2>1, FieldsAre
  <2>3. call = [q EXCEPT !.size = n]
    BY <1>2, <1>5, <2>1 DEF D!CallRecords
  <2> QED BY <1>4, <2>2, <2>3, FieldsAre
<1>8. Faithful(call, obj)
  <2>1. Front(obj, 0) = {}
    BY <1>3, ObjIs, FrontIs
  <2> QED BY <1>1, <1>3, <1>4, <1>5, <1>6, <2>1 DEF Faithful, Untouched
<1>9. Right(call, obj)
  BY <1>5, <1>6, <1>8 DEF Right, Untouched, Delivering
<1> QED BY <1>3, <1>6, <1>7, <1>9, GoesOn

LEMMA BuffersStep ==
  ASSUME DriversInv, NEW c \in Clients, D!Asked(c, "open"), D!Buffers(c), UNCHANGED <<driver, server, version, calls>>,
         UNCHANGED mishaps \/ D!Mishap
  PROVE  DriversInv'
<1>1. PICK n : n = Len(obj)
  OBVIOUS
<1>2. PICK call : call = [op[c] EXCEPT !.pc = "read", !.size = n, !.buf = obj, !.session = 0]
  OBVIOUS
<1>3. obj # Absent /\ D!Keeps(c, call) /\ D!Release(c, FALSE)
  BY <1>1, <1>2 DEF D!Buffers
<1>4. n \in 0 .. 2 /\ obj \in D!Contents /\ Placed(obj, 0)
  BY <1>1, <1>3, ObjIs
<1>5. /\ op[c] \in D!CallRecords /\ Right(op[c], obj) /\ Untouched(op[c]) /\ op[c].kind = "open"
      /\ op[c].answer = "none" /\ ~op[c].denied
  BY AskedIs
<1>6. /\ call.pc = "read" /\ call.kind = "open" /\ call.session = 0 /\ call.size = n
      /\ call.got = op[c].got /\ call.answer = op[c].answer /\ call.denied = op[c].denied /\ call.pos = op[c].pos
      /\ call.buf = obj /\ call.body = op[c].body
  BY <1>2, <1>5 DEF D!CallRecords
<1>7. call \in D!CallRecords
  <2>1. PICK q : q = [op[c] EXCEPT !.pc = "read"]
    OBVIOUS
  <2>2. PICK s : s = [q EXCEPT !.size = n]
    OBVIOUS
  <2>3. PICK b : b = [s EXCEPT !.buf = obj]
    OBVIOUS
  <2>4. q \in D!CallRecords
    BY <1>5, <2>1, FieldsAre
  <2>5. s \in D!CallRecords
    BY <1>4, <2>2, <2>4, FieldsAre
  <2>6. b \in D!CallRecords
    BY <1>4, <2>3, <2>5, FieldsAre
  <2>7. call = [b EXCEPT !.session = 0]
    BY <1>2, <1>5, <2>1, <2>2, <2>3 DEF D!CallRecords
  <2>8. 0 \in 0 .. D!MaxSessions
    BY MaxSessionsIs
  <2> QED BY <2>6, <2>7, <2>8, FieldsAre
<1>8. Faithful(call, obj)
  <2>1. Front(obj, 0) = {}
    BY <1>3, ObjIs, FrontIs
  <2> QED BY <1>1, <1>3, <1>4, <1>5, <1>6, <2>1 DEF Faithful, Untouched
<1>9. Right(call, obj)
  BY <1>4, <1>5, <1>6, <1>8 DEF Right, Untouched, Delivering
<1>10. Accounted(c, call.session)
  BY <1>3, <1>6 DEF Accounted
<1> QED BY <1>3, <1>7, <1>9, <1>10, BoundedIs, KeepsStep

LEMMA OpeningStep ==
  ASSUME DriversInv, NEW c \in Clients, D!LocalOpen(c) \/ D!FtpOpen(c) \/ D!WebdavOpen(c) \/ D!S3Open(c)
  PROVE  DriversInv'
<1>1. D!Asked(c, "open") /\ UNCHANGED <<driver, server, version, calls>>
  BY DEF D!LocalOpen, D!FtpOpen, D!WebdavOpen, D!S3Open
<1>2. \/ D!Misses(c) \/ D!Streams(c) \/ D!Denies(c) \/ D!Fails(c)
      \/ D!Buffers(c) /\ (UNCHANGED mishaps \/ D!Mishap)
  BY DEF D!LocalOpen, D!FtpOpen, D!WebdavOpen, D!S3Open
<1> QED BY <1>1, <1>2, MissesStep, StreamsStep, BuffersStep, DeniesStep, FailsStep

\* A reader, and the object if nobody disturbed it.
LEMMA ReaderIs ==
  ASSUME DriversInv, NEW c \in Clients, op[c].pc = "read"
  PROVE  /\ op[c] \in D!CallRecords /\ Right(op[c], obj) /\ Delivering(op[c], obj)
         /\ op[c].kind = "open" /\ op[c].answer = "none" /\ ~op[c].denied
         /\ ~op[c].over => Faithful(op[c], obj) /\ obj \in Objects
         /\ \A g \in op[c].got : g[2][2] = g[1] + 1
BY CallIs, ObjIs DEF Right, Delivering, Faithful

\* The reader comes to its end: it has delivered what it should.
LEMMA ReaderEnds ==
  ASSUME DriversInv, NEW c \in Clients, op[c].pc = "read", D!Keeps(c, D!Answered(c, "ok")), Settled(c),
         op[c].over \/ op[c].pos >= op[c].size, UNCHANGED <<driver, server, version, calls, mishaps>>
  PROVE  DriversInv'
<1>1. "ok" \in Answers \ {"none"} /\ "ok" \in Answers
  BY DEF Answers
<1>2. CASE op[c].over
  BY <1>1, <1>2, BoundedIs, ReturnsKeeping
<1>3. CASE ~op[c].over
  <2>1. PICK r : r = D!Answered(c, "ok")
    OBVIOUS
  <2>2. r.answer = "ok" /\ r.kind = "open" /\ r.got = op[c].got /\ r.sought = op[c].sought
    BY <1>1, <2>1, AnsweredIs, ReaderIs
  <2>3. Faithful(op[c], obj) /\ obj \in Objects /\ op[c].pos \in 0 .. 2 /\ op[c].size \in 0 .. 2
    BY <1>3, ReaderIs, CallIs
  <2>4. op[c].pos = Len(obj)
    BY <1>3, <2>3 DEF Faithful
  <2>5. Front(obj, op[c].pos) = D!At(obj)
    BY <2>3, <2>4, FrontIs
  <2>6. Truth(r, obj)
    BY <2>2, <2>3, <2>5 DEF Truth, Faithful
  <2> QED BY <1>1, <2>1, <2>6, BoundedIs, ReturnsKeeping
<1> QED BY <1>2, <1>3

\* A piece is delivered, from its place.
LEMMA TakenIs ==
  ASSUME DriversInv, NEW c \in Clients, D!Reading(c), NEW piece \in D!Pieces, piece[2] = op[c].pos + 1,
         ~op[c].over => piece = obj[op[c].pos + 1], NEW t, t = D!Taken(c, piece)
  PROVE  /\ t \in D!CallRecords /\ t.pc = "read" /\ t.kind = "open" /\ t.pos = op[c].pos + 1 /\ t.size = op[c].size
         /\ t.buf = op[c].buf /\ t.body = op[c].body /\ t.session = op[c].session /\ t.over = op[c].over
         /\ t.answer = "none" /\ ~t.denied
         /\ \A g \in t.got : g[2][2] = g[1] + 1
         /\ ~op[c].over => /\ obj # Absent /\ t.size = Len(obj) /\ t.pos <= t.size /\ t.got \subseteq D!At(obj)
                           /\ t.sought \/ t.got = Front(obj, t.pos)
<1>1. op[c].pc = "read" /\ op[c].pos < op[c].size
  BY DEF D!Reading
<1>2. /\ op[c] \in D!CallRecords /\ op[c].kind = "open" /\ op[c].answer = "none" /\ ~op[c].denied
      /\ \A g \in op[c].got : g[2][2] = g[1] + 1
  BY <1>1, ReaderIs
<1>3. op[c].pos \in 0 .. 2 /\ op[c].size \in 0 .. 2 /\ op[c].got \subseteq (0 .. 1) \X D!Pieces
  BY CallIs
<1>4. PICK p, got : p = op[c].pos + 1 /\ got = op[c].got \cup {<<op[c].pos, piece>>}
  OBVIOUS
<1>5. p \in 0 .. 2 /\ op[c].pos \in 0 .. 1
  BY <1>1, <1>3, <1>4
<1>6. t = [op[c] EXCEPT !.got = got, !.pos = p]
  BY <1>2, <1>4 DEF D!Taken, D!CallRecords
<1>7. /\ t.pc = "read" /\ t.kind = "open" /\ t.pos = p /\ t.size = op[c].size /\ t.got = got
      /\ t.buf = op[c].buf /\ t.body = op[c].body /\ t.session = op[c].session /\ t.over = op[c].over
      /\ t.answer = "none" /\ ~t.denied /\ t.sought = op[c].sought
  BY <1>1, <1>2, <1>6 DEF D!CallRecords
<1>8. t \in D!CallRecords
  <2>1. PICK q : q = [op[c] EXCEPT !.got = got]
    OBVIOUS
  <2>2. got \subseteq (0 .. 1) \X D!Pieces
    BY <1>3, <1>4, <1>5
  <2>3. q \in D!CallRecords
    BY <1>2, <2>1, <2>2, FieldsAre
  <2>4. t = [q EXCEPT !.pos = p]
    BY <1>2, <1>6, <2>1 DEF D!CallRecords
  <2>5. p \in 0 .. 2
    BY <1>5
  <2>6. [q EXCEPT !.pos = p] \in D!CallRecords
    BY <2>3, <2>5, FieldsAre
  <2> QED BY <2>4, <2>6
<1>9. \A g \in got : g[2][2] = g[1] + 1
  BY <1>2, <1>4
<1>10. ASSUME ~op[c].over
       PROVE  /\ obj # Absent /\ t.size = Len(obj) /\ t.pos <= t.size /\ t.got \subseteq D!At(obj)
              /\ t.sought \/ t.got = Front(obj, t.pos)
  <2>1. Faithful(op[c], obj) /\ obj \in Objects
    BY <1>1, <1>10, ReaderIs
  <2>2. obj # Absent /\ op[c].size = Len(obj) /\ op[c].got \subseteq D!At(obj) /\ (op[c].sought \/ op[c].got = Front(obj, op[c].pos))
    BY <2>1 DEF Faithful
  <2>3. op[c].pos < Len(obj) /\ piece = obj[op[c].pos + 1]
    BY <1>1, <1>10, <2>2
  <2>4. /\ Front(obj, op[c].pos + 1) = Front(obj, op[c].pos) \cup {<<op[c].pos, obj[op[c].pos + 1]>>}
        /\ <<op[c].pos, obj[op[c].pos + 1]>> \in D!At(obj)
    BY <1>3, <2>1, <2>3, FrontIs
  <2>5. t.pos <= t.size
    BY <1>1, <1>3, <1>4, <1>7
  <2> QED BY <1>4, <1>7, <2>2, <2>3, <2>4, <2>5
<1> QED BY <1>4, <1>7, <1>8, <1>9, <1>10

\* A reader goes on, with the pieces it has in memory or is being sent.
LEMMA ReadsOn ==
  ASSUME DriversInv, NEW c \in Clients, NEW call \in D!CallRecords, D!Keeps(c, call),
         call.pc = "read", call.kind = "open", call.answer = "none", ~call.denied, call.session = op[c].session,
         \A g \in call.got : g[2][2] = g[1] + 1, Delivering(call, obj), call.session # 0 => driver = "ftp",
         UNCHANGED <<pool, sessions, driver, server, version, calls, mishaps>>
  PROVE  DriversInv'
<1>1. Right(call, obj)
  BY DEF Right
<1> QED BY <1>1, GoesOn

LEMMA ReadBufferStep ==
  ASSUME DriversInv, NEW c \in Clients, D!ReadBuffer(c)
  PROVE  DriversInv'
<1>1. /\ D!Reading(c) /\ op[c].pc = "read" /\ op[c].pos < op[c].size /\ op[c].buf # Absent
      /\ UNCHANGED <<driver, server, pool, sessions, version, calls, mishaps>>
  BY DEF D!ReadBuffer, D!Reading
<1>2. /\ Delivering(op[c], obj) /\ op[c].body = Absent /\ op[c].session = 0 /\ Placed(op[c].buf, 0)
      /\ ~op[c].over => Faithful(op[c], obj) /\ op[c].buf = obj
  BY <1>1, ReaderIs DEF Delivering, Faithful
<1>3. op[c].buf \in Objects /\ op[c].pos \in 0 .. 2 /\ op[c].size \in 0 .. 2
  BY <1>1, CallIs, ContentsAre
<1>4. CASE op[c].pos < Len(op[c].buf)
  <2>1. PICK piece : piece = op[c].buf[op[c].pos + 1]
    OBVIOUS
  <2>2. op[c].pos + 1 \in 1 .. Len(op[c].buf)
    BY <1>3, <1>4, ObjectIs
  <2>3. piece \in D!Pieces /\ piece[2] = op[c].pos + 1
    <3>1. piece[2] = 0 + (op[c].pos + 1)
      BY <1>2, <2>1, <2>2 DEF Placed
    <3>2. piece \in D!Pieces
      BY <1>3, <2>1, <2>2, ObjectIs
    <3> QED BY <1>3, <3>1, <3>2
  <2>4. ~op[c].over => piece = obj[op[c].pos + 1]
    BY <1>2, <2>1
  <2>5. PICK t : t = D!Taken(c, piece)
    OBVIOUS
  <2>6. /\ t \in D!CallRecords /\ t.pc = "read" /\ t.kind = "open" /\ t.pos = op[c].pos + 1 /\ t.size = op[c].size
        /\ t.buf = op[c].buf /\ t.body = op[c].body /\ t.session = op[c].session /\ t.over = op[c].over
        /\ t.answer = "none" /\ ~t.denied
        /\ \A g \in t.got : g[2][2] = g[1] + 1
        /\ ~op[c].over => /\ obj # Absent /\ t.size = Len(obj) /\ t.pos <= t.size /\ t.got \subseteq D!At(obj)
                          /\ t.sought \/ t.got = Front(obj, t.pos)
    BY <1>1, <2>3, <2>4, <2>5, TakenIs
  <2>7. Delivering(t, obj)
    BY <1>2, <2>6 DEF Delivering, Faithful
  <2>8. D!Keeps(c, t)
    BY <1>4, <2>1, <2>5 DEF D!ReadBuffer
  <2> QED BY <1>1, <1>2, <2>6, <2>7, <2>8, ReadsOn
<1>5. CASE ~(op[c].pos < Len(op[c].buf))
  <2>1. op[c].over
    BY <1>1, <1>2, <1>5 DEF Faithful
  <2>2. D!Keeps(c, D!Answered(c, "ok")) /\ Settled(c)
    BY <1>1, <1>2, <1>5 DEF D!ReadBuffer, Settled
  <2> QED BY <1>1, <2>1, <2>2, ReaderEnds
<1> QED BY <1>4, <1>5

LEMMA FtpReadStep ==
  ASSUME DriversInv, NEW c \in Clients, D!FtpRead(c)
  PROVE  DriversInv'
<1>1. /\ D!Reading(c) /\ op[c].pc = "read" /\ op[c].pos < op[c].size /\ op[c].buf = Absent /\ driver = "ftp"
      /\ UNCHANGED <<driver, server, version, calls>>
  BY DEF D!FtpRead, D!Reading
<1>2. /\ Delivering(op[c], obj) /\ op[c].body = Absent /\ (~op[c].over => Faithful(op[c], obj))
      /\ op[c].pos \in 0 .. 2 /\ op[c].size \in 0 .. 2
  BY <1>1, ReaderIs, CallIs DEF Delivering
<1>3. CASE /\ obj # Absent /\ op[c].pos < Len(obj)
           /\ D!Keeps(c, D!Taken(c, obj[op[c].pos + 1]))
           /\ UNCHANGED <<pool, sessions, mishaps>>
  <2>1. PICK piece : piece = obj[op[c].pos + 1]
    OBVIOUS
  <2>2. op[c].pos + 1 \in 1 .. Len(obj)
    BY <1>2, <1>3, ObjIs
  <2>3. piece \in D!Pieces /\ piece[2] = op[c].pos + 1
    BY <1>3, <2>1, <2>2, ObjIs
  <2>4. ~op[c].over => piece = obj[op[c].pos + 1]
    BY <2>1
  <2>5. PICK t : t = D!Taken(c, piece)
    OBVIOUS
  <2>6. /\ t \in D!CallRecords /\ t.pc = "read" /\ t.kind = "open" /\ t.pos = op[c].pos + 1 /\ t.size = op[c].size
        /\ t.buf = op[c].buf /\ t.body = op[c].body /\ t.session = op[c].session /\ t.over = op[c].over
        /\ t.answer = "none" /\ ~t.denied
        /\ \A g \in t.got : g[2][2] = g[1] + 1
        /\ ~op[c].over => /\ obj # Absent /\ t.size = Len(obj) /\ t.pos <= t.size /\ t.got \subseteq D!At(obj)
                          /\ t.sought \/ t.got = Front(obj, t.pos)
    BY <1>1, <2>3, <2>4, <2>5, TakenIs
  <2>7. Delivering(t, obj)
    BY <1>1, <1>2, <2>6 DEF Delivering, Faithful
  <2>8. D!Keeps(c, t)
    BY <1>3, <2>1, <2>5
  <2> QED BY <1>1, <1>3, <2>6, <2>7, <2>8, ReadsOn
<1>4. CASE obj # Absent /\ op[c].pos >= Len(obj) /\ D!Keeps(c, D!Answered(c, "ok")) /\ D!Release(c, FALSE) /\ UNCHANGED mishaps
  <2>1. op[c].over
    <3>1. Len(obj) \in Nat
      BY <1>4, ObjIs
    <3> QED BY <1>1, <1>2, <1>4, <3>1 DEF Faithful
  <2>2. Settled(c)
    BY <1>4 DEF Settled
  <2> QED BY <1>1, <1>4, <2>1, <2>2, ReaderEnds
<1>5. CASE obj = Absent /\ D!Keeps(c, D!Answered(c, "error")) /\ D!Release(c, TRUE) /\ UNCHANGED mishaps
  BY <1>1, <1>5, ErrorStep DEF Settled
<1>6. CASE D!Fails(c)
  BY <1>1, <1>6, FailsStep
<1> QED BY <1>3, <1>4, <1>5, <1>6 DEF D!FtpRead

\* What a server sends lies where the reader is.
LEMMA SentIs ==
  ASSUME DriversInv, NEW c \in Clients, op[c].pc = "read", D!Served(c)
  PROVE  D!Sent(c) \in Objects /\ Placed(D!Sent(c), op[c].pos) /\ D!Sent(c) = D!From(obj, op[c].pos)
<1>1. /\ obj # Absent /\ ~D!RangeIgnored(c) /\ (op[c].pos < Len(obj) \/ ~server.range)
      /\ obj \in Objects /\ Placed(obj, 0) /\ op[c].pos \in 0 .. 2 /\ Len(obj) \in 0 .. 2
  BY ObjIs, CallIs DEF D!Served
<1>2. CASE server.range
  <2>1. op[c].pos < Len(obj) /\ op[c].pos <= Len(obj) /\ D!Sent(c) = D!From(obj, op[c].pos)
    BY <1>1, <1>2 DEF D!Sent
  <2> QED BY <1>1, <2>1, FromIs
<1>3. CASE ~server.range
  <2>1. op[c].pos = 0 /\ D!Sent(c) = obj
    BY <1>1, <1>3 DEF D!RangeIgnored, D!Sent
  <2> QED BY <1>1, <2>1, FromTail
<1> QED BY <1>2, <1>3

LEMMA RangeStep ==
  ASSUME DriversInv, NEW c \in Clients, D!WebdavRange(c) \/ D!S3Range(c)
  PROVE  DriversInv'
<1>1. /\ op[c].pc = "read" /\ op[c].pos < op[c].size /\ op[c].buf = Absent /\ op[c].body = Absent /\ driver # "ftp"
      /\ UNCHANGED <<driver, server, pool, sessions, version, calls>>
  BY DEF D!WebdavRange, D!S3Range, D!Asks, D!Reading
<1>2. /\ op[c] \in D!CallRecords /\ Delivering(op[c], obj) /\ op[c].session = 0 /\ Settled(c)
      /\ op[c].kind = "open" /\ op[c].answer = "none" /\ ~op[c].denied /\ (~op[c].over => Faithful(op[c], obj))
      /\ op[c].pos \in 0 .. 2 /\ op[c].size \in 0 .. 2
      /\ \A g \in op[c].got : g[2][2] = g[1] + 1
  BY <1>1, ReaderIs, CallIs, NoSession
<1>3. CASE D!Served(c) /\ D!Keeps(c, [op[c] EXCEPT !.body = D!Sent(c)]) /\ UNCHANGED mishaps
  <2>1. PICK body : body = D!Sent(c)
    OBVIOUS
  <2>2. PICK call : call = [op[c] EXCEPT !.body = body]
    OBVIOUS
  <2>3. body \in D!Contents /\ Placed(body, op[c].pos) /\ body = D!From(obj, op[c].pos)
    BY <1>1, <1>3, <2>1, SentIs, ContentsAre
  <2>4. call \in D!CallRecords
    BY <1>2, <2>2, <2>3, FieldsAre
  <2>5. /\ call.pc = "read" /\ call.kind = "open" /\ call.answer = "none" /\ ~call.denied /\ call.session = 0
        /\ call.got = op[c].got /\ call.pos = op[c].pos /\ call.size = op[c].size /\ call.buf = Absent
        /\ call.body = body /\ call.over = op[c].over /\ call.sought = op[c].sought
    BY <1>1, <1>2, <2>2 DEF D!CallRecords
  <2>6. Delivering(call, obj)
    BY <1>1, <1>2, <2>3, <2>5 DEF Delivering, Faithful
  <2>7. D!Keeps(c, call)
    BY <1>3, <2>1, <2>2
  <2> QED BY <1>1, <1>2, <1>3, <2>4, <2>5, <2>6, <2>7, ReadsOn
<1>4. CASE /\ obj # Absent /\ D!RangeIgnored(c)
           /\ D!Keeps(c, [op[c] EXCEPT !.buf = obj, !.size = Len(obj)])
           /\ UNCHANGED mishaps
  <2>1. PICK n : n = Len(obj)
    OBVIOUS
  <2>2. PICK call : call = [op[c] EXCEPT !.buf = obj, !.size = n]
    OBVIOUS
  <2>3. n \in 0 .. 2 /\ obj \in D!Contents /\ Placed(obj, 0)
    BY <1>4, <2>1, ObjIs
  <2>4. call \in D!CallRecords
    <3>1. PICK q : q = [op[c] EXCEPT !.buf = obj]
      OBVIOUS
    <3>2. q \in D!CallRecords
      BY <1>2, <2>3, <3>1, FieldsAre
    <3>3. call = [q EXCEPT !.size = n]
      BY <1>2, <2>2, <3>1 DEF D!CallRecords
    <3> QED BY <2>3, <3>2, <3>3, FieldsAre
  <2>5. /\ call.pc = "read" /\ call.kind = "open" /\ call.answer = "none" /\ ~call.denied /\ call.session = 0
        /\ call.got = op[c].got /\ call.pos = op[c].pos /\ call.size = n /\ call.buf = obj
        /\ call.body = Absent /\ call.over = op[c].over /\ call.sought = op[c].sought
    BY <1>1, <1>2, <2>2 DEF D!CallRecords
  <2>6. Delivering(call, obj)
    BY <1>1, <1>2, <2>1, <2>3, <2>5 DEF Delivering, Faithful
  <2>7. D!Keeps(c, call)
    BY <1>4, <2>1, <2>2
  <2> QED BY <1>1, <1>2, <1>4, <2>4, <2>5, <2>6, <2>7, ReadsOn
<1>5. CASE D!Keeps(c, D!Answered(c, "error")) /\ (UNCHANGED mishaps \/ D!Mishap)
  BY <1>1, <1>2, <1>5, ErrorStep
<1> QED BY <1>3, <1>4, <1>5 DEF D!WebdavRange, D!S3Range

LEMMA HttpReadStep ==
  ASSUME DriversInv, NEW c \in Clients, D!HttpRead(c)
  PROVE  DriversInv'
<1>1. /\ D!Reading(c) /\ op[c].pc = "read" /\ op[c].pos < op[c].size /\ op[c].buf = Absent /\ op[c].body # Absent
      /\ UNCHANGED <<driver, server, pool, sessions, version, calls, mishaps>>
  BY DEF D!HttpRead, D!Reading
<1>2. /\ op[c] \in D!CallRecords /\ Delivering(op[c], obj) /\ Right(op[c], obj)
      /\ op[c].kind = "open" /\ op[c].answer = "none" /\ ~op[c].denied
      /\ op[c].pos \in 0 .. 2 /\ op[c].size \in 0 .. 2
      /\ \A g \in op[c].got : g[2][2] = g[1] + 1
  BY <1>1, ReaderIs, CallIs
<1>3. /\ driver # "ftp" /\ op[c].session = 0 /\ op[c].body \in Objects /\ Placed(op[c].body, op[c].pos)
      /\ ~op[c].over => Faithful(op[c], obj) /\ op[c].body = D!From(obj, op[c].pos) /\ obj \in Objects
  BY <1>1, <1>2, ReaderIs, CallIs, ContentsAre DEF Delivering, Right, Faithful
<1>4. CASE op[c].body = <<>>
  <2>1. PICK call : call = [op[c] EXCEPT !.body = Absent]
    OBVIOUS
  <2>2. Absent \in D!Contents
    BY ContentsAre
  <2>3. call \in D!CallRecords
    BY <1>2, <2>1, <2>2, FieldsAre
  <2>4. /\ call.pc = "read" /\ call.kind = "open" /\ call.answer = "none" /\ ~call.denied /\ call.session = 0
        /\ call.got = op[c].got /\ call.pos = op[c].pos /\ call.size = op[c].size /\ call.buf = Absent
        /\ call.body = Absent /\ call.over = op[c].over /\ call.sought = op[c].sought
    BY <1>1, <1>2, <1>3, <2>1 DEF D!CallRecords
  <2>5. Delivering(call, obj)
    BY <1>3, <2>4 DEF Delivering, Faithful
  <2>6. D!Keeps(c, call)
    BY <1>4, <2>1 DEF D!HttpRead
  <2> QED BY <1>1, <1>2, <1>3, <2>3, <2>4, <2>5, <2>6, ReadsOn
<1>5. CASE op[c].body # <<>>
  <2>1. PICK piece, rest : piece = Head(op[c].body) /\ rest = Tail(op[c].body)
    OBVIOUS
  <2>2. piece \in D!Pieces /\ piece[2] = op[c].pos + 1 /\ rest \in Objects /\ Placed(rest, op[c].pos + 1)
    BY <1>2, <1>3, <1>5, <2>1, TailIs
  <2>3. ~op[c].over => piece = obj[op[c].pos + 1] /\ rest = D!From(obj, op[c].pos + 1)
    <3> SUFFICES ASSUME ~op[c].over PROVE piece = obj[op[c].pos + 1] /\ rest = D!From(obj, op[c].pos + 1)
      OBVIOUS
    <3>1. op[c].pos < Len(obj) /\ obj \in Objects /\ op[c].body = D!From(obj, op[c].pos)
      BY <1>1, <1>3 DEF Faithful
    <3> QED BY <1>2, <2>1, <3>1, FromTail
  <2>4. PICK t : t = D!Taken(c, piece)
    OBVIOUS
  <2>5. /\ t \in D!CallRecords /\ t.pc = "read" /\ t.kind = "open" /\ t.pos = op[c].pos + 1 /\ t.size = op[c].size
        /\ t.buf = op[c].buf /\ t.body = op[c].body /\ t.session = op[c].session /\ t.over = op[c].over
        /\ t.answer = "none" /\ ~t.denied
        /\ \A g \in t.got : g[2][2] = g[1] + 1
        /\ ~op[c].over => /\ obj # Absent /\ t.size = Len(obj) /\ t.pos <= t.size /\ t.got \subseteq D!At(obj)
                          /\ t.sought \/ t.got = Front(obj, t.pos)
    BY <1>1, <2>2, <2>3, <2>4, TakenIs
  <2>6. PICK call : call = [t EXCEPT !.body = rest]
    OBVIOUS
  <2>7. rest \in D!Contents
    BY <2>2, ContentsAre
  <2>8. call \in D!CallRecords
    BY <2>5, <2>6, <2>7, FieldsAre
  <2>9. /\ call.pc = t.pc /\ call.kind = t.kind /\ call.pos = t.pos /\ call.size = t.size /\ call.got = t.got
        /\ call.buf = t.buf /\ call.body = rest /\ call.session = t.session /\ call.over = t.over
        /\ call.answer = t.answer /\ call.denied = t.denied /\ call.sought = t.sought
    BY <2>5, <2>6 DEF D!CallRecords
  <2>10. Delivering(call, obj)
    BY <1>1, <1>3, <2>2, <2>3, <2>5, <2>9 DEF Delivering, Faithful
  <2>11. D!Keeps(c, call)
    BY <1>5, <2>1, <2>4, <2>6 DEF D!HttpRead
  <2> QED BY <1>1, <1>3, <2>5, <2>8, <2>9, <2>10, <2>11, ReadsOn
<1> QED BY <1>4, <1>5

LEMMA SeekStep ==
  ASSUME DriversInv, NEW c \in Clients, D!Seek(c) \/ D!FtpSeek(c)
  PROVE  DriversInv'
<1>1. op[c].pc = "read" /\ UNCHANGED <<driver, server, pool, sessions, version, calls, mishaps>>
  BY DEF D!Seek, D!FtpSeek
<1>2. /\ op[c] \in D!CallRecords /\ Delivering(op[c], obj) /\ Right(op[c], obj)
      /\ op[c].kind = "open" /\ op[c].answer = "none" /\ ~op[c].denied
      /\ op[c].pos \in 0 .. 2 /\ op[c].size \in 0 .. 2 /\ op[c].body \in D!Contents /\ Absent \in D!Contents
      /\ \A g \in op[c].got : g[2][2] = g[1] + 1
  BY <1>1, ReaderIs, CallIs, ContentsAre
\* The answer under way is dropped, unless the reader is there already.
<1>3. ASSUME NEW pos \in 0 .. op[c].size - 1, NEW body \in {op[c].body, Absent},
             body # Absent => pos = op[c].pos, D!Keeps(c, [op[c] EXCEPT !.pos = pos, !.sought = TRUE, !.body = body])
      PROVE  DriversInv'
  <2>1. PICK call : call = [op[c] EXCEPT !.pos = pos, !.sought = TRUE, !.body = body]
    OBVIOUS
  <2>2. pos \in 0 .. 2 /\ body \in D!Contents /\ TRUE \in BOOLEAN
    BY <1>2
  <2>3. call \in D!CallRecords
    <3>1. PICK q : q = [op[c] EXCEPT !.pos = pos]
      OBVIOUS
    <3>2. PICK s : s = [q EXCEPT !.sought = TRUE]
      OBVIOUS
    <3>3. q \in D!CallRecords
      BY <1>2, <2>2, <3>1, FieldsAre
    <3>4. s \in D!CallRecords
      BY <2>2, <3>2, <3>3, FieldsAre
    <3>5. call = [s EXCEPT !.body = body]
      BY <1>2, <2>1, <3>1, <3>2 DEF D!CallRecords
    <3> QED BY <2>2, <3>4, <3>5, FieldsAre
  <2>4. /\ call.pc = "read" /\ call.kind = "open" /\ call.answer = "none" /\ ~call.denied /\ call.session = op[c].session
        /\ call.got = op[c].got /\ call.pos = pos /\ call.size = op[c].size /\ call.buf = op[c].buf
        /\ call.body = body /\ call.over = op[c].over /\ call.sought
    BY <1>1, <1>2, <2>1 DEF D!CallRecords
  <2>5. pos <= op[c].size /\ (op[c].session # 0 => driver = "ftp")
    BY <1>2 DEF Right
  <2>6. Delivering(call, obj)
    BY <1>2, <1>3, <2>4, <2>5 DEF Delivering, Faithful
  <2> QED BY <1>1, <1>2, <1>3, <2>1, <2>3, <2>4, <2>5, <2>6, ReadsOn
<1>4. ASSUME D!Seek(c) PROVE DriversInv'
  <2>1. PICK pos \in 0 .. op[c].size - 1 :
          D!Keeps(c, [op[c] EXCEPT !.pos = pos, !.sought = TRUE, !.body = IF pos = op[c].pos THEN @ ELSE Absent])
    BY <1>4 DEF D!Seek
  <2>2. PICK body : body = IF pos = op[c].pos THEN op[c].body ELSE Absent
    OBVIOUS
  <2>3. D!Keeps(c, [op[c] EXCEPT !.pos = pos, !.sought = TRUE, !.body = body])
    BY <2>1, <2>2
  <2> QED BY <1>3, <2>2, <2>3
<1>5. ASSUME D!FtpSeek(c) PROVE DriversInv'
  <2>1. PICK pos \in 0 .. op[c].size - 1 : D!Keeps(c, [op[c] EXCEPT !.pos = pos, !.sought = TRUE])
    BY <1>5 DEF D!FtpSeek
  <2>2. op[c].body = Absent
    BY <1>2, <1>5 DEF D!FtpSeek, Delivering
  <2>3. [op[c] EXCEPT !.pos = pos, !.sought = TRUE] = [op[c] EXCEPT !.pos = pos, !.sought = TRUE, !.body = Absent]
    BY <1>2, <2>2 DEF D!CallRecords
  <2>4. D!Keeps(c, [op[c] EXCEPT !.pos = pos, !.sought = TRUE, !.body = Absent])
    BY <2>1, <2>3
  <2> QED BY <1>3, <2>4
<1> QED BY <1>4, <1>5

LEMMA CloseStep ==
  ASSUME DriversInv, NEW c \in Clients, D!Close(c)
  PROVE  DriversInv'
<1>1. op[c].pc = "read" /\ Settled(c) /\ UNCHANGED <<driver, server, version, calls, mishaps>>
  BY DEF D!Close, Settled
<1>2. CASE op[c].pos >= op[c].size /\ D!Keeps(c, D!Answered(c, "ok"))
  BY <1>1, <1>2, ReaderEnds
<1>3. CASE D!Keeps(c, D!Answered(c, "error"))
  BY <1>1, <1>3, ErrorStep
<1> QED BY <1>2, <1>3 DEF D!Close

-----------------------------------------------------------------------------
(* Drivers: the start, a crash, and every step.                            *)

\* With no calls and an empty pool no session is open.
LEMMA FreshCalls ==
  /\ [c \in Clients |-> D!Fresh] \in [Clients -> D!CallRecords]
  /\ \A c \in Clients : \A data : [d \in Clients |-> D!Fresh][c].session = 0 /\ Right([d \in Clients |-> D!Fresh][c], data)
<1>1. /\ D!Fresh.pc = "idle" /\ D!Fresh.session = 0 /\ D!Fresh.answer = "none" /\ D!Fresh.got = {} /\ ~D!Fresh.denied
  BY DEF D!Fresh
<1> HIDE DEF D!Fresh
<1>2. \A data : Right(D!Fresh, data)
  BY <1>1 DEF Right, Truth
<1>3. [c \in Clients |-> D!Fresh] \in [Clients -> D!CallRecords]
  BY FreshIs
<1> QED BY <1>1, <1>2, <1>3

LEMMA CrashStep ==
  ASSUME DriversInv, D!Crash
  PROVE  DriversInv'
<1>1. /\ D!Mishap /\ op' = [c \in Clients |-> D!Fresh] /\ pool' = <<>> /\ sessions' = {}
      /\ UNCHANGED <<driver, server, obj, version, calls>>
  BY DEF D!Crash
<1>2. /\ op' \in [Clients -> D!CallRecords]
      /\ \A c \in Clients : op'[c].session = 0 /\ Right(op'[c], obj')
  BY <1>1, FreshCalls
<1>3. SessionsInv'
  <2>1. pool' \in Seq(PoolRecords) /\ Len(pool') = 0
    BY <1>1
  <2>2. Len(pool') <= MaxPool
    BY <2>1, DriversAssumption DEF DriversAssumption
  <2>3. Unshared' /\ PooledOnce' /\ NotPooled'
    BY <1>2, <2>1 DEF Unshared, PooledOnce, NotPooled
  <2>4. OpenAre'
    <3>1. \A s \in 1 .. D!MaxSessions : s # 0
      BY MaxSessionsIs
    <3> QED BY <1>1, <1>2, <2>1, <3>1 DEF OpenAre, D!MaxSessions
  <2> QED BY <1>1, <2>1, <2>2, <2>3, <2>4 DEF SessionsInv, D!MaxSessions, PoolRecords
<1>4. obj' \in D!Contents /\ (obj' # Absent => Placed(obj', 0))
  BY <1>1 DEF DriversInv, D!TypeOK
<1>5. Bounded
  BY <1>1, BoundedIs
<1> QED BY <1>2, <1>3, <1>4, <1>5, InvFrom

LEMMA DriversInit == D!Init => DriversInv
<1> SUFFICES ASSUME D!Init PROVE DriversInv
  OBVIOUS
<1>1. /\ driver \in Backends /\ server \in [range: BOOLEAN, size: BOOLEAN]
      /\ obj = Absent /\ op = [c \in Clients |-> D!Fresh] /\ pool = <<>> /\ Len(pool) = 0
      /\ sessions = {} /\ version = 0 /\ calls = 0 /\ mishaps = 0
  BY DEF D!Init
<1>2. /\ op \in [Clients -> D!CallRecords]
      /\ \A c \in Clients : op[c].session = 0 /\ Right(op[c], obj)
  BY <1>1, FreshCalls
<1>3. SessionsInv
  <2>1. pool \in Seq(PoolRecords)
    BY <1>1
  <2>2. Len(pool) <= MaxPool
    BY <1>1, DriversAssumption DEF DriversAssumption
  <2>3. Unshared /\ PooledOnce /\ NotPooled
    BY <1>1, <1>2 DEF Unshared, PooledOnce, NotPooled
  <2>4. OpenAre
    <3>1. \A s \in 1 .. D!MaxSessions : s # 0
      BY MaxSessionsIs
    <3> QED BY <1>1, <1>2, <3>1 DEF OpenAre
  <2> QED BY <1>1, <2>1, <2>2, <2>3, <2>4 DEF SessionsInv
<1>4. obj \in D!Contents
  BY <1>1, ContentsAre
<1>5. /\ Len(pool) <= MaxPool /\ \A i \in DOMAIN pool : pool[i] \in [id: 1 .. D!MaxSessions, good: BOOLEAN]
  BY <1>1, DriversAssumption DEF DriversAssumption
<1>6. version \in 0 .. Len(Sizes) /\ calls \in 0 .. MaxCalls /\ mishaps \in 0 .. Mishaps
  BY <1>1, SizesAre, DriversAssumption DEF DriversAssumption
<1>7. D!TypeOK
  BY <1>1, <1>2, <1>4, <1>5, <1>6 DEF D!TypeOK
<1> QED BY <1>1, <1>2, <1>3, <1>7 DEF DriversInv

LEMMA DriversStep ==
  ASSUME DriversInv, [D!Next]_(D!store)
  PROVE  DriversInv'
<1>1. CASE UNCHANGED D!store
  <2>1. UNCHANGED <<driver, server, version, calls, mishaps, obj, op, pool, sessions>>
    BY <1>1 DEF D!store
  <2>2. SessionsInv'
    BY <2>1, SessionsKept DEF DriversInv
  <2>3. Bounded
    BY <2>1, BoundedIs
  <2>4. op' \in [Clients -> D!CallRecords] /\ obj' \in D!Contents /\ (obj' # Absent => Placed(obj', 0))
    BY <2>1 DEF DriversInv, D!TypeOK
  <2>5. \A c \in Clients : Right(op'[c], obj')
    BY <2>1, CallIs
  <2> QED BY <2>2, <2>3, <2>4, <2>5, InvFrom
<1>2. CASE D!Next
  <2>1. \/ \E c \in Clients :
             \/ D!Call(c) \/ D!Acquire(c)
             \/ D!LocalPut(c) \/ D!LocalRename(c)
             \/ D!FtpStor(c) \/ D!FtpStorPiece(c) \/ D!FtpStorEnd(c)
             \/ D!S3Put(c) \/ D!WebdavPut(c) \/ D!MkcolParents(c) \/ D!WebdavRetry(c)
             \/ D!LocalExists(c) \/ D!FtpExists(c) \/ D!WebdavExists(c) \/ D!S3Exists(c)
             \/ D!LocalDelete(c) \/ D!FtpDelete(c) \/ D!WebdavDelete(c) \/ D!S3Delete(c)
             \/ D!LocalOpen(c) \/ D!FtpOpen(c) \/ D!WebdavOpen(c) \/ D!S3Open(c)
             \/ D!ReadBuffer(c) \/ D!FtpRead(c) \/ D!WebdavRange(c) \/ D!S3Range(c) \/ D!HttpRead(c)
             \/ D!Seek(c) \/ D!FtpSeek(c) \/ D!Close(c)
        \/ \E i \in 1 .. MaxPool : D!Age(i)
        \/ D!Crash
    BY <1>2 DEF D!Next
  <2>2. ASSUME NEW c \in Clients, D!Call(c) \/ D!Acquire(c) PROVE DriversInv'
    BY <2>2, CallStep, AcquireStep
  <2>3. ASSUME NEW c \in Clients,
               \/ D!LocalPut(c) \/ D!LocalRename(c)
               \/ D!FtpStor(c) \/ D!FtpStorPiece(c) \/ D!FtpStorEnd(c)
               \/ D!S3Put(c) \/ D!WebdavPut(c) \/ D!MkcolParents(c) \/ D!WebdavRetry(c)
        PROVE  DriversInv'
    BY <2>3, LocalPutStep, FtpStorStep, FtpStorPieceStep, FtpStorEndStep, HttpPutStep
  <2>4. ASSUME NEW c \in Clients,
               \/ D!LocalExists(c) \/ D!FtpExists(c) \/ D!WebdavExists(c) \/ D!S3Exists(c)
               \/ D!LocalDelete(c) \/ D!FtpDelete(c) \/ D!WebdavDelete(c) \/ D!S3Delete(c)
               \/ D!LocalOpen(c) \/ D!FtpOpen(c) \/ D!WebdavOpen(c) \/ D!S3Open(c)
        PROVE  DriversInv'
    BY <2>4, ExistsStep, DeleteStep, OpeningStep
  <2>5. ASSUME NEW c \in Clients,
               \/ D!ReadBuffer(c) \/ D!FtpRead(c) \/ D!WebdavRange(c) \/ D!S3Range(c) \/ D!HttpRead(c)
               \/ D!Seek(c) \/ D!FtpSeek(c) \/ D!Close(c)
        PROVE  DriversInv'
    BY <2>5, ReadBufferStep, FtpReadStep, RangeStep, HttpReadStep, SeekStep, CloseStep
  <2> QED BY <2>1, <2>2, <2>3, <2>4, <2>5, AgeStep, CrashStep
<1> QED BY <1>1, <1>2

LEMMA DriversInvIs == DriversInv => D!TypeOK /\ D!SessionsAccountedFor /\ D!AnswersAreTrue
<1> SUFFICES ASSUME DriversInv PROVE D!TypeOK /\ D!SessionsAccountedFor /\ D!AnswersAreTrue
  OBVIOUS
<1>1. D!TypeOK /\ D!SessionsAccountedFor
  BY SessionsAre DEF DriversInv
<1>2. ASSUME NEW c \in Clients
      PROVE  (\A g \in op[c].got : g[2][2] = g[1] + 1) /\ (op[c].denied \/ op[c].over \/ D!AnswerIsTrue(c))
  <2>1. Right(op[c], obj)
    BY CallIs
  <2>2. \A g \in op[c].got : g[2][2] = g[1] + 1
    BY <2>1 DEF Right
  <2>3. CASE op[c].pc = "idle"
    BY <2>1, <2>2, <2>3, TruthIs DEF Right
  <2>4. CASE op[c].pc # "idle"
    <3>1. op[c].answer = "none"
      BY <2>1, <2>4 DEF Right
    <3> QED BY <2>2, <3>1, TruthIs DEF Truth
  <2> QED BY <2>3, <2>4
<1> QED BY <1>1, <1>2 DEF D!AnswersAreTrue

-----------------------------------------------------------------------------
(* The directory while requests keep apart.                                *)

FilesTyped ==
  /\ dir \in [U!Names -> U!FileRecords]
  /\ running \in {0, 1} \cup Releases /\ oldest \in {1} \cup Releases
  /\ upgrade \in [Requests -> U!RequestRecords]
  /\ overlapped \in BOOLEAN

\* A request outlives no process, and asked for more than that one is.
Newest ==
  /\ running # 0 => running = oldest
  /\ \A r \in Requests : upgrade[r].at # "idle" => running # 0 /\ upgrade[r].to \in Releases /\ upgrade[r].to > oldest

Kept(n) == dir[n].whole /\ dir[n].release >= oldest

\* What a request at work may rely on.
Ready(r) ==
  /\ upgrade[r].writes = IF upgrade[r].at = "copy" THEN "new" ELSE "none"
  /\ upgrade[r].at = "copy" => dir["new"].release = upgrade[r].to
  /\ upgrade[r].at \in {"unbackup", "backup", "install"} => dir["new"] = U!Whole(upgrade[r].to)

\* Only between the two renames is the backup what is left of the binary.
Standing ==
  \/ Kept("exe") /\ \A r \in Requests : upgrade[r].at # "install"
  \/ /\ dir["exe"] = U!NoFile /\ Kept("bak")
     /\ running = 0 \/ \E r \in Requests : upgrade[r].at = "install"

Apart ==
  /\ \A q, r \in U!AtWork : q = r
  /\ \A r \in Requests : Ready(r)
  /\ Standing

DirInv == FilesTyped /\ Newest /\ (~overlapped => Apart)

LEMMA Values ==
  /\ \A x \in Releases \cup {0, 1} : x \in Nat
  /\ 0 \notin Releases
  /\ \A x \in {1} \cup Releases : /\ U!Whole(x) \in U!FileRecords /\ U!Whole(x).whole /\ U!Whole(x).release = x
                                  /\ U!Part(x) \in U!FileRecords /\ U!Part(x).release = x
                                  /\ U!Whole(x) # U!NoFile
  /\ U!NoFile \in U!FileRecords /\ ~U!NoFile.whole
  /\ \A f \in U!FileRecords : /\ f.whole => f # U!NoFile /\ f.release \in {1} \cup Releases
                              /\ f.release \in Nat
<1>1. /\ \A x \in Releases \cup {0, 1} : x \in Nat
      /\ 0 \notin Releases
  BY UpgradeAssumption DEF UpgradeAssumption
<1>2. U!NoFile \in U!FileRecords /\ ~U!NoFile.whole /\ U!NoFile.release = 0
  BY DEF U!FileRecords, U!NoFile
<1>3. ASSUME NEW x \in {1} \cup Releases
      PROVE  /\ U!Whole(x) \in U!FileRecords /\ U!Whole(x).whole /\ U!Whole(x).release = x
             /\ U!Part(x) \in U!FileRecords /\ U!Part(x).release = x
  BY DEF U!FileRecords, U!Whole, U!Part
<1>4. ASSUME NEW f \in U!FileRecords
      PROVE  f = U!NoFile \/ f.release \in {1} \cup Releases
  BY DEF U!FileRecords
<1> QED BY <1>1, <1>2, <1>3, <1>4

LEMMA IdleIs ==
  /\ U!Idle \in U!RequestRecords /\ U!Idle.at = "idle" /\ U!Idle.writes = "none"
BY DEF U!Idle, U!RequestRecords, U!Steps, U!Names

\* What a change of one request's step leaves.
LEMMA GoesIs ==
  ASSUME upgrade \in [Requests -> U!RequestRecords], NEW r \in Requests, NEW q \in U!RequestRecords,
         upgrade' = [upgrade EXCEPT ![r] = q]
  PROVE  /\ upgrade' \in [Requests -> U!RequestRecords] /\ upgrade'[r] = q
         /\ \A o \in Requests : o # r => upgrade'[o] = upgrade[o]
OBVIOUS

\* A removal changes the step of its request, and takes a name from others at most.
LEMMA RemovedIs ==
  ASSUME FilesTyped, NEW r \in Requests, NEW n \in U!Names, NEW at \in U!Steps, U!Removed(n, r, at)
  PROVE  /\ dir' \in [U!Names -> U!FileRecords]
         /\ dir'[n] = U!NoFile /\ \A m \in U!Names : m # n => dir'[m] = dir[m]
         /\ upgrade' \in [Requests -> U!RequestRecords]
         /\ at = "idle" => upgrade'[r] = U!Idle
         /\ at # "idle" => /\ upgrade'[r].at = at /\ upgrade'[r].to = upgrade[r].to
                           /\ upgrade[r].writes = "none" => upgrade'[r].writes = "none"
         /\ \A q \in Requests : q # r =>
              /\ upgrade'[q].at = upgrade[q].at /\ upgrade'[q].to = upgrade[q].to
              /\ upgrade[q].writes = "none" => upgrade'[q].writes = "none"
<1>1. dir' = [dir EXCEPT ![n] = U!NoFile] /\ U!NoFile \in U!FileRecords
  BY DEF U!Removed, U!FileRecords
<1> DEFINE left(q) == [upgrade[q] EXCEPT !.writes = IF @ = n THEN "none" ELSE @]
<1>2. \A q \in Requests : /\ left(q) \in U!RequestRecords /\ left(q).at = upgrade[q].at /\ left(q).to = upgrade[q].to
                          /\ upgrade[q].writes = "none" => left(q).writes = "none"
  BY DEF FilesTyped, U!RequestRecords
<1>3. upgrade' = [q \in Requests |-> IF q # r THEN left(q) ELSE IF at = "idle" THEN U!Idle ELSE [left(q) EXCEPT !.at = at]]
  BY DEF U!Removed
<1> HIDE DEF left
<1>4. /\ [left(r) EXCEPT !.at = at] \in U!RequestRecords
      /\ [left(r) EXCEPT !.at = at].at = at /\ [left(r) EXCEPT !.at = at].to = left(r).to
      /\ [left(r) EXCEPT !.at = at].writes = left(r).writes
  BY <1>2 DEF U!RequestRecords
<1> QED BY <1>1, <1>2, <1>3, <1>4, IdleIs DEF FilesTyped

LEMMA RenamedIs ==
  ASSUME FilesTyped, NEW r \in Requests, NEW from \in U!Names, NEW to \in U!Names, from # to,
         NEW at \in U!Steps, U!Renamed(from, to, r, at)
  PROVE  /\ dir' \in [U!Names -> U!FileRecords]
         /\ dir'[to] = dir[from] /\ dir'[from] = U!NoFile
         /\ \A m \in U!Names : m # from /\ m # to => dir'[m] = dir[m]
         /\ upgrade' \in [Requests -> U!RequestRecords]
         /\ upgrade'[r].at = at /\ upgrade'[r].to = upgrade[r].to
         /\ \A q \in Requests : /\ q # r => upgrade'[q].at = upgrade[q].at
                                /\ upgrade'[q].to = upgrade[q].to
                                /\ upgrade[q].writes = "none" => upgrade'[q].writes = "none"
<1>1. dir' = [dir EXCEPT ![to] = dir[from], ![from] = U!NoFile] /\ U!NoFile \in U!FileRecords
  BY DEF U!Renamed, U!FileRecords
<1> DEFINE moved(q) == [upgrade[q] EXCEPT !.writes = CASE @ = from -> to [] @ = to -> "none" [] OTHER -> @]
<1>2. \A q \in Requests : /\ moved(q) \in U!RequestRecords /\ moved(q).at = upgrade[q].at /\ moved(q).to = upgrade[q].to
                          /\ upgrade[q].writes = "none" => moved(q).writes = "none"
  BY DEF FilesTyped, U!RequestRecords, U!Names
<1>3. upgrade' = [q \in Requests |-> IF q = r THEN [moved(q) EXCEPT !.at = at] ELSE moved(q)]
  BY DEF U!Renamed
<1> HIDE DEF moved
<1>4. /\ [moved(r) EXCEPT !.at = at] \in U!RequestRecords
      /\ [moved(r) EXCEPT !.at = at].at = at /\ [moved(r) EXCEPT !.at = at].to = moved(r).to
      /\ [moved(r) EXCEPT !.at = at].writes = moved(r).writes
  BY <1>2 DEF U!RequestRecords
<1> QED BY <1>1, <1>2, <1>3, <1>4 DEF FilesTyped

-----------------------------------------------------------------------------
(* The steps before a request is at work beside the binary.                *)

LEMMA AskKeeps ==
  ASSUME DirInv, NEW r \in Requests, NEW release \in Releases, U!Ask(r, release)
  PROVE  DirInv'
<1>1. PICK q : q = [U!Idle EXCEPT !.at = "fetch", !.to = release]
  OBVIOUS
<1>2. q \in U!RequestRecords /\ q.at = "fetch" /\ q.to = release /\ q.writes = "none"
  BY <1>1 DEF U!Idle, U!RequestRecords, U!Steps
<1>3. /\ upgrade' = [upgrade EXCEPT ![r] = q] /\ upgrade[r].at = "idle" /\ running > 0 /\ running < release
      /\ UNCHANGED <<dir, running, overlapped, oldest>>
  BY <1>1 DEF U!Ask, U!Newer
<1>4. upgrade' \in [Requests -> U!RequestRecords] /\ upgrade'[r] = q /\ \A o \in Requests : o # r => upgrade'[o] = upgrade[o]
  BY <1>2, <1>3, GoesIs DEF DirInv, FilesTyped
<1>5. FilesTyped'
  BY <1>3, <1>4 DEF DirInv, FilesTyped
<1>6. Newest'
  BY <1>2, <1>3, <1>4, Values DEF DirInv, FilesTyped, Newest
<1>7. Apart => Apart'
  BY <1>2, <1>3, <1>4 DEF Apart, U!AtWork, Ready, Standing, Kept
<1> QED BY <1>3, <1>5, <1>6, <1>7 DEF DirInv

LEMMA FetchKeeps ==
  ASSUME DirInv, NEW r \in Requests, U!Fetch(r)
  PROVE  DirInv'
<1>1. PICK g \in BOOLEAN : \/ upgrade' = [upgrade EXCEPT ![r].at = "verify", ![r].genuine = TRUE] /\ g
                           \/ upgrade' = [upgrade EXCEPT ![r].at = "verify"] /\ ~g
  BY DEF U!Fetch, U!Goes
<1>2. PICK q : /\ q = IF g THEN [upgrade[r] EXCEPT !.at = "verify", !.genuine = TRUE] ELSE [upgrade[r] EXCEPT !.at = "verify"]
               /\ upgrade' = [upgrade EXCEPT ![r] = q]
  BY <1>1 DEF DirInv, FilesTyped
<1>3. q \in U!RequestRecords /\ q.at = "verify" /\ q.to = upgrade[r].to /\ q.writes = upgrade[r].writes
  BY <1>2 DEF DirInv, FilesTyped, U!RequestRecords, U!Steps
<1>4. upgrade' \in [Requests -> U!RequestRecords] /\ upgrade'[r] = q /\ \A o \in Requests : o # r => upgrade'[o] = upgrade[o]
  BY <1>1, <1>2, <1>3, GoesIs DEF DirInv, FilesTyped
<1>5. upgrade[r].at = "fetch" /\ UNCHANGED <<dir, running, overlapped, oldest>>
  BY DEF U!Fetch
<1>6. FilesTyped' /\ Newest'
  BY <1>3, <1>4, <1>5 DEF DirInv, FilesTyped, Newest
<1>7. Apart => Apart'
  BY <1>3, <1>4, <1>5 DEF Apart, U!AtWork, Ready, Standing, Kept
<1> QED BY <1>5, <1>6, <1>7 DEF DirInv

LEMMA VerifyKeeps ==
  ASSUME DirInv, NEW r \in Requests, U!Verify(r)
  PROVE  DirInv'
<1>1. upgrade[r].at = "verify" /\ UNCHANGED <<dir, running, oldest>>
  BY DEF U!Verify
<1>2. CASE upgrade[r].genuine
  <2>1. PICK q : q = [upgrade[r] EXCEPT !.at = "open"]
    OBVIOUS
  <2>2. q \in U!RequestRecords /\ q.at = "open" /\ q.to = upgrade[r].to /\ q.writes = upgrade[r].writes
    BY <2>1 DEF DirInv, FilesTyped, U!RequestRecords, U!Steps
  <2>3. upgrade' = [upgrade EXCEPT ![r] = q] /\ overlapped' = (overlapped \/ U!AtWork # {})
    BY <1>2, <2>1 DEF U!Verify, U!Goes, DirInv, FilesTyped
  <2>4. upgrade' \in [Requests -> U!RequestRecords] /\ upgrade'[r] = q /\ \A o \in Requests : o # r => upgrade'[o] = upgrade[o]
    BY <2>2, <2>3, GoesIs DEF DirInv, FilesTyped
  <2>5. FilesTyped' /\ Newest'
    BY <1>1, <2>2, <2>3, <2>4 DEF DirInv, FilesTyped, Newest
  <2>6. Apart /\ U!AtWork = {} => Apart'
    BY <1>1, <2>2, <2>4 DEF Apart, U!AtWork, Ready, Standing, Kept
  <2> QED BY <2>3, <2>5, <2>6 DEF DirInv
<1>3. CASE ~upgrade[r].genuine
  <2>1. upgrade' = [upgrade EXCEPT ![r] = U!Idle] /\ overlapped' = overlapped
    BY <1>3 DEF U!Verify, U!Ends
  <2>2. upgrade' \in [Requests -> U!RequestRecords] /\ upgrade'[r] = U!Idle /\ \A o \in Requests : o # r => upgrade'[o] = upgrade[o]
    BY <2>1, IdleIs, GoesIs DEF DirInv, FilesTyped
  <2>3. FilesTyped' /\ Newest'
    BY <1>1, <2>1, <2>2, IdleIs DEF DirInv, FilesTyped, Newest
  <2>4. Apart => Apart'
    BY <1>1, <2>2, IdleIs DEF Apart, U!AtWork, Ready, Standing, Kept
  <2> QED BY <2>1, <2>3, <2>4 DEF DirInv
<1> QED BY <1>2, <1>3

-----------------------------------------------------------------------------
(* A request at work beside the binary.                                    *)

\* While requests keep apart, the others write nothing.
LEMMA Alone ==
  ASSUME Apart, FilesTyped, NEW r \in U!AtWork
  PROVE  /\ r \in Requests
         /\ \A q \in Requests : q # r => q \notin U!AtWork /\ upgrade[q].writes = "none"
BY DEF Apart, U!AtWork, Ready

\* The request that is at work moves on to another step of its work, or ends.
LEMMA WorkMoves ==
  ASSUME FilesTyped, Newest, Apart, NEW r \in U!AtWork,
         upgrade' \in [Requests -> U!RequestRecords], dir' \in [U!Names -> U!FileRecords],
         upgrade'[r].to = upgrade[r].to \/ upgrade'[r].at = "idle",
         \A q \in Requests : q # r => /\ upgrade'[q].at = upgrade[q].at /\ upgrade'[q].to = upgrade[q].to
                                      /\ upgrade[q].writes = "none" => upgrade'[q].writes = "none",
         Ready(r)', Standing', UNCHANGED <<running, overlapped, oldest>>
  PROVE  DirInv'
<1>1. /\ r \in Requests /\ upgrade[r].at # "idle"
      /\ \A q \in Requests : q # r => q \notin U!AtWork /\ upgrade[q].writes = "none"
  BY Alone DEF U!AtWork
<1>2. FilesTyped'
  BY DEF FilesTyped
<1>3. Newest'
  BY <1>1 DEF Newest
<1>4. U!AtWork' \subseteq {r}
  BY <1>1 DEF U!AtWork
<1>5. \A q \in Requests : Ready(q)'
  BY <1>1 DEF Ready, U!AtWork
<1> QED BY <1>2, <1>3, <1>4, <1>5 DEF DirInv, Apart

\* Once two have overlapped nothing is claimed but the types.
LEMMA Overlapped ==
  ASSUME Newest, overlapped, overlapped', UNCHANGED <<running, oldest>>, FilesTyped',
         \A q \in Requests : upgrade'[q].at # "idle" => upgrade[q].at # "idle" /\ upgrade'[q].to = upgrade[q].to
  PROVE  DirInv'
BY DEF Newest, DirInv

\* What a step of the work has to show: the types, and in case requests have kept
\* apart what the request may rely on next, and where the binary stands.
LEMMA WorkKeeps ==
  ASSUME DirInv, NEW r \in Requests, r \in U!AtWork,
         upgrade' \in [Requests -> U!RequestRecords], dir' \in [U!Names -> U!FileRecords],
         upgrade'[r].to = upgrade[r].to \/ upgrade'[r].at = "idle",
         \A q \in Requests : q # r => /\ upgrade'[q].at = upgrade[q].at /\ upgrade'[q].to = upgrade[q].to
                                      /\ upgrade[q].writes = "none" => upgrade'[q].writes = "none",
         UNCHANGED <<running, overlapped, oldest>>,
         Apart => Ready(r)' /\ Standing'
  PROVE  DirInv'
<1>1. FilesTyped' /\ upgrade[r].at # "idle"
  BY DEF DirInv, FilesTyped, U!AtWork
<1>2. CASE overlapped
  BY <1>1, <1>2, Overlapped DEF DirInv
<1>3. CASE ~overlapped
  BY <1>3, WorkMoves DEF DirInv
<1> QED BY <1>2, <1>3

LEMMA CreateKeeps ==
  ASSUME DirInv, NEW r \in Requests, U!Create(r)
  PROVE  DirInv'
<1>1. /\ upgrade[r].at = "open" /\ r \in U!AtWork /\ upgrade[r].to \in Releases
      /\ dir' = [dir EXCEPT !["new"] = U!Part(upgrade[r].to)]
      /\ UNCHANGED <<running, overlapped, oldest>>
  BY DEF U!Create, U!AtWork, DirInv, Newest
<1>2. PICK q : q = [upgrade[r] EXCEPT !.at = "copy", !.writes = "new"]
  OBVIOUS
<1>3. q \in U!RequestRecords /\ q.at = "copy" /\ q.to = upgrade[r].to /\ q.writes = "new"
  BY <1>2 DEF DirInv, FilesTyped, U!RequestRecords, U!Steps, U!Names
<1>4. upgrade' \in [Requests -> U!RequestRecords] /\ upgrade'[r] = q /\ \A o \in Requests : o # r => upgrade'[o] = upgrade[o]
  BY <1>2, <1>3, GoesIs DEF U!Create, DirInv, FilesTyped
<1>5. U!Part(upgrade[r].to) \in U!FileRecords /\ U!Part(upgrade[r].to).release = upgrade[r].to
  BY <1>1, Values
<1>6. /\ dir' \in [U!Names -> U!FileRecords] /\ dir'["new"] = U!Part(upgrade[r].to)
      /\ dir'["exe"] = dir["exe"] /\ dir'["bak"] = dir["bak"]
  BY <1>1, <1>5 DEF DirInv, FilesTyped, U!Names
<1>7. Apart => Ready(r)' /\ Standing'
  BY <1>1, <1>3, <1>4, <1>5, <1>6 DEF Apart, Ready, Standing, Kept
<1> QED BY <1>1, <1>3, <1>4, <1>6, <1>7, WorkKeeps

\* A request that is alone writes the copy it has created to the end.
LEMMA CopyKeeps ==
  ASSUME DirInv, NEW r \in Requests, U!Copy(r)
  PROVE  DirInv'
<1>1. /\ upgrade[r].at = "copy" /\ r \in U!AtWork /\ upgrade[r].to \in Releases
      /\ UNCHANGED <<running, overlapped, oldest>>
  BY DEF U!Copy, U!AtWork, DirInv, Newest
<1>2. PICK q : q = [upgrade[r] EXCEPT !.at = "unbackup", !.writes = "none"]
  OBVIOUS
<1>3. q \in U!RequestRecords /\ q.at = "unbackup" /\ q.to = upgrade[r].to /\ q.writes = "none"
  BY <1>2 DEF DirInv, FilesTyped, U!RequestRecords, U!Steps, U!Names
<1>4. upgrade' \in [Requests -> U!RequestRecords] /\ upgrade'[r] = q /\ \A o \in Requests : o # r => upgrade'[o] = upgrade[o]
  BY <1>2, <1>3, GoesIs DEF U!Copy, DirInv, FilesTyped
<1>5. PICK n : n = upgrade[r].writes
  OBVIOUS
<1>6. PICK alone \in BOOLEAN : alone <=> \A o \in Requests \ {r} : upgrade[o].at = "copy" => upgrade[o].writes # n
  OBVIOUS
<1>7. dir' = IF n = "none" THEN dir
             ELSE [dir EXCEPT ![n] = IF alone /\ dir[n].release = upgrade[r].to
                                     THEN U!Whole(upgrade[r].to) ELSE U!Part(dir[n].release)]
  BY <1>5, <1>6 DEF U!Copy
<1>8. n \in {"none"} \cup U!Names
  BY <1>5 DEF DirInv, FilesTyped, U!RequestRecords
<1>9. dir' \in [U!Names -> U!FileRecords]
  <2>1. n \in U!Names => dir[n] \in U!FileRecords
    BY DEF DirInv, FilesTyped
  <2>2. U!Whole(upgrade[r].to) \in U!FileRecords
    BY <1>1, Values
  <2>3. n \in U!Names => U!Part(dir[n].release) \in U!FileRecords
    <3>1. n \in U!Names => dir[n] = U!NoFile \/ dir[n].release \in {1} \cup Releases
      BY <2>1 DEF U!FileRecords
    <3>2. U!Part(U!NoFile.release) = U!NoFile
      BY DEF U!Part, U!NoFile
    <3> QED BY <3>1, <3>2, Values
  <2> QED BY <1>7, <1>8, <2>1, <2>2, <2>3 DEF DirInv, FilesTyped
<1>10. ASSUME Apart PROVE Ready(r)' /\ Standing'
  <2>1. n = "new" /\ dir["new"].release = upgrade[r].to
    BY <1>1, <1>5, <1>10 DEF Apart, Ready
  <2>2. alone
    BY <1>1, <1>6, <1>10, <2>1 DEF Apart, U!AtWork
  <2>3. /\ dir'["new"] = U!Whole(upgrade[r].to)
        /\ dir'["exe"] = dir["exe"] /\ dir'["bak"] = dir["bak"]
    BY <1>7, <2>1, <2>2 DEF DirInv, FilesTyped, U!Names
  <2> QED BY <1>1, <1>3, <1>4, <1>10, <2>3 DEF Apart, Ready, Standing, Kept
<1> QED BY <1>1, <1>3, <1>4, <1>9, <1>10, WorkKeeps

\* The copy is removed, and the request ends: after a failure, or after the backup
\* was put back.
LEMMA GivesUpKeeps ==
  ASSUME DirInv, NEW r \in Requests, upgrade[r].at \in {"copy", "backup", "restore"},
         U!Removed("new", r, "idle"), UNCHANGED <<running, overlapped, oldest>>
  PROVE  DirInv'
<1>1. r \in U!AtWork
  BY DEF U!AtWork
<1>2. /\ dir' \in [U!Names -> U!FileRecords]
      /\ dir'["exe"] = dir["exe"] /\ dir'["bak"] = dir["bak"]
      /\ upgrade' \in [Requests -> U!RequestRecords] /\ upgrade'[r] = U!Idle
      /\ \A q \in Requests : q # r =>
           /\ upgrade'[q].at = upgrade[q].at /\ upgrade'[q].to = upgrade[q].to
           /\ upgrade[q].writes = "none" => upgrade'[q].writes = "none"
  BY RemovedIs DEF DirInv, U!Names, U!Steps
<1>3. Apart => Ready(r)' /\ Standing'
  BY <1>2, IdleIs DEF Apart, Ready, Standing, Kept
<1> QED BY <1>1, <1>2, <1>3, IdleIs, WorkKeeps

\* The former backup goes while the binary is there.
LEMMA RemoveBackupKeeps ==
  ASSUME DirInv, NEW r \in Requests, U!RemoveBackup(r)
  PROVE  DirInv'
<1>1. upgrade[r].at = "unbackup" /\ r \in U!AtWork /\ UNCHANGED <<running, overlapped, oldest>>
  BY DEF U!RemoveBackup, U!AtWork
<1>2. /\ dir' \in [U!Names -> U!FileRecords]
      /\ dir'["exe"] = dir["exe"] /\ dir'["new"] = dir["new"]
      /\ upgrade' \in [Requests -> U!RequestRecords]
      /\ upgrade'[r].at = "backup" /\ upgrade'[r].to = upgrade[r].to
      /\ upgrade[r].writes = "none" => upgrade'[r].writes = "none"
      /\ \A q \in Requests : q # r =>
           /\ upgrade'[q].at = upgrade[q].at /\ upgrade'[q].to = upgrade[q].to
           /\ upgrade[q].writes = "none" => upgrade'[q].writes = "none"
  BY RemovedIs DEF U!RemoveBackup, DirInv, U!Names, U!Steps
<1>3. ASSUME Apart PROVE Ready(r)' /\ Standing'
  <2>1. Kept("exe") /\ \A q \in Requests : upgrade[q].at # "install"
    BY <1>1, <1>3 DEF Apart, Standing, U!AtWork, DirInv, Newest
  <2> QED BY <1>1, <1>2, <1>3, <2>1 DEF Apart, Ready, Standing, Kept
<1> QED BY <1>1, <1>2, <1>3, WorkKeeps

\* The binary becomes its backup.
LEMMA BackupKeeps ==
  ASSUME DirInv, NEW r \in Requests, U!Backup(r)
  PROVE  DirInv'
<1>1. upgrade[r].at = "backup" /\ r \in U!AtWork /\ UNCHANGED <<running, overlapped, oldest>>
  BY DEF U!Backup, U!AtWork
<1>2. CASE ~U!There("exe")
  BY <1>1, <1>2, GivesUpKeeps DEF U!Backup
<1>3. CASE U!There("exe")
  <2>1. U!Renamed("exe", "bak", r, "install")
    BY <1>3 DEF U!Backup
  <2>2. /\ dir' \in [U!Names -> U!FileRecords]
        /\ dir'["bak"] = dir["exe"] /\ dir'["exe"] = U!NoFile /\ dir'["new"] = dir["new"]
        /\ upgrade' \in [Requests -> U!RequestRecords]
        /\ upgrade'[r].at = "install"
        /\ \A q \in Requests : /\ q # r => upgrade'[q].at = upgrade[q].at
                               /\ upgrade'[q].to = upgrade[q].to
                               /\ upgrade[q].writes = "none" => upgrade'[q].writes = "none"
    BY <2>1, RenamedIs DEF DirInv, U!Names, U!Steps
  <2>3. ASSUME Apart PROVE Ready(r)' /\ Standing'
    <3>1. Kept("exe")
      BY <1>1, <2>3 DEF Apart, Standing, U!AtWork, DirInv, Newest
    <3> QED BY <1>1, <2>2, <2>3, <3>1 DEF Apart, Ready, Standing, Kept
  <2> QED BY <1>1, <2>2, <2>3, WorkKeeps
<1> QED BY <1>2, <1>3

\* The backup is put back.
LEMMA RestoreKeeps ==
  ASSUME DirInv, NEW r \in Requests, upgrade[r].at = "install", U!Restore(r),
         UNCHANGED <<running, overlapped, oldest>>
  PROVE  DirInv'
<1>1. r \in U!AtWork
  BY DEF U!AtWork
<1>2. CASE U!There("bak")
  <2>1. U!Renamed("bak", "exe", r, "restore")
    BY <1>2 DEF U!Restore
  <2>2. /\ dir' \in [U!Names -> U!FileRecords]
        /\ dir'["exe"] = dir["bak"]
        /\ upgrade' \in [Requests -> U!RequestRecords]
        /\ upgrade'[r].at = "restore"
        /\ \A q \in Requests : /\ q # r => upgrade'[q].at = upgrade[q].at
                               /\ upgrade'[q].to = upgrade[q].to
                               /\ upgrade[q].writes = "none" => upgrade'[q].writes = "none"
    BY <2>1, RenamedIs DEF DirInv, U!Names, U!Steps
  <2>3. ASSUME Apart PROVE Ready(r)' /\ Standing'
    <3>1. Kept("bak") /\ \A q \in Requests : q # r => upgrade[q].at # "install"
      BY <2>3 DEF Apart, Standing, U!AtWork
    <3> QED BY <2>2, <2>3, <3>1 DEF Apart, Ready, Standing, Kept
  <2> QED BY <1>1, <2>2, <2>3, WorkKeeps
<1>3. CASE ~U!There("bak")
  <2>1. PICK q : q = [upgrade[r] EXCEPT !.at = "restore"]
    OBVIOUS
  <2>2. q \in U!RequestRecords /\ q.at = "restore" /\ q.to = upgrade[r].to
    BY <2>1 DEF DirInv, FilesTyped, U!RequestRecords, U!Steps
  <2>3. upgrade' = [upgrade EXCEPT ![r] = q] /\ dir' = dir
    BY <1>3, <2>1 DEF U!Restore, U!Goes, DirInv, FilesTyped
  <2>4. upgrade' \in [Requests -> U!RequestRecords] /\ upgrade'[r] = q /\ \A o \in Requests : o # r => upgrade'[o] = upgrade[o]
    BY <2>2, <2>3, GoesIs DEF DirInv, FilesTyped
  <2>5. ~Apart
    BY <1>3, Values DEF Apart, Standing, Kept, U!There, DirInv, FilesTyped
  <2> QED BY <1>1, <2>2, <2>3, <2>4, <2>5, WorkKeeps DEF DirInv, FilesTyped
<1> QED BY <1>2, <1>3

\* The copy takes the binary's name: a newer release.
LEMMA InstallKeeps ==
  ASSUME DirInv, NEW r \in Requests, U!Install(r) \/ U!InstallFails(r)
  PROVE  DirInv'
<1>1. upgrade[r].at = "install" /\ r \in U!AtWork /\ UNCHANGED <<running, overlapped, oldest>>
  BY DEF U!Install, U!InstallFails, U!AtWork
<1>2. CASE U!Restore(r)
  BY <1>1, <1>2, RestoreKeeps
<1>3. CASE U!Renamed("new", "exe", r, "exec")
  <2>2. /\ dir' \in [U!Names -> U!FileRecords]
        /\ dir'["exe"] = dir["new"] /\ dir'["bak"] = dir["bak"]
        /\ upgrade' \in [Requests -> U!RequestRecords]
        /\ upgrade'[r].at = "exec"
        /\ \A q \in Requests : /\ q # r => upgrade'[q].at = upgrade[q].at
                               /\ upgrade'[q].to = upgrade[q].to
                               /\ upgrade[q].writes = "none" => upgrade'[q].writes = "none"
    BY <1>3, RenamedIs DEF DirInv, U!Names, U!Steps
  <2>3. ASSUME Apart PROVE Ready(r)' /\ Standing'
    <3>1. dir["new"] = U!Whole(upgrade[r].to) /\ upgrade[r].to \in Releases /\ upgrade[r].to > oldest
      BY <1>1, <2>3 DEF Apart, Ready, DirInv, Newest
    <3>2. Kept("exe")'
      BY <1>1, <2>2, <3>1, Values DEF Kept, DirInv, FilesTyped
    <3>3. \A q \in Requests : upgrade'[q].at # "install"
      BY <1>1, <2>2, <2>3 DEF Apart, U!AtWork
    <3> QED BY <1>1, <2>2, <2>3, <3>2, <3>3 DEF Apart, Ready, Standing
  <2> QED BY <1>1, <2>2, <2>3, WorkKeeps
<1> QED BY <1>2, <1>3 DEF U!Install, U!InstallFails

-----------------------------------------------------------------------------
(* The process goes, and comes.                                            *)

\* All requests end with the process.
LEMMA AllEnd ==
  ASSUME DirInv, upgrade' = [q \in Requests |-> U!Idle], UNCHANGED <<dir, overlapped>>,
         running' \in {0, 1} \cup Releases, oldest' \in {1} \cup Releases,
         running' # 0 => running' = oldest',
         \/ UNCHANGED oldest /\ running' = 0
         \/ dir["exe"].whole /\ dir["exe"].release = oldest' /\ oldest' \in Nat
  PROVE  DirInv'
<1>1. \A q \in Requests : upgrade'[q].at = "idle" /\ upgrade'[q].writes = "none"
  BY IdleIs
<1>2. FilesTyped' /\ Newest'
  BY <1>1, IdleIs DEF DirInv, FilesTyped, Newest
<1>3. U!AtWork' = {} /\ \A q \in Requests : Ready(q)'
  BY <1>1 DEF U!AtWork, Ready
<1>4. Apart => Standing'
  <2>1. CASE UNCHANGED oldest /\ running' = 0
    BY <1>1, <2>1 DEF Apart, Standing, Kept
  <2>2. CASE dir["exe"].whole /\ dir["exe"].release = oldest' /\ oldest' \in Nat
    BY <1>1, <2>2 DEF Standing, Kept
  <2> QED BY <2>1, <2>2
<1> QED BY <1>2, <1>3, <1>4 DEF DirInv, Apart

LEMMA ReexecKeeps ==
  ASSUME DirInv, NEW r \in Requests, U!Reexec(r)
  PROVE  DirInv'
<1>1. upgrade[r].at = "exec" /\ UNCHANGED <<dir, overlapped>> /\ dir["exe"] \in U!FileRecords
  BY DEF U!Reexec, DirInv, FilesTyped, U!Names
<1>2. CASE dir["exe"].whole
  <2>1. /\ running' = dir["exe"].release /\ oldest' = dir["exe"].release
        /\ upgrade' = [q \in Requests |-> U!Idle]
    BY <1>2 DEF U!Reexec
  <2>2. dir["exe"].release \in {1} \cup Releases /\ dir["exe"].release \in Nat
    BY <1>1, <1>2, Values
  <2> QED BY <1>1, <1>2, <2>1, <2>2, AllEnd
<1>3. CASE ~dir["exe"].whole
  <2>1. upgrade' = [upgrade EXCEPT ![r] = U!Idle] /\ UNCHANGED <<running, oldest>>
    BY <1>3 DEF U!Reexec, U!Ends
  <2>2. upgrade' \in [Requests -> U!RequestRecords] /\ upgrade'[r] = U!Idle /\ \A o \in Requests : o # r => upgrade'[o] = upgrade[o]
    BY <2>1, IdleIs, GoesIs DEF DirInv, FilesTyped
  <2>3. FilesTyped' /\ Newest'
    BY <1>1, <2>1, <2>2, IdleIs DEF DirInv, FilesTyped, Newest
  <2>4. Apart => Apart'
    BY <1>1, <2>1, <2>2, IdleIs DEF Apart, U!AtWork, Ready, Standing, Kept
  <2> QED BY <1>1, <2>3, <2>4 DEF DirInv
<1> QED BY <1>2, <1>3

LEMMA CrashKeeps ==
  ASSUME DirInv, U!Crash
  PROVE  DirInv'
BY AllEnd DEF U!Crash, DirInv, FilesTyped

LEMMA StartKeeps ==
  ASSUME DirInv, U!Start
  PROVE  DirInv'
<1>1. /\ running = 0 /\ dir["exe"].whole /\ UNCHANGED <<dir, upgrade, overlapped>>
      /\ running' = dir["exe"].release /\ oldest' = dir["exe"].release
  BY DEF U!Start
<1>2. dir["exe"].release \in {1} \cup Releases /\ dir["exe"].release \in Nat
  BY <1>1, Values DEF DirInv, FilesTyped, U!Names
<1>3. \A q \in Requests : upgrade[q].at = "idle"
  BY <1>1 DEF DirInv, Newest
<1>4. FilesTyped' /\ Newest'
  BY <1>1, <1>2, <1>3 DEF DirInv, FilesTyped, Newest
<1>5. Apart => Apart'
  BY <1>1, <1>2, <1>3 DEF Apart, U!AtWork, Ready, Standing, Kept
<1> QED BY <1>1, <1>4, <1>5 DEF DirInv

-----------------------------------------------------------------------------
(* Upgrade: every step.                                                    *)

Counted == asked \in 0 .. MaxUpgrades /\ breaks \in 0 .. MaxBreaks
UpgradeInv == DirInv /\ Counted

LEMMA UpgradeInit == U!Init => UpgradeInv
<1> SUFFICES ASSUME U!Init PROVE UpgradeInv
  OBVIOUS
<1>1. \A r \in Requests : upgrade[r] = U!Idle
  BY DEF U!Init
<1>2. /\ dir \in [U!Names -> U!FileRecords] /\ dir["exe"] = U!Whole(1)
      /\ running = 1 /\ oldest = 1 /\ overlapped = FALSE
  BY Values DEF U!Init, U!Names
<1>3. upgrade \in [Requests -> U!RequestRecords]
  BY IdleIs DEF U!Init
<1>4. FilesTyped /\ Newest
  BY <1>1, <1>2, <1>3, IdleIs DEF FilesTyped, Newest
<1>5. Kept("exe")
  BY <1>2, Values DEF Kept
<1>6. Apart
  BY <1>1, <1>2, <1>5, IdleIs DEF Apart, U!AtWork, Ready, Standing
<1>7. Counted
  BY UpgradeAssumption DEF U!Init, Counted, UpgradeAssumption
<1> QED BY <1>4, <1>6, <1>7 DEF DirInv, UpgradeInv

LEMMA UpgradeStep ==
  ASSUME UpgradeInv, [U!Next]_(U!files)
  PROVE  UpgradeInv'
<1>0. DirInv /\ Counted
  BY DEF UpgradeInv
<1>1. ASSUME NEW r \in Requests, U!CopyFails(r) \/ U!BackupFails(r) \/ U!Discard(r) PROVE DirInv'
  BY <1>0, <1>1, GivesUpKeeps DEF U!CopyFails, U!BackupFails, U!Discard
<1>2. CASE UNCHANGED U!files
  BY <1>0, <1>2 DEF U!files, UpgradeInv, Counted, DirInv, FilesTyped, Newest, Apart, U!AtWork, Ready, Standing, Kept
<1>3. CASE U!Next
  <2>1. DirInv'
    BY <1>0, <1>1, <1>3, AskKeeps, FetchKeeps, VerifyKeeps, CreateKeeps, CopyKeeps, RemoveBackupKeeps, BackupKeeps,
       InstallKeeps, ReexecKeeps, CrashKeeps, StartKeeps, Zenon DEF U!Next
  <2>2. \/ UNCHANGED <<asked, breaks>>
        \/ UNCHANGED asked /\ U!Failing
        \/ UNCHANGED breaks /\ asked < MaxUpgrades /\ asked' = asked + 1
    <3>1. ASSUME NEW r \in Requests
          PROVE  /\ \A release \in Releases : U!Ask(r, release) => UNCHANGED breaks /\ asked < MaxUpgrades /\ asked' = asked + 1
                 /\ U!Verify(r) \/ U!Create(r) \/ U!RemoveBackup(r) \/ U!Install(r) \/ U!Discard(r) \/ U!Reexec(r) \/ U!Start
                      => UNCHANGED <<asked, breaks>>
                 /\ U!Fetch(r) \/ U!Copy(r) \/ U!CopyFails(r) \/ U!Backup(r) \/ U!BackupFails(r) \/ U!InstallFails(r) \/ U!Crash
                      => UNCHANGED asked /\ (UNCHANGED breaks \/ U!Failing)
      BY Zenon DEF U!Ask, U!Verify, U!Create, U!RemoveBackup, U!Install, U!Discard, U!Reexec, U!Start, U!Fetch, U!Copy, U!CopyFails, U!Backup,
         U!BackupFails, U!InstallFails, U!Crash
    <3>2. /\ U!Start => UNCHANGED <<asked, breaks>>
          /\ U!Crash => UNCHANGED asked /\ (UNCHANGED breaks \/ U!Failing)
      BY DEF U!Start, U!Crash
    <3> QED BY <1>3, <3>1, <3>2, Zenon DEF U!Next
  <2>3. Counted'
    BY <1>0, <2>2, UpgradeAssumption DEF Counted, U!Failing, UpgradeAssumption
  <2> QED BY <2>1, <2>3 DEF UpgradeInv
<1> QED BY <1>2, <1>3

LEMMA UpgradeInvIs == UpgradeInv => U!TypeOK /\ U!BinaryIsKept
<1> SUFFICES ASSUME UpgradeInv PROVE U!TypeOK /\ U!BinaryIsKept
  OBVIOUS
<1>1. U!TypeOK
  BY DEF UpgradeInv, DirInv, FilesTyped, Counted, U!TypeOK
<1>2. CASE overlapped
  BY <1>1, <1>2 DEF U!BinaryIsKept
<1>3. CASE ~overlapped
  <2>1. Standing
    BY <1>3 DEF UpgradeInv, DirInv, Apart
  <2> QED BY <1>1, <2>1 DEF Standing, Kept, U!BinaryIsKept, U!There
<1> QED BY <1>1, <1>2, <1>3
-----------------------------------------------------------------------------
(* The services together.                                                  *)

\* A behaviour of the services, seen from the settings and the counters, is one of
\* LocalState: what is followed beside them changes none of their variables, and a
\* single setting is a part of all (settings.Service, stats.Service).
THEOREM ServicesAreLocal == Services => Spec
<1>1. ServicesInit => Init
  BY DEF ServicesInit
<1>2. [ServicesNext]_<<part, vars, drives, albums, feeds, upgrading, deliveries>> => [Next]_vars
  <2> SUFFICES ASSUME ServicesNext PROVE [Next]_vars
    OBVIOUS
  <2>1. ASSUME part \in Cached, SettingsNext({part}) PROVE SettingsNext(Cached)
    <3>1. {part} \subseteq Cached
      BY <2>1
    <3> QED BY <2>1, <3>1, Zenon DEF SettingsNext
  <2> QED BY <2>1 DEF ServicesNext, Next
<1> QED BY <1>1, <1>2, PTL DEF Services, Spec

\* While the albums are followed their invariant holds: every service keeps to its
\* own variables, and no step changes the part that is followed.
THEOREM AlbumsFollowed == Services => [](part = "albums" => AlbumsInv)
<1>1. ServicesInit => (part = "albums" => AlbumsInv)
  BY AlbumsInit DEF ServicesInit
<1>2. (part = "albums" => AlbumsInv) /\ [ServicesNext]_<<part, vars, drives, albums, feeds, upgrading, deliveries>>
        => (part = "albums" => AlbumsInv)'
  <2> SUFFICES ASSUME part = "albums" => AlbumsInv, part' = "albums",
                      [ServicesNext]_<<part, vars, drives, albums, feeds, upgrading, deliveries>>
               PROVE  AlbumsInv'
    OBVIOUS
  <2>1. part = "albums" /\ [A!Next]_(A!shelf)
    BY DEF ServicesNext, albums, A!shelf, Cached
  <2> QED BY <2>1, AlbumsStep
<1> QED BY <1>1, <1>2, PTL DEF Services

\* The same for the feeds.
THEOREM FeedsFollowed == Services => [](part = "feeds" => FeedsInv)
<1>1. ServicesInit => (part = "feeds" => FeedsInv)
  BY FeedsInit DEF ServicesInit
<1>2. (part = "feeds" => FeedsInv) /\ [ServicesNext]_<<part, vars, drives, albums, feeds, upgrading, deliveries>>
        => (part = "feeds" => FeedsInv)'
  <2> SUFFICES ASSUME part = "feeds" => FeedsInv, part' = "feeds",
                      [ServicesNext]_<<part, vars, drives, albums, feeds, upgrading, deliveries>>
               PROVE  FeedsInv'
    OBVIOUS
  <2>1. part = "feeds" /\ [F!Next]_(F!rows)
    BY DEF ServicesNext, feeds, F!rows, Cached
  <2> QED BY <2>1, FeedsStep
<1> QED BY <1>1, <1>2, PTL DEF Services

\* The same for the delivery of a request and for the probes of a policy, which
\* share the table of policies and the drivers built from it.
THEOREM DeliveryFollowed == Services => [](part \in {"delivery", "probes"} => DeliveryInv)
<1>1. ServicesInit => (part \in {"delivery", "probes"} => DeliveryInv)
  BY DeliveryInit DEF ServicesInit
<1>2. (part \in {"delivery", "probes"} => DeliveryInv)
      /\ [ServicesNext]_<<part, vars, drives, albums, feeds, upgrading, deliveries>>
        => (part \in {"delivery", "probes"} => DeliveryInv)'
  <2> SUFFICES ASSUME part \in {"delivery", "probes"} => DeliveryInv, part' \in {"delivery", "probes"},
                      [ServicesNext]_<<part, vars, drives, albums, feeds, upgrading, deliveries>>
               PROVE  DeliveryInv'
    OBVIOUS
  <2>1. part \in {"delivery", "probes"} /\ [P!Delivering \/ P!Probing]_(P!vars)
    BY DEF ServicesNext, deliveries, P!vars, Cached
  <2> QED BY <2>1, DeliveryStep
<1> QED BY <1>1, <1>2, PTL DEF Services

\* The same for the storage drivers and the FTP sessions they pool.
THEOREM DriversFollowed == Services => [](part = "drivers" => DriversInv)
<1>1. ServicesInit => (part = "drivers" => DriversInv)
  BY DriversInit DEF ServicesInit
<1>2. (part = "drivers" => DriversInv) /\ [ServicesNext]_<<part, vars, drives, albums, feeds, upgrading, deliveries>>
        => (part = "drivers" => DriversInv)'
  <2> SUFFICES ASSUME part = "drivers" => DriversInv, part' = "drivers",
                      [ServicesNext]_<<part, vars, drives, albums, feeds, upgrading, deliveries>>
               PROVE  DriversInv'
    OBVIOUS
  <2>1. part = "drivers" /\ [D!Next]_(D!store)
    BY DEF ServicesNext, drives, D!store, Cached
  <2> QED BY <2>1, DriversStep
<1> QED BY <1>1, <1>2, PTL DEF Services

\* The same for the upgrade of the binary.
THEOREM UpgradeFollowed == Services => [](part = "upgrade" => UpgradeInv)
<1>1. ServicesInit => (part = "upgrade" => UpgradeInv)
  BY UpgradeInit DEF ServicesInit
<1>2. (part = "upgrade" => UpgradeInv) /\ [ServicesNext]_<<part, vars, drives, albums, feeds, upgrading, deliveries>>
        => (part = "upgrade" => UpgradeInv)'
  <2> SUFFICES ASSUME part = "upgrade" => UpgradeInv, part' = "upgrade",
                      [ServicesNext]_<<part, vars, drives, albums, feeds, upgrading, deliveries>>
               PROVE  UpgradeInv'
    OBVIOUS
  <2>1. part = "upgrade" /\ [U!Next]_(U!files)
    BY DEF ServicesNext, upgrading, U!files, Cached
  <2> QED BY <2>1, UpgradeStep
<1> QED BY <1>1, <1>2, PTL DEF Services

\* Whatever album is made private, filled, swept, emptied and restored from, and
\* wherever a sweep fails: an image in a private album is private, or its sweep is on
\* its way, or it is one of those the model names as excused; and a visitor of an album
\* that nobody changes sees every image of it once (applyAlbumVisibility, Update,
\* SetImagesVisibility, ListPublicImages, resolveCover).
THEOREM AlbumsAlwaysHold == Services => []AlbumsHold
<1>1. (part = "albums" => AlbumsInv) => AlbumsHold
  BY AlbumsInvIs DEF AlbumsHold
<1> QED BY <1>1, AlbumsFollowed, PTL

\* Who pages to the end of a list gets every row that stayed in it exactly once,
\* whatever came, went and moved meanwhile, for any number of rows and of changes; the
\* rows excepted are those that ListsAreComplete names (the cursors of List, TrashList,
\* feed, ListPublicAlbums; the offsets of ListUsers).
THEOREM ListsAreAlwaysComplete == Services => []ListsAreComplete
<1>1. (part = "feeds" => FeedsInv) => ListsAreComplete
  BY FeedsInvIs DEF ListsAreComplete
<1> QED BY <1>1, FeedsFollowed, PTL

\* No FTP session is used by two calls or left behind, and a call that reports success
\* did what it says, for any number of calls, any pool and any object; a request that
\* nothing crosses goes where the tables say; a probe that passes leaves nothing behind
\* (ftp, webdav, s3 and local Driver, Resolver.Driver, Original, TestPolicy).
THEOREM DriversAlwaysHold == Services => []DriversHold
<1>1. (part = "drivers" => DriversInv) /\ (part \in {"delivery", "probes"} => DeliveryInv) => DriversHold
  BY DriversInvIs, DeliveryInvIs DEF DriversHold
<1> QED BY <1>1, DriversFollowed, DeliveryFollowed, PTL

\* Unless two upgrades overlap there is always a whole binary to start, the new one
\* or the backup, and none older than the one that ran, wherever an upgrade fails
\* (upgrade.UpgradeBinary, replaceExecutable).
THEOREM BinaryIsNeverLost == Services => []BinaryIsKept
<1>1. (part = "upgrade" => UpgradeInv) => BinaryIsKept
  BY UpgradeInvIs DEF BinaryIsKept
<1> QED BY <1>1, UpgradeFollowed, PTL

\* Every variable of the service that is followed has its type.
THEOREM ServicesTypes == Services => []ServicesTypeOK
<1>1. /\ TypeOK
      /\ part = "albums" => AlbumsInv
      /\ part = "feeds" => FeedsInv
      /\ part \in {"delivery", "probes"} => DeliveryInv
      /\ part = "drivers" => DriversInv
      /\ part = "upgrade" => UpgradeInv
      => ServicesTypeOK
  <2> SUFFICES ASSUME TypeOK,
                      part = "albums" => A!TypeOK,
                      part = "feeds" => F!TypeOK,
                      part \in {"delivery", "probes"} => P!TypeOK,
                      part = "drivers" => D!TypeOK,
                      part = "upgrade" => U!TypeOK
               PROVE  ServicesTypeOK
    BY AlbumsInvIs, FeedsInvIs, DeliveryInvIs, DriversInvIs, UpgradeInvIs
  <2>1. CASE part = "drivers"
    BY <2>1 DEF ServicesTypeOK
  <2>2. CASE part = "albums"
    BY <2>2 DEF ServicesTypeOK
  <2>3. CASE part = "feeds"
    BY <2>3 DEF ServicesTypeOK
  <2>4. CASE part = "upgrade"
    BY <2>4 DEF ServicesTypeOK
  <2>5. CASE part \in {"delivery", "probes"}
    BY <2>5 DEF ServicesTypeOK
  <2>6. CASE part \notin {"drivers", "albums", "feeds", "upgrade", "delivery", "probes"}
    BY <2>6 DEF ServicesTypeOK
  <2> QED BY <2>1, <2>2, <2>3, <2>4, <2>5, <2>6
<1> QED BY <1>1, ServicesAreLocal, LocalStateTypeOK, AlbumsFollowed, FeedsFollowed, DeliveryFollowed,
           DriversFollowed, UpgradeFollowed, PTL

\* What the settings and the counters promise, they promise when they are followed
\* beside the other services.
THEOREM ServicesKeepSettings == Services => [](SettingsHold /\ ViewsConserved)
<1> QED BY ServicesAreLocal, SettingsAreHeld, ViewsAreConserved, PTL

=============================================================================
