------------------------------- MODULE Albums --------------------------------
(***************************************************************************)
(* Albums and the images in them: a private album makes its images         *)
(* private, one after the other; images are moved, uploaded, trashed,      *)
(* restored and put in order while visitors page through public albums.    *)
(*                                                                         *)
(* An image's surface stands for the file it points to: a change of        *)
(* visibility that has to change the surface is a compare-and-set on it.   *)
(* Status, expiry and password of an image, which veil it as "private"     *)
(* does, are left out.  Album 0 is "in no album".                          *)
(***************************************************************************)
EXTENDS Integers, Sequences, FiniteSets, Functions

CONSTANTS
  NumImages,   \* images, by id
  NumAlbums,   \* albums, by id
  Requests,    \* requests of the owner in flight
  MaxRequests, \* bound on requests, trash and order changes included
  MaxErrors    \* bound on failed switches and restarts

Images == 1 .. NumImages
AlbumIds == 1 .. NumAlbums
Visibilities == {"public", "private"}

VARIABLES
  album,       \* the albums table: visibility and chosen cover
  image,       \* the images table
  req,         \* requests in flight
  walk,        \* a visitor paging through an album
  requests,    \* requests so far
  errors,      \* errors so far
  excused      \* history: images left public in a private album by a race, an error or the trash

shelf == <<album, image, req, walk, requests, errors, excused>>

AlbumRecords == [vis: {"none"} \cup Visibilities, cover: 0 .. NumImages]
ImageRecords == [st: {"none", "live", "trash"}, vis: Visibilities, surface: Visibilities,
                 album: 0 .. NumAlbums, pos: 0 .. NumImages]
AlbumPatches == [vis: {"keep"} \cup Visibilities, album: {-1} \cup 0 .. NumAlbums]
RequestRecords ==
  [pc: {"idle", "upload", "write", "cover", "private", "list", "sweep"}, i: 0 .. NumImages, a: 0 .. NumAlbums,
   patch: AlbumPatches, seen: ImageRecords, seenVis: {"none"} \cup Visibilities, left: SUBSET Images, vis: Visibilities]
WalkRecords == [pc: {"idle", "cover", "page", "done"}, a: 0 .. NumAlbums, pos: -1 .. NumImages, id: 0 .. NumImages,
                seen: SUBSET Images, twice: BOOLEAN, cover: 0 .. NumImages, disturbed: BOOLEAN]

NoImage == [st |-> "none", vis |-> "public", surface |-> "public", album |-> 0, pos |-> 0]
NoPatch == [vis |-> "keep", album |-> -1]
NoRequest == [pc |-> "idle", i |-> 0, a |-> 0, patch |-> NoPatch, seen |-> NoImage, seenVis |-> "none",
              left |-> {}, vis |-> "private"]
NoWalk == [pc |-> "idle", a |-> 0, pos |-> -1, id |-> 0, seen |-> {}, twice |-> FALSE, cover |-> 0,
           disturbed |-> FALSE]

\* Albums and images that are there already, or yet to be created; a private
\* album holds private images.
Init ==
  /\ album \in [AlbumIds -> [vis: {"none"} \cup Visibilities, cover: {0}]]
  /\ \E a \in AlbumIds, v \in Visibilities, there \in SUBSET {1} :
       /\ there # {} => album[a].vis = v
       /\ image = [i \in Images |-> IF i \in there THEN [NoImage EXCEPT !.st = "live", !.vis = v, !.surface = v, !.album = a]
                                    ELSE NoImage]
  /\ req = [r \in Requests |-> NoRequest]
  /\ walk = NoWalk
  /\ requests = 0 /\ errors = 0 /\ excused = {}

AlbumVis(a) == IF a = 0 THEN "none" ELSE album[a].vis
In(i, a) == image[i].st = "live" /\ image[i].album = a
Exposed(i) == image[i].st = "live" /\ image[i].vis = "public" /\ AlbumVis(image[i].album) = "private"

\* What every write does to the history: a visitor's walk is disturbed, and
\* images stay excused while they are exposed.
Noted(new) ==
  /\ walk' = [walk EXCEPT !.disturbed = @ \/ (walk.pc # "idle" /\ <<album, image>>' # <<album, image>>)]
  /\ excused' = {i \in Images : Exposed(i)' /\ i \in excused \cup new}

Free(r) == req[r].pc = "idle" /\ requests < MaxRequests /\ requests' = requests + 1
Ends(r) == req' = [req EXCEPT ![r] = NoRequest]
Erring == errors < MaxErrors /\ errors' = errors + 1
Quiet == UNCHANGED <<album, image, walk, errors, excused>>

-----------------------------------------------------------------------------
(* Albums: albumsvc.                                                       *)

CreateAlbum(a, v) ==
  /\ album[a].vis = "none" /\ requests < MaxRequests /\ requests' = requests + 1
  /\ album' = [album EXCEPT ![a] = [vis |-> v, cover |-> 0]]
  /\ UNCHANGED <<image, req, errors>>
  /\ Noted({})

\* Delete: the images go into the trash or lose the album, and those that
\* were in the trash lose it as well, in one transaction.
DeleteAlbum(a, withImages) ==
  /\ album[a].vis # "none" /\ requests < MaxRequests /\ requests' = requests + 1
  /\ album' = [album EXCEPT ![a] = [vis |-> "none", cover |-> 0]]
  /\ image' = [i \in Images |-> IF image[i].album # a THEN image[i]
                                ELSE [image[i] EXCEPT !.st = IF withImages /\ @ = "live" THEN "trash" ELSE @,
                                                      !.album = 0]]
  /\ UNCHANGED <<req, errors>>
  /\ Noted({})

\* Update with a visibility: the row is read ...
BeginVisibility(r, a, v) ==
  /\ Free(r) /\ album[a].vis # "none"
  /\ req' = [req EXCEPT ![r] = [NoRequest EXCEPT !.pc = "private", !.a = a, !.vis = v]]
  /\ Quiet

\* ... and written; an album that is private now goes through its images.
WriteVisibility(r) ==
  LET a == req[r].a IN
  /\ req[r].pc = "private"
  /\ album' = IF album[a].vis = "none" THEN album ELSE [album EXCEPT ![a].vis = req[r].vis]
  /\ IF req[r].vis = "private" /\ album[a].vis # "none"
       THEN req' = [req EXCEPT ![r].pc = "list"]
       ELSE Ends(r)
  /\ UNCHANGED <<image, requests, errors>>
  /\ Noted({})

\* Update with a cover: it must be in the album, and showable if that is public ...
Showable(i, a) == In(i, a) /\ image[i].vis = "public"

BeginCover(r, a, i) ==
  /\ Free(r) /\ album[a].vis # "none"
  /\ IF album[a].vis = "public" THEN Showable(i, a) ELSE In(i, a)
  /\ req' = [req EXCEPT ![r] = [NoRequest EXCEPT !.pc = "cover", !.a = a, !.i = i]]
  /\ Quiet

\* ... when it is read; the row is written later.
WriteCover(r) ==
  /\ req[r].pc = "cover"
  /\ album' = IF album[req[r].a].vis = "none" THEN album ELSE [album EXCEPT ![req[r].a].cover = req[r].i]
  /\ Ends(r)
  /\ UNCHANGED <<image, requests, errors>>
  /\ Noted({})

\* SetImagesVisibility, on its own: nothing is made public in a private album.
BeginSwitchAll(r, a, v) ==
  /\ Free(r) /\ album[a].vis # "none" /\ ~(album[a].vis = "private" /\ v = "public")
  /\ req' = [req EXCEPT ![r] = [NoRequest EXCEPT !.pc = "list", !.a = a, !.vis = v]]
  /\ Quiet

\* The live images of the album are listed once.
ListImages(r) ==
  LET left == {i \in Images : In(i, req[r].a)} IN
  /\ req[r].pc = "list"
  /\ IF left = {} THEN Ends(r) ELSE req' = [req EXCEPT ![r].pc = "sweep", ![r].left = left]
  /\ UNCHANGED requests
  /\ Quiet

\* Reorder: positions 1, 2, ... for the keys given, all of them or none.
Reorder(a, order) ==
  /\ album[a].vis # "none" /\ requests < MaxRequests /\ requests' = requests + 1
  /\ \A i \in Range(order) : In(i, a)
  /\ image' = [i \in Images |-> IF i \notin Range(order) THEN image[i]
                                ELSE [image[i] EXCEPT !.pos = CHOOSE n \in DOMAIN order : order[n] = i]]
  /\ UNCHANGED <<album, req, errors>>
  /\ Noted({})

-----------------------------------------------------------------------------
(* Images: upload.Save and imagesvc.Update as far as albums go.            *)

\* applyAlbumVisibility: a private album decides.
Forced(a, v) == IF AlbumVis(a) = "private" THEN "private" ELSE v

\* resolveAlbum takes an album that exists; its visibility is read here ...
BeginUpload(r, i, a, v) ==
  /\ Free(r) /\ image[i].st = "none" /\ \A q \in Requests : req[q].pc = "upload" => req[q].i # i
  /\ a = 0 \/ AlbumVis(a) # "none"
  /\ req' = [req EXCEPT ![r] = [NoRequest EXCEPT !.pc = "upload", !.i = i, !.a = a, !.vis = Forced(a, v),
                                  !.seenVis = AlbumVis(a)]]
  /\ Quiet

\* ... and the image row is written after the bytes.
CommitUpload(r) ==
  LET i == req[r].i
      a == req[r].a IN
  /\ req[r].pc = "upload"
  /\ image' = [image EXCEPT ![i] = [NoImage EXCEPT !.st = "live", !.vis = req[r].vis, !.surface = req[r].vis,
                                      !.album = IF AlbumVis(a) = "none" THEN 0 ELSE a]]
  /\ Ends(r)
  /\ UNCHANGED <<album, requests, errors>>
  /\ Noted(IF AlbumVis(a) # req[r].seenVis THEN {i} ELSE {})

\* Update moves to a private album whatever the patch says of visibility.
Effective(patch) ==
  IF patch.album > 0 /\ AlbumVis(patch.album) = "private" THEN [patch EXCEPT !.vis = "private"] ELSE patch

\* An image that stays in a private album is made public like any other.
StaysPrivateUnchecked(i, patch) == FALSE

\* An image that stays in a private album stays private.
StaysPrivate(i, patch) == patch.vis = "public" /\ patch.album = -1 /\ AlbumVis(image[i].album) = "private"

\* The checks of Update, on what is read here.
Admitted(i, patch) ==
  /\ image[i].st = "live" /\ patch # NoPatch
  /\ patch.album > 0 => AlbumVis(patch.album) # "none"
  /\ ~StaysPrivate(i, Effective(patch))

Reads(r, i, patch) ==
  [req[r] EXCEPT !.pc = "write", !.i = i, !.patch = Effective(patch), !.seen = image[i],
                 !.seenVis = AlbumVis(IF patch.album = -1 THEN image[i].album ELSE patch.album)]

BeginUpdate(r, i, patch) ==
  /\ Free(r) /\ Admitted(i, patch)
  /\ req' = [req EXCEPT ![r] = Reads(r, i, patch)]
  /\ Quiet

\* A sweep that has an image to its name updates it like a request; an image
\* that left meanwhile ends the sweep.
SweepNext(r) ==
  /\ req[r].pc = "sweep"
  /\ UNCHANGED <<album, image, requests, errors>>
  /\ \E i \in req[r].left :
       /\ \A j \in req[r].left : i <= j
       /\ IF Admitted(i, [NoPatch EXCEPT !.vis = req[r].vis])
            THEN req' = [req EXCEPT ![r] = [Reads(r, i, [NoPatch EXCEPT !.vis = req[r].vis]) EXCEPT !.left = req[r].left \ {i}]]
                 /\ UNCHANGED <<excused, walk>>
            ELSE Ends(r) /\ Noted(IF req[r].vis = "private" THEN req[r].left ELSE {})

Patched(i, patch) ==
  [image[i] EXCEPT !.vis = IF patch.vis = "keep" THEN @ ELSE patch.vis,
                   !.surface = IF patch.vis = "keep" THEN @ ELSE patch.vis,
                   !.album = IF patch.album = -1 THEN @
                             ELSE IF AlbumVis(patch.album) = "none" THEN 0 ELSE patch.album]

Continued(r) == IF req[r].left = {} THEN Ends(r) ELSE req' = [req EXCEPT ![r].pc = "sweep", ![r].i = 0]

\* The write: plain where the surface read agrees, otherwise a
\* compare-and-set on the surface, whose loser reports success and writes
\* nothing, its album neither.  Neither finds an image in the trash.
WriteUpdate(r) ==
  LET i     == req[r].i
      patch == req[r].patch
      seen  == req[r].seen
      plain == patch.vis = "keep" \/ seen.surface = patch.vis IN
  /\ req[r].pc = "write"
  /\ image' = IF image[i].st # "live" \/ (~plain /\ image[i].surface # seen.surface) THEN image
              ELSE IF plain
                THEN [image EXCEPT ![i] = [Patched(i, patch) EXCEPT !.surface = image[i].surface]]
                ELSE [image EXCEPT ![i] = Patched(i, patch)]
  /\ Continued(r)
  /\ UNCHANGED <<album, requests, errors>>
  /\ Noted(IF image[i].album # seen.album
              \/ AlbumVis(IF patch.album = -1 THEN seen.album ELSE patch.album) # req[r].seenVis
           THEN {i} ELSE {})

\* Copying the bytes to the other surface fails: the update and its sweep end.
FailUpdate(r) ==
  /\ req[r].pc = "write" /\ req[r].patch.vis \notin {"keep", req[r].seen.surface} /\ Erring
  /\ Ends(r)
  /\ UNCHANGED <<album, image, requests>>
  /\ Noted({req[r].i} \cup req[r].left)

Trash(i) ==
  /\ image[i].st = "live" /\ requests < MaxRequests /\ requests' = requests + 1
  /\ image' = [image EXCEPT ![i].st = "trash"]
  /\ UNCHANGED <<album, req, errors>>
  /\ Noted({})

\* Restore looks at neither album nor visibility.
Restore(i) ==
  /\ image[i].st = "trash" /\ requests < MaxRequests /\ requests' = requests + 1
  /\ image' = [image EXCEPT ![i].st = "live"]
  /\ UNCHANGED <<album, req, errors>>
  /\ Noted({i})

\* A restart loses the requests; Migrate then makes the live images of private
\* albums private, and the repair pass moves them to their surface.
Restart ==
  /\ Erring
  /\ req' = [r \in Requests |-> NoRequest]
  /\ image' = [i \in Images |-> LET v == IF Exposed(i) THEN "private" ELSE image[i].vis IN
                 IF image[i].st = "live" THEN [image[i] EXCEPT !.vis = v, !.surface = v] ELSE image[i]]
  /\ UNCHANGED <<album, requests>>
  /\ Noted({})

-----------------------------------------------------------------------------
(* A visitor.                                                              *)

\* resolveCover: the chosen cover if it may still be shown, otherwise the
\* first in order, those never put in order last.
Cover(a) ==
  LET able == {i \in Images : Showable(i, a)}
      set  == {i \in able : image[i].pos > 0}
      Precedes(i, j) == image[i].pos < image[j].pos \/ (image[i].pos = image[j].pos /\ i >= j) IN
  IF album[a].cover \in able THEN album[a].cover
  ELSE IF able = {} THEN 0
  ELSE IF set # {} THEN CHOOSE i \in set : \A j \in set : Precedes(i, j)
  ELSE CHOOSE i \in able : \A j \in able : Precedes(i, j)

\* GetPublic: the album, and then what is shown of it.
Visit(a) ==
  /\ walk.pc = "idle" /\ album[a].vis = "public"
  /\ walk' = [NoWalk EXCEPT !.pc = "cover", !.a = a]
  /\ UNCHANGED <<album, image, req, requests, errors, excused>>

SeeCover ==
  /\ walk.pc = "cover"
  /\ walk' = [walk EXCEPT !.pc = "page", !.cover = Cover(walk.a)]
  /\ UNCHANGED <<album, image, req, requests, errors, excused>>

\* What comes after a cursor: by position, and at one position by falling id.
Beyond(pos, id, i) == image[i].pos > pos \/ (image[i].pos = pos /\ i < id)

\* ListPublicImages, a page of one image; an album that is private by now is
\* not found.
Page ==
  LET able == {i \in Images : Showable(i, walk.a) /\ Beyond(walk.pos, walk.id, i)} IN
  /\ walk.pc = "page"
  /\ IF able = {} \/ AlbumVis(walk.a) # "public"
       THEN walk' = [walk EXCEPT !.pc = "done"]
       ELSE \E i \in able :
              /\ \A j \in able : image[i].pos < image[j].pos \/ (image[i].pos = image[j].pos /\ i >= j)
              /\ walk' = [walk EXCEPT !.pos = image[i].pos, !.id = i, !.seen = @ \cup {i},
                                      !.twice = @ \/ i \in walk.seen]
  /\ UNCHANGED <<album, image, req, requests, errors, excused>>

-----------------------------------------------------------------------------
Orders == {o \in UNION {[1 .. n -> Images] : n \in Images} : \A m, n \in DOMAIN o : o[m] = o[n] => m = n}

Next ==
  \/ \E a \in AlbumIds :
       \/ \E v \in Visibilities : CreateAlbum(a, v)
       \/ \E withImages \in BOOLEAN : DeleteAlbum(a, withImages)
       \/ \E order \in Orders : Reorder(a, order)
       \/ Visit(a)
  \/ \E r \in Requests :
       \/ \E a \in AlbumIds, v \in Visibilities : BeginVisibility(r, a, v) \/ BeginSwitchAll(r, a, v)
       \/ \E a \in AlbumIds, i \in Images : BeginCover(r, a, i)
       \/ \E i \in Images, a \in 0 .. NumAlbums, v \in Visibilities : BeginUpload(r, i, a, v)
       \/ \E i \in Images, patch \in AlbumPatches : BeginUpdate(r, i, patch)
       \/ WriteVisibility(r) \/ WriteCover(r) \/ ListImages(r) \/ CommitUpload(r)
       \/ SweepNext(r) \/ WriteUpdate(r) \/ FailUpdate(r)
  \/ \E i \in Images : Trash(i) \/ Restore(i)
  \/ Restart
  \/ SeeCover \/ Page

Spec == Init /\ [][Next]_shelf

-----------------------------------------------------------------------------
(* Properties.                                                             *)

TypeOK ==
  /\ album \in [AlbumIds -> AlbumRecords]
  /\ image \in [Images -> ImageRecords]
  /\ req \in [Requests -> RequestRecords]
  /\ walk \in WalkRecords
  /\ requests \in 0 .. MaxRequests /\ errors \in 0 .. MaxErrors
  /\ excused \subseteq Images

\* The sweep of its album still has an image to reach.
ToBeSwept(i) ==
  \E r \in Requests : req[r].vis = "private" /\
    \/ req[r].pc = "list" /\ req[r].a = image[i].album
    \/ i \in req[r].left
    \/ req[r].pc = "write" /\ req[r].i = i /\ req[r].patch.vis = "private"

\* A live image in a private album is private, or the sweep that makes it so
\* is on its way; excepted are writes decided before the album turned private
\* or the image was moved, sweeps that an error or a missing image ended, and
\* images restored from the trash, until the next start repairs them
\* (applyAlbumVisibility, the album rules of Update, SetImagesVisibility,
\* migratePrivateAlbumImages).
PrivateAlbumsHide == \A i \in Images : Exposed(i) => i \in excused \/ ToBeSwept(i)

\* A visitor who pages through an album that nobody changes sees every image
\* that may be shown exactly once, in whatever order and at whatever
\* positions the owner left them, and the cover is one of them
\* (ListPublicImages and its cursor, resolveCover).
WalksAreComplete ==
  walk.pc = "done" /\ ~walk.disturbed =>
    /\ walk.seen = {i \in Images : Showable(i, walk.a)} /\ ~walk.twice
    /\ IF walk.seen = {} THEN walk.cover = 0 ELSE walk.cover \in walk.seen

=============================================================================
