-------------------------------- MODULE Feeds ---------------------------------
(***************************************************************************)
(* The lists a client pages through while their rows change: the owner's   *)
(* images (by date, by a value, by position in an album), the trash, the   *)
(* plaza and a profile (newest, most viewed), the public albums of all and *)
(* of one user, and the administrator's tables, paged by number.           *)
(*                                                                         *)
(* A row is an image, an album or a line of a table.  Its bars are what    *)
(* keeps it out of lists: the trash, its expiry, and the veil, which is    *)
(* any other reason not to show it in public (visibility, status,          *)
(* password, its album).  The rows belong to one author.                   *)
(***************************************************************************)
EXTENDS Integers, FiniteSets

CONSTANTS
  NumRows,     \* rows, by id
  MaxSecond,   \* the clock counts seconds and halves of them
  MaxValue,    \* sizes, names, positions, views are 0 .. MaxValue
  Lists,       \* the lists looked at
  MaxChanges   \* bound on changes of rows

Rows == 1 .. NumRows
Bars == {"trash", "lapsed", "veil"}
Values == 0 .. MaxValue
Times == [sec: 0 .. MaxSecond, half: 0 .. 1]

VARIABLES
  row,         \* the table
  open,        \* the author's profile is public, the author active
  now,         \* the clock
  page,        \* a client's walk through a list
  changes      \* changes so far

rows == <<row, open, now, page, changes>>

Owned == {"date", "value", "position"}     \* imagesvc.List
Discovered == {"new", "hot", "profile"}    \* discoversvc.feed
PagedLists == Owned \cup Discovered \cup {"trash", "albums", "shelf", "table"}

RowRecords == [st: {"none", "there", "gone"}, bars: SUBSET Bars, at: Times, val: Values]
NoCursor == [sec |-> MaxSecond + 1, val |-> -1, id |-> 0]
Cursors == [sec: 0 .. MaxSecond + 1, val: -1 .. MaxValue, id: 0 .. NumRows]
Walks == [list: PagedLists, pc: {"idle", "profile", "check", "read", "done", "gone"}, limit: 1 .. 2, cur: Cursors,
          skip: Nat, times: [Rows -> 0 .. 2], steady: SUBSET Rows, moved: BOOLEAN,
          cut: SUBSET (0 .. MaxSecond)]
Unread == [list |-> "date", pc |-> "idle", limit |-> 1, cur |-> NoCursor, skip |-> 0, times |-> [i \in Rows |-> 0],
           steady |-> {}, moved |-> FALSE, cut |-> {}]

Start == [sec |-> 0, half |-> 0]
Unborn == [st |-> "none", bars |-> {}, at |-> Start, val |-> 0]

Init ==
  /\ row = [i \in Rows |-> Unborn]
  /\ open = TRUE /\ now = Start /\ changes = 0
  /\ \E list \in Lists : page = [Unread EXCEPT !.list = list]

-----------------------------------------------------------------------------
(* What a list holds, and in which order.                                  *)

\* Not in the trash and not expired; in the trash; eligible to be shown in
\* public; albums of an open author; those of a user looked up before; not in
\* the trash.
Listed(i) == row[i].bars \cap {"trash", "lapsed"} = {}
Trashed(i) == "trash" \in row[i].bars
Eligible(i) == row[i].bars = {} /\ open
ShownAlbum(i) == row[i].bars = {} /\ open
OnShelf(i) == row[i].bars = {}
Tabled(i) == "trash" \notin row[i].bars

Holds(list, i) ==
  /\ row[i].st = "there"
  /\ \/ list \in Owned /\ Listed(i)
     \/ list = "trash" /\ Trashed(i)
     \/ list \in Discovered /\ Eligible(i)
     \/ list = "albums" /\ ShownAlbum(i)
     \/ list = "shelf" /\ OnShelf(i)
     \/ list = "table" /\ Tabled(i)

Earlier(s, t) == s.sec < t.sec \/ (s.sec = t.sec /\ s.half < t.half)

\* By falling value, by position, newest first; ties by falling id.  By name
\* the order is that of values turned round, ids included.
MostFirst(i, j) == row[i].val > row[j].val \/ (row[i].val = row[j].val /\ i > j)
ByPosition(i, j) == row[i].val < row[j].val \/ (row[i].val = row[j].val /\ i > j)
NewestFirst(i, j) == Earlier(row[j].at, row[i].at) \/ (row[i].at = row[j].at /\ i > j)

\* The lists in the order of ids, and those in the order of a column.
ById == {"date", "trash", "albums", "shelf"}

Precedes(list, i, j) ==
  \/ list \in ById /\ i > j
  \/ list \in {"value", "hot", "table"} /\ MostFirst(i, j)
  \/ list = "position" /\ ByPosition(i, j)
  \/ list \in {"new", "profile"} /\ NewestFirst(i, j)

\* The cursor made of the last row of a page: its time in whole seconds.
CursorOf(i) == [sec |-> row[i].at.sec, val |-> row[i].val, id |-> i]

\* The rows after a cursor, those at its value left out.
BeyondUntied(list, cur, i) ==
  CASE list \in ById                         -> i < cur.id
    [] list \in {"value", "hot"}             -> row[i].val < cur.val
    [] list = "position"                     -> row[i].val > cur.val
    [] list \in {"new", "profile"}           -> row[i].at.sec < cur.sec

\* The rows after a cursor: those at its value by falling id.
Beyond(list, cur, i) ==
  CASE list \in ById                         -> i < cur.id
    [] list \in {"value", "hot"}             -> row[i].val < cur.val \/ (row[i].val = cur.val /\ i < cur.id)
    [] list = "position"                     -> row[i].val > cur.val \/ (row[i].val = cur.val /\ i < cur.id)
    [] list \in {"new", "profile"}           ->
         LET cut == [sec |-> cur.sec, half |-> 0] IN
         Earlier(row[i].at, cut) \/ (row[i].at = cut /\ i < cur.id)

\* OFFSET: the first rows of the order are left out.
Offset(list, held, skip) == {i \in held : Cardinality({j \in held : Precedes(list, j, i)}) >= skip}

\* The rows the next page chooses from.
Remaining(list, cur, skip) ==
  LET held == {i \in Rows : Holds(list, i)} IN
  IF list = "table" THEN Offset(list, held, skip)
  ELSE IF cur = NoCursor THEN held
  ELSE {i \in held : Beyond(list, cur, i)}

\* The first rows of a set in a list's order, limit of them at most.
First(list, set, limit) == {i \in set : Cardinality({j \in set : Precedes(list, j, i)}) < limit}

Last(list, set) == CHOOSE i \in set : \A j \in set \ {i} : Precedes(list, j, i)

-----------------------------------------------------------------------------
(* The client.                                                             *)

\* Where the asking for a page begins: what a user shows is shown only while
\* the user shows it.
Asks == IF page.list = "profile" THEN "profile" ELSE IF page.list = "shelf" THEN "check" ELSE "read"

Open(limit) ==
  /\ page.pc = "idle"
  /\ page' = [page EXCEPT !.limit = limit, !.pc = Asks, !.steady = {i \in Rows : Holds(page.list, i)}]
  /\ UNCHANGED <<row, open, now, changes>>

\* UserPublic, for the profile: not found, or on.
UserPublic ==
  /\ page.pc = "profile"
  /\ page' = [page EXCEPT !.pc = IF open THEN "check" ELSE "gone"]
  /\ UNCHANGED <<row, open, now, changes>>

\* The user's row is read for its id, under the same conditions.
Check ==
  /\ page.pc = "check"
  /\ page' = [page EXCEPT !.pc = IF open THEN "read" ELSE "gone"]
  /\ UNCHANGED <<row, open, now, changes>>

\* A page: limit rows and one more, which tells whether there is a next page,
\* whose cursor is the last row shown.
Read ==
  LET left  == Remaining(page.list, page.cur, page.skip)
      shown == First(page.list, left, page.limit)
      last  == Last(page.list, shown) IN
  /\ page.pc = "read"
  /\ LET seen == [page EXCEPT !.times = [i \in Rows |-> IF i \in shown /\ @[i] < 2 THEN @[i] + 1 ELSE @[i]]] IN
     page' = IF shown = left THEN [seen EXCEPT !.pc = "done"]
             ELSE [seen EXCEPT !.pc = Asks, !.cur = CursorOf(last), !.skip = @ + page.limit,
                               !.cut = IF row[last].at.half > 0 THEN @ \cup {row[last].at.sec} ELSE @]
  /\ UNCHANGED <<row, open, now, changes>>

-----------------------------------------------------------------------------
(* What happens to the rows meanwhile, until the client is done; only lists *)
(* in the order of a column look at it.                                    *)

Walking == page.pc \notin {"done", "gone"}
Changing == Walking /\ changes < MaxChanges /\ changes' = changes + 1

ValuesSeen == IF page.list \in {"value", "position", "hot", "table"} THEN Values ELSE {0}

\* What a change does to a walk: rows that left the list or moved in it are
\* not steady, and rows that entered it move the others.
Disturbed ==
  \E list \in {page.list} :
    page' = IF page.pc = "idle" THEN page
            ELSE [page EXCEPT
                    !.steady = {i \in @ : Holds(list, i)' /\ row'[i].val = row[i].val},
                    !.moved = @ \/ \E i \in Rows : Holds(list, i)' # Holds(list, i) \/ row'[i].val # row[i].val]

\* Rows get the next id, and the time of the clock.
Create(i, v) ==
  /\ Walking
  /\ row[i].st = "none" /\ \A j \in Rows : j < i => row[j].st # "none"
  /\ row' = [row EXCEPT ![i] = [st |-> "there", bars |-> {}, at |-> now, val |-> v]]
  /\ UNCHANGED <<open, now, changes>>
  /\ Disturbed

Bar(i, bar) ==
  /\ row[i].st = "there" /\ Changing
  /\ row' = [row EXCEPT ![i].bars = IF bar \in @ THEN @ \ {bar} ELSE @ \cup {bar}]
  /\ UNCHANGED <<open, now>>
  /\ Disturbed

\* A rename, a reordering, a view, a change of a table's column.
Revalue(i, v) ==
  /\ row[i].st = "there" /\ row[i].val # v /\ Changing
  /\ row' = [row EXCEPT ![i].val = v]
  /\ UNCHANGED <<open, now>>
  /\ Disturbed

Remove(i) ==
  /\ row[i].st = "there" /\ Changing
  /\ row' = [row EXCEPT ![i].st = "gone"]
  /\ UNCHANGED <<open, now>>
  /\ Disturbed

\* The author goes private or is banned, or comes back.
Switch ==
  /\ Changing
  /\ open' = ~open
  /\ UNCHANGED <<row, now>>
  /\ Disturbed

Tick ==
  /\ Walking /\ page.list \in {"new", "profile"}
  /\ now' = IF now.half = 0 THEN [now EXCEPT !.half = 1] ELSE [sec |-> now.sec + 1, half |-> 0]
  /\ now' \in Times
  /\ UNCHANGED <<row, open, page, changes>>

Next ==
  \/ \E limit \in 1 .. 2 : Open(limit)
  \/ UserPublic \/ Check \/ Read
  \/ \E i \in Rows, v \in ValuesSeen : Create(i, v) \/ Revalue(i, v)
  \/ \E i \in Rows, bar \in Bars : Bar(i, bar)
  \/ \E i \in Rows : Remove(i)
  \/ Switch \/ Tick

Spec == Init /\ [][Next]_rows

-----------------------------------------------------------------------------
(* Properties.                                                             *)

TypeOK ==
  /\ row \in [Rows -> RowRecords]
  /\ open \in BOOLEAN /\ now \in Times
  /\ page \in Walks
  /\ changes \in 0 .. MaxChanges

Missed == {i \in page.steady : page.times[i] = 0}
Twice == {i \in page.steady : page.times[i] > 1}

\* A client that pages to the end of a list gets every row that was in it,
\* and did not move in it, all the while exactly once, whatever happened to
\* other rows; excepted are tables paged by number, where it takes that no
\* row moved at all, and, in the feeds of newest images, rows of the second in
\* which a page ended between two whole seconds (List and its listCursor,
\* TrashList, feed and its feedCursor, ListPublicAlbums, ListUsers and the
\* like).
ListsAreComplete ==
  page.pc = "done" =>
    \/ page.list = "table" /\ page.moved
    \/ Twice = {} /\ \A i \in Missed : page.list \in {"new", "profile"} /\ row[i].at.sec \in page.cut

=============================================================================
