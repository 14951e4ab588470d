------------------------------- MODULE Limiter --------------------------------
(***************************************************************************)
(* The rate limiter: fixed windows, by minute, hour and day, per user or   *)
(* address, kept in memory.  Uploads are limited by the three windows of   *)
(* their user group, whose row is read before the lock is taken; other     *)
(* requests by one window with a limit of the program.                     *)
(*                                                                         *)
(* Time is counted in ticks.  Window 0 is the one of the program.          *)
(***************************************************************************)
EXTENDS Integers, Sequences, FiniteSets

CONSTANTS
  Callers,     \* users and addresses
  Lengths,     \* the windows' lengths in ticks, shortest first
  FixedLimit,  \* the limit of window 0, as long as the first
  MaxLimit,    \* bound on the limits of a group; 0 is no limit
  Threshold,   \* windows kept before the expired ones are swept
  MaxTicks,    \* bound on the clock
  MaxTurns,    \* bound on changes of the group's limits
  MaxPassed    \* bound on what is let through of a caller

Windows == 0 .. Len(Lengths)
LengthOf(w) == Lengths[IF w = 0 THEN 1 ELSE w]
LimitRecords == [Windows -> 0 .. MaxLimit]
Fixed == [w \in Windows |-> IF w = 0 THEN FixedLimit ELSE 0]

VARIABLES
  hits,        \* the windows kept, by caller and window
  group,       \* the limits in the group's row
  asked,       \* the limits a request has read
  clock,
  turns,       \* changes of the group so far
  log,         \* history: what was let through, when, under which limits
  unjust       \* history: a request was refused although no window was full

rates == <<hits, group, asked, clock, turns, log, unjust>>

Slots == Callers \X Windows
NoHits == [count |-> 0, reset |-> -1]
Unlimited == [w \in Windows |-> 0]

Init ==
  /\ hits = [k \in Slots |-> NoHits]
  /\ group \in {lim \in LimitRecords : lim[0] = 0}
  /\ asked = [c \in Callers |-> Unlimited]
  /\ clock = 0 /\ turns = 0
  /\ log = [c \in Callers |-> <<>>]
  /\ unjust = FALSE

Kept(kept) == Cardinality({k \in Slots : kept[k] # NoHits})

\* A window is in force up to and including its last tick.
InForce(kept, k) == kept[k].reset >= clock

\* maybeSweep: expired windows go once there are many.
Swept(kept) ==
  IF Kept(kept) >= Threshold THEN [k \in Slots |-> IF InForce(kept, k) THEN kept[k] ELSE NoHits] ELSE kept

Full(kept, c, lim, w) == lim[w] > 0 /\ InForce(kept, <<c, w>>) /\ kept[<<c, w>>].count >= lim[w]

Counted(kept, c, w) ==
  IF InForce(kept, <<c, w>>) THEN [kept EXCEPT ![<<c, w>>].count = @ + 1]
  ELSE [kept EXCEPT ![<<c, w>>] = [count |-> 1, reset |-> clock + LengthOf(w)]]

\* Counting in every window of a set.
AllCounted(kept, c, set) ==
  [k \in Slots |-> IF k[1] = c /\ k[2] \in set THEN Counted(kept, c, k[2])[k] ELSE kept[k]]

\* Each window is counted as it is checked.
CountsAsItGoes(c, lim, kept) ==
  LET full == {w \in Windows : Full(kept, c, lim, w)} IN
  AllCounted(kept, c, {w \in Windows : lim[w] > 0 /\ w \notin full /\ \A v \in full : w < v})

\* AllowN: all windows are checked before any is counted.
AllowN(c, lim, kept) ==
  IF \E w \in Windows : Full(kept, c, lim, w) THEN kept
  ELSE AllCounted(kept, c, {w \in Windows : lim[w] > 0})

\* What was let through of a caller in the last ticks, as far as a window limited it.
Recent(c, w, from, to) == {n \in DOMAIN log[c] : log[c][n].lim[w] > 0 /\ log[c][n].at \in from .. to}

Limit(c, lim) ==
  LET kept == Swept(hits) IN
  /\ Len(log[c]) < MaxPassed
  /\ hits' = AllowN(c, lim, kept)
  /\ IF \E w \in Windows : Full(kept, c, lim, w)
       THEN /\ unjust' = (unjust \/ \A w \in Windows :
                 lim[w] = 0 \/ Cardinality(Recent(c, w, clock - LengthOf(w), clock)) < lim[w])
            /\ UNCHANGED log
       ELSE /\ log' = [log EXCEPT ![c] = Append(@, [at |-> clock, lim |-> lim])]
            /\ UNCHANGED unjust

\* Middleware and IPMiddleware.
Middleware(c) == Limit(c, Fixed) /\ UNCHANGED <<group, asked, clock, turns>>

\* GroupMiddleware: the row is read (when it cannot be, the request passes
\* unlimited, and is none of the limiter's business) ...
ReadGroup(c) ==
  /\ asked[c] = Unlimited /\ group # Unlimited
  /\ asked' = [asked EXCEPT ![c] = group]
  /\ UNCHANGED <<hits, group, clock, turns, log, unjust>>

\* ... and the request counted under the limits read.
GroupMiddleware(c) ==
  /\ asked[c] # Unlimited
  /\ Limit(c, asked[c])
  /\ asked' = [asked EXCEPT ![c] = Unlimited]
  /\ UNCHANGED <<group, clock, turns>>

\* An administrator changes the group.
ChangeGroup ==
  /\ turns < MaxTurns /\ turns' = turns + 1
  /\ group' \in {lim \in LimitRecords : lim[0] = 0}
  /\ UNCHANGED <<hits, asked, clock, log, unjust>>

Elapse ==
  /\ clock < MaxTicks /\ clock' = clock + 1
  /\ UNCHANGED <<hits, group, asked, turns, log, unjust>>

Next == \/ \E c \in Callers : Middleware(c) \/ ReadGroup(c) \/ GroupMiddleware(c)
        \/ ChangeGroup \/ Elapse

Spec == Init /\ [][Next]_rates

-----------------------------------------------------------------------------
(* Properties.                                                             *)

TypeOK ==
  /\ \A k \in Slots : hits[k].count \in Nat /\ hits[k].reset \in -1 .. MaxTicks + LengthOf(k[2])
  /\ group \in LimitRecords /\ asked \in [Callers -> LimitRecords]
  /\ clock \in 0 .. MaxTicks /\ turns \in 0 .. MaxTurns
  /\ unjust \in BOOLEAN

Greatest(c, ns, w) == IF ns = {} THEN 0 ELSE CHOOSE l \in 0 .. MaxLimit :
  (\E n \in ns : log[c][n].lim[w] = l) /\ \A n \in ns : log[c][n].lim[w] <= l

\* In no stretch of time as long as a window do more requests of a caller
\* pass than twice the greatest limit they were under, and no request is
\* refused unless as many as one of its limits did pass in the time of that
\* window: a refusal by one window costs nothing in the others, and sweeping
\* lets nobody through (AllowN and its "checked in order, counted only when all
\* pass", sweepExpired).
LimitsHold ==
  /\ ~unjust
  /\ \A c \in Callers, w \in Windows, from \in 0 .. clock :
       LET ns == Recent(c, w, from, from + LengthOf(w)) IN Cardinality(ns) <= 2 * Greatest(c, ns, w)

=============================================================================
