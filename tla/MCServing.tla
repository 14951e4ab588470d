------------------------------ MODULE MCServing -------------------------------
(***************************************************************************)
(* Instance for TLC of what stands between a visitor and a file: Serving   *)
(* (two requests compete for one view and for the last bytes of a quota,   *)
(* over the turn of a month), the rate Limiter and the ServeCache.  None   *)
(* reads a variable of another one, so that every behaviour of them        *)
(* together is a shuffle of behaviours of each; the initial state chooses  *)
(* the one that is followed.                                               *)
(***************************************************************************)
EXTENDS Serving, Sequences, TLC

CONSTANTS
  Callers, Lengths, FixedLimit, MaxLimit, Threshold, MaxTicks, MaxTurns, MaxPassed,
  Keys, SizeOf, MaxBytes, MaxFileBytes, Clients, Nobody, MaxServed, MaxFaults

\* Limits are not negative; keys and requests are apart from "nobody".
ASSUME LimiterAssumption ==
  /\ Lengths \in Seq(Nat) /\ Lengths # <<>>
  /\ MaxLimit \in Nat /\ FixedLimit \in 0 .. MaxLimit
  /\ MaxTicks \in Nat /\ MaxTurns \in Nat
ASSUME CacheAssumption ==
  /\ IsFiniteSet(Keys) /\ SizeOf \in [Keys -> Nat] /\ MaxBytes \in Nat
  /\ Nobody \notin Clients
  /\ MaxServed \in Nat /\ MaxFaults \in Nat

VARIABLES
  part,
  hits, group, asked, clock, turns, log, unjust,
  entry, temp, used, lock, client, served, faults, unremoved

L == INSTANCE Limiter
C == INSTANCE ServeCache

rates == <<hits, group, asked, clock, turns, log, unjust>>
disk == <<entry, temp, used, lock, client, served, faults, unremoved>>

\* What is not followed has no state.
NoLimiter ==
  /\ hits = None /\ group = None /\ asked = None /\ clock = None /\ turns = None /\ log = None /\ unjust = None
NoCache ==
  /\ entry = None /\ temp = None /\ used = None /\ lock = None /\ client = None /\ served = None /\ faults = None
  /\ unremoved = None

FrontInit ==
  /\ Init
  /\ image.limit = 1                     \* which the owner may lift
  /\ part \in {"gate", "limiter", "cache"}
  /\ IF part = "limiter" THEN L!Init ELSE NoLimiter
  /\ IF part = "cache" THEN C!Init ELSE NoCache

FrontNext ==
  /\ UNCHANGED part
  /\ \/ part = "gate" /\ Next /\ UNCHANGED <<rates, disk>>
     \/ part = "limiter" /\ L!Next /\ UNCHANGED <<vars, disk>>
     \/ part = "cache" /\ C!Next /\ UNCHANGED <<vars, rates>>

Front == FrontInit /\ [][FrontNext]_<<part, vars, rates, disk>>

-----------------------------------------------------------------------------
\* Every variable of the part that is followed has its type.
FrontTypeOK ==
  CASE part = "gate"    -> TypeOK
    [] part = "limiter" -> L!TypeOK
    [] part = "cache"   -> C!TypeOK

\* Limiter: no window lets more than twice its limit through, and none
\* refuses before it is full.
LimitsHold == part = "limiter" => L!LimitsHold

\* ServeCache: what is found in the cache is whole, and the cache within its
\* bound.
CacheHolds == part = "cache" => C!CacheHolds

-----------------------------------------------------------------------------
MCBytes == [k \in Kinds |-> IF k = "orig" THEN 2 ELSE 1]
MCLengths == <<1, 2>>
MCSizeOf == [a |-> 1, b |-> 2, c |-> 4, d |-> 5]

\* The requests of the gate are the clients of the cache.
Symmetry == Permutations(Requests)

=============================================================================
