----------------------------- MODULE MCAccounts -----------------------------
(***************************************************************************)
(* Instance for TLC of who may do what: Accounts (two requests, two users, *)
(* one invite code and two links) and Groups (two administrators, two      *)
(* groups, two policies and one image).  Neither reads a variable of the   *)
(* other, so that every behaviour of them together is a shuffle of         *)
(* behaviours of each; the initial state chooses the one that is followed, *)
(* and the other rests.                                                    *)
(***************************************************************************)
EXTENDS Accounts, TLC

CONSTANTS NumGroups, NumPolicies, NumImages, Admins, Endpoints, Edits, Limit, MaxEdits

VARIABLES
  part,
  group, policy, member, image, work, fk, edits, mixed, former, crossed

G == INSTANCE Groups

\* There is a default group and a local policy, and administrators send edits.
ASSUME GroupsAssumption ==
  /\ NumGroups \in Nat \ {0} /\ NumPolicies \in Nat \ {0} /\ NumImages \in Nat
  /\ Endpoints # {} /\ Edits \subseteq G!EditRecords
  /\ MaxEdits \in Nat

desk == <<group, policy, member, image, work, fk, edits, mixed, former, crossed>>

Parts == {"accounts", "groups"}

AccessInit ==
  /\ part \in Parts
  /\ Init /\ G!Init
  /\ part = "groups" => mode = "open"
  /\ part = "accounts" => fk

AccessNext ==
  \/ part = "accounts" /\ Next /\ UNCHANGED <<part, desk>>
  \/ part = "groups" /\ G!Next /\ UNCHANGED <<part, vars>>

Access == AccessInit /\ [][AccessNext]_<<part, vars, desk>>

-----------------------------------------------------------------------------
\* Every variable of the part that is followed has its type.
AccessTypeOK == IF part = "groups" THEN G!TypeOK ELSE TypeOK

\* Groups: the rules administrators set hold for what was decided under them.
RulesHold == part = "groups" => G!RulesHold

-----------------------------------------------------------------------------
Edit(d, m, f, l) == [def |-> d, max |-> m, force |-> f, allowed |-> l]
MCEdits == {Edit(2, -1, -1, <<-1>>), Edit(-1, 1, -1, <<-1>>), Edit(-1, -1, 1, <<2>>)}

\* The requests of both parts have the same names.
Symmetry == Permutations(Requests) \cup Permutations(Users) \cup Permutations(Emails)

=============================================================================
