------------------------------ MODULE Library -------------------------------
(***************************************************************************)
(* What the content store promises the people who use it, who know nothing *)
(* of file rows, surfaces, shared objects and background deletions: an     *)
(* image gets the bytes its upload asked for and has them, also in the     *)
(* trash, until it is purged, and nothing that happens to one image        *)
(* changes what another has.                                               *)
(***************************************************************************)

CONSTANTS Images, Clients, Contents, Nothing

VARIABLES
  shelf,   \* the state of each image and the bytes a reader of it gets
  asked    \* the bytes each client is uploading

Init ==
  /\ shelf = [i \in Images |-> [st |-> "unborn", bytes |-> Nothing]]
  /\ asked = [c \in Clients |-> Nothing]

Ask(c, h) ==
  /\ asked[c] = Nothing
  /\ asked' = [asked EXCEPT ![c] = h]
  /\ UNCHANGED shelf

\* A quota, a limit or a failure ends an upload, or a crash ends them all.
GiveUp(C) ==
  /\ asked' = [c \in Clients |-> IF c \in C THEN Nothing ELSE asked[c]]
  /\ UNCHANGED shelf

Upload(c, i) ==
  /\ asked[c] # Nothing
  /\ shelf[i].st = "unborn"
  /\ shelf' = [shelf EXCEPT ![i] = [st |-> "live", bytes |-> asked[c]]]
  /\ asked' = [asked EXCEPT ![c] = Nothing]

Trash(i) ==
  /\ shelf[i].st = "live"
  /\ shelf' = [shelf EXCEPT ![i].st = "trash"]
  /\ UNCHANGED asked

Restore(i) ==
  /\ shelf[i].st = "trash"
  /\ shelf' = [shelf EXCEPT ![i].st = "live"]
  /\ UNCHANGED asked

\* One transaction may purge many images.
Purge(S) ==
  /\ \A i \in S : shelf[i].st \in {"live", "trash"}
  /\ shelf' = [i \in Images |-> IF i \in S THEN [st |-> "purged", bytes |-> Nothing] ELSE shelf[i]]
  /\ UNCHANGED asked

Next ==
  \/ \E c \in Clients, h \in Contents : Ask(c, h)
  \/ \E C \in SUBSET Clients : GiveUp(C)
  \/ \E c \in Clients, i \in Images : Upload(c, i)
  \/ \E i \in Images : Trash(i) \/ Restore(i)
  \/ \E S \in SUBSET Images : Purge(S)

Spec == Init /\ [][Next]_<<shelf, asked>>

=============================================================================
