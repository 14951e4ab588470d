---------------------------- MODULE MCImageStore ----------------------------
(***************************************************************************)
(* Instances of ImageStore for TLC.  The constants are model values given  *)
(* in the .cfg files; names in these sets are interchangeable in the       *)
(* safety runs.                                                            *)
(***************************************************************************)
EXTENDS ImageStore, TLC

Symmetry ==
  Permutations(Images) \cup Permutations(Paths) \cup Permutations(Workers)
    \cup Permutations(Users) \cup Permutations(Hashes)

=============================================================================
