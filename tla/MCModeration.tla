--------------------------- MODULE MCModeration -----------------------------
(***************************************************************************)
(* Instance of Moderation for TLC: a provider alone that fails open and    *)
(* checks every upload, with which it begins, and a provider with OCR that *)
(* checks the sampled.                                                     *)
(***************************************************************************)
EXTENDS Moderation, TLC

Cfg(enabled, action, ocr, onError, rate) ==
  [enabled |-> enabled, action |-> action, ocr |-> ocr, onHit |-> "block",
   onError |-> onError, rate |-> rate]

MCConfigs == {Cfg(TRUE, "pending", FALSE, "open", "all"),
              Cfg(TRUE, "pending", TRUE, "open", "some")}

PlainInit == Init /\ ~config.ocr
Moderating == PlainInit /\ [][Next]_vars

Symmetry == Permutations(Images)

=============================================================================
