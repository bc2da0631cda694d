------------------------------ MODULE MCFusion ------------------------------
(* One snapshot per cell of the fusion table that the code tells apart,    *)
(* with CSI-only confidences on both sides of the corroboration threshold. *)
EXTENDS Fusion

Snap(motion, ml, score, prob, breathing) ==
  [motion |-> motion, ml |-> ml, score |-> score, prob |-> prob,
   breathing |-> breathing]

MCSnapshots ==
  { Snap(FALSE, FALSE, 0, 20, FALSE), Snap(FALSE, TRUE, 0, 60, FALSE),
    Snap(FALSE, TRUE, 0, 90, FALSE), Snap(TRUE, FALSE, 20, 20, FALSE),
    Snap(TRUE, FALSE, 50, 20, FALSE), Snap(TRUE, FALSE, 100, 20, TRUE),
    Snap(TRUE, TRUE, 20, 60, FALSE), Snap(TRUE, TRUE, 100, 90, TRUE) }

MCConfigs ==
  { [entryDelay |-> 0, exitDelay |-> 0, triggerTimeout |-> 0,
     autoRearm |-> TRUE, debounceFrames |-> 2] }

On == {TRUE}
Switched == {TRUE, FALSE}
=============================================================================
