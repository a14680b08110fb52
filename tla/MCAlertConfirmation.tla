------------------------ MODULE MCAlertConfirmation ------------------------
(* Two types see the same snapshots: one location partly or fully covered,  *)
(* or two of them.  Three configurations let a save raise or lower every    *)
(* confirmation count and flip partialActive between two snapshots.         *)
EXTENDS AlertConfirmation

MCInputs == {[coverage |-> "None", locs |-> 0], [coverage |-> "Partial", locs |-> 1],
             [coverage |-> "Full", locs |-> 1], [coverage |-> "Full", locs |-> 2]}
MCConfigs == {[start |-> 1, end |-> 2, partialActive |-> TRUE],
              [start |-> 2, end |-> 1, partialActive |-> FALSE],
              [start |-> 3, end |-> 3, partialActive |-> TRUE]}
=============================================================================
