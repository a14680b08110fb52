-------------------------- MODULE MCAlertPipeline --------------------------
(* Two air raid colours.  A save raises or lowers every confirmation count, *)
(* flips partialActive and mute-all, makes the second type the more urgent,  *)
(* and lets its all-clear and hand-overs sound.                              *)
EXTENDS AlertPipeline

MCInputs == {[coverage |-> "None", locs |-> 0], [coverage |-> "Partial", locs |-> 1],
             [coverage |-> "Full", locs |-> 2]}
MCConfigs == {[start |-> 1, end |-> 1, partialActive |-> TRUE],
              [start |-> 2, end |-> 2, partialActive |-> FALSE]}
Plain == [enabled |-> Types, reminding |-> {1}, soundless |-> {<<"End", 2>>},
          priority |-> [t \in Types |-> NTypes - t], escalation |-> FALSE, location |-> FALSE,
          muteAll |-> FALSE, quiet |-> 2, partialSiren |-> FALSE]
Other == [Plain EXCEPT !.soundless = {}, !.priority = [@ EXCEPT ![2] = 2],
                       !.muteAll = TRUE, !.quiet = 0]
MCSaves ==
  {[engine |-> c, policy |-> IF c.start = 1 THEN Plain ELSE Other] : c \in MCConfigs}
=============================================================================
