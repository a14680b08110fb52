------------------------------ MODULE MCPanel ------------------------------
(* A debounce of one unit and a long press of two; passes one or three units *)
(* apart, so that a whole step, or a whole long press, may go by unseen.     *)
(* The patterns start with a pause, end with one, repeat, are disabled, and   *)
(* have no step.                                                             *)
EXTENDS Panel

P(enabled, repeat, steps) == [enabled |-> enabled, repeat |-> repeat, steps |-> steps]
MCTest == P(TRUE, 1, <<2>>)
MCPatterns == {MCTest, P(TRUE, 2, <<-1, 1, -2>>), P(FALSE, 1, <<1>>), P(TRUE, 1, <<>>)}
=============================================================================
