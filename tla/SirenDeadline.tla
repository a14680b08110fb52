--------------------------- MODULE SirenDeadline ---------------------------
(***************************************************************************)
(* What the relay layer promises (SPEC 41, Invariant 2): a START begins a  *)
(* stretch of sound, every stretch ends at the latest `limit` time units   *)
(* after the START that began or renewed it, and the limit changes only in *)
(* silence.                                                                *)
(***************************************************************************)
EXTENDS Naturals

CONSTANT Limits

VARIABLES sounding, age, limit

vars == <<sounding, age, limit>>

Init == sounding = FALSE /\ age = 0 /\ limit \in Limits

Start == sounding' = TRUE /\ age' = 0 /\ UNCHANGED limit

Stop == sounding' = FALSE /\ age' = 0 /\ limit' \in Limits

Wait ==
  /\ sounding /\ age < limit
  /\ age' = age + 1
  /\ UNCHANGED <<sounding, limit>>

Next == Start \/ Stop \/ Wait

Spec == Init /\ [][Next]_vars
=============================================================================
