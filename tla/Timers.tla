------------------------------- MODULE Timers -------------------------------
(* Deadlines as the time left: the code compares millis() with a stored      *)
(* instant by signed difference, which is the same while less than 2^31 ms   *)
(* pass between two looks.                                                   *)
EXTENDS Naturals

CONSTANT Off  \* a timer that is not running

ASSUME OffAssumption == Off \notin Nat

Timer(n) == 0..n \cup {Off}

\* One unit of time passes; what is due stays due.
Countdown(t) == IF t \in {0, Off} THEN t ELSE t - 1
=============================================================================
