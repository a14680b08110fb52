----------------------- MODULE RelayControllerProofs -----------------------
(***************************************************************************)
(* Proofs about RelayController for every set of limits, every length of a *)
(* press and both wirings; and about the Journal of its presses, for any   *)
(* ring and any sizes of files and records.                                *)
(***************************************************************************)
EXTENDS RelayController, Journal, SequenceTheorems, TLAPS

LEMMA ConstantTypes ==
  /\ Cap \in Nat
  /\ PulseLen \in Nat
  /\ \A l \in Limits : l \in Nat /\ l < Cap
BY PulseAssumption, LimitAssumption

LEMMA InitInvariant == Init => Inv
<1> SUFFICES ASSUME Init
             PROVE  Inv
  OBVIOUS
<1>0. single \in BOOLEAN
  BY DEF Init
<1>1. FlagsOK
  BY Zenon DEF Init, FlagsOK
<1>2. CountersOK
  BY ConstantTypes DEF Init, CountersOK
<1>3. OnHasDeadline /\ StopPulseSilences /\ CountsDown
  BY DEF Init, OnHasDeadline, StopPulseSilences, CountsDown
<1>4. QED
  BY <1>1, <1>2, <1>3, <1>0 DEF Inv, TypeOK

\* Whatever the guard allows, apply() keeps the relay's invariants.
LEMMA ApplyPreserves ==
  ASSUME CountersOK, OnHasDeadline, StopPulseSilences, CountsDown,
         NEW want \in BOOLEAN, Apply(want), limit' = limit
  PROVE  OnHasDeadline' /\ StopPulseSilences' /\ CountsDown'
<1>1. OnHasDeadline'
  BY Zenon DEF Apply, Arm, Disarm, OnHasDeadline
<1>2. StopPulseSilences'
  BY DEF Apply, Press, outputs, StopPulseSilences
<1>3. CASE UNCHANGED <<on, armed, left, outputs>>
  BY <1>1, <1>2, <1>3 DEF outputs, CountsDown
<1>4. CASE want /\ Press(want) /\ Arm
  BY <1>1, <1>2, <1>4, ConstantTypes DEF Press, Arm, CountersOK, CountsDown
<1>5. CASE ~want /\ Press(want)
  BY <1>1, <1>2, <1>5 DEF Press, CountsDown
<1>6. QED
  BY <1>3, <1>4, <1>5, Zenon DEF Apply

LEMMA StepInvariant == Inv /\ [Next]_vars => Inv'
<1> SUFFICES ASSUME Inv, [Next]_vars
             PROVE  Inv'
  OBVIOUS
<1>0. FlagsOK /\ CountersOK /\ OnHasDeadline /\ StopPulseSilences /\ CountsDown
  BY DEF Inv, TypeOK
<1>00. single' \in BOOLEAN
  BY Zenon DEF Inv, TypeOK, Next, LoopTick, Preempt, Silence, PrepareOta, FinishFailedOta,
     TestPulse, Reconfigure, Restart, EmergencyOff, EndPulse, Elapse, vars
<1>1. ASSUME NEW req \in BOOLEAN, NEW play \in BOOLEAN, LoopTick(req, play)
      PROVE  Inv'
  <2>1. FlagsOK'
    BY <1>0, <1>1, Zenon DEF LoopTick, RelayTick, Apply, Arm, Disarm, Press, outputs, FlagsOK
  <2>2. CountersOK'
    BY <1>0, <1>1, ConstantTypes DEF LoopTick, RelayTick, Apply, Arm, Disarm, Press, outputs, CountersOK
  <2>3. PICK want \in BOOLEAN : Apply(want) /\ limit' = limit
    BY <1>1, Zenon DEF LoopTick, RelayTick
  <2>4. OnHasDeadline' /\ StopPulseSilences' /\ CountsDown'
    BY <1>0, <2>3, ApplyPreserves
  <2>5. QED
    BY <2>1, <2>2, <2>4, <1>00 DEF Inv, TypeOK
<1>2. CASE Preempt
  <2>1. FlagsOK'
    BY <1>0, <1>2, Zenon DEF Preempt, controller, trips, guard, outputs, FlagsOK
  <2>2. CountersOK'
    BY <1>0, <1>2, ConstantTypes DEF Preempt, controller, trips, guard, outputs, CountersOK
  <2>3. OnHasDeadline'
    BY <1>0, <1>2, Zenon DEF Preempt, controller, trips, guard, outputs, OnHasDeadline
  <2>4. StopPulseSilences'
    BY <1>0, <1>2 DEF Preempt, controller, trips, guard, outputs, StopPulseSilences
  <2>5. CountsDown'
    BY <1>0, <1>2, ConstantTypes DEF Preempt, controller, trips, guard, outputs, CountersOK, StopPulseSilences, CountsDown
  <2>6. QED
    BY <2>1, <2>2, <2>3, <2>4, <2>5, <1>00 DEF Inv, TypeOK
<1>3. ASSUME ForceOff, playing' \in BOOLEAN, ota' \in BOOLEAN
      PROVE  Inv'
  <2>1. FlagsOK'
    BY <1>0, <1>3, Zenon DEF ForceOff, ForgetTrip, Disarm, ReleaseGuard, PressStopOnce, Press, outputs, FlagsOK
  <2>2. CountersOK'
    BY <1>0, <1>3, ConstantTypes DEF ForceOff, ForgetTrip, Disarm, ReleaseGuard, PressStopOnce, Press, outputs, CountersOK
  <2>3. OnHasDeadline'
    BY <1>0, <1>3, Zenon DEF ForceOff, ForgetTrip, Disarm, ReleaseGuard, PressStopOnce, Press, outputs, OnHasDeadline
  <2>4. StopPulseSilences'
    BY <1>0, <1>3 DEF ForceOff, ForgetTrip, Disarm, ReleaseGuard, PressStopOnce, Press, outputs, StopPulseSilences
  <2>5. CountsDown'
    BY <1>0, <1>3, ConstantTypes DEF ForceOff, ForgetTrip, Disarm, ReleaseGuard, PressStopOnce, Press, outputs, CountersOK, StopPulseSilences, CountsDown
  <2>6. QED
    BY <2>1, <2>2, <2>3, <2>4, <2>5, <1>00 DEF Inv, TypeOK
<1>4. ASSUME NEW start \in BOOLEAN, TestPulse(start)
      PROVE  Inv'
  <2>1. FlagsOK'
    BY <1>0, <1>4, Zenon DEF TestPulse, trips, Arm, Disarm, Press, guard, FlagsOK
  <2>2. CountersOK'
    BY <1>0, <1>4, ConstantTypes DEF TestPulse, trips, Arm, Disarm, Press, guard, CountersOK
  <2>3. OnHasDeadline'
    <3>1. CASE Arm
      BY <3>1, Zenon DEF Arm, OnHasDeadline
    <3>2. CASE ~on
      BY <1>4, <3>2 DEF TestPulse, OnHasDeadline
    <3>3. CASE UNCHANGED <<armed, left>>
      BY <1>0, <1>4, <3>3 DEF TestPulse, OnHasDeadline
    <3>4. QED
      BY <1>4, <3>1, <3>2, <3>3, Zenon DEF TestPulse
  <2>4. StopPulseSilences'
    BY <1>0, <1>4 DEF TestPulse, trips, Arm, Disarm, Press, guard, StopPulseSilences
  <2>5. CountsDown'
    BY <1>0, <1>4, ConstantTypes DEF TestPulse, trips, Arm, Disarm, Press, guard, CountersOK, StopPulseSilences, CountsDown
  <2>6. QED
    BY <2>1, <2>2, <2>3, <2>4, <2>5, <1>00 DEF Inv, TypeOK
<1>5. ASSUME NEW l \in Limits, Reconfigure(l)
      PROVE  Inv'
  <2>1. FlagsOK'
    BY <1>0, <1>5, Zenon DEF Reconfigure, Begin, ForgetTrip, Disarm, ReleaseGuard, Press, FlagsOK
  <2>2. CountersOK'
    BY <1>0, <1>5, ConstantTypes DEF Reconfigure, Begin, ForgetTrip, Disarm, ReleaseGuard, Press, CountersOK
  <2>3. OnHasDeadline'
    BY <1>0, <1>5, Zenon DEF Reconfigure, Begin, ForgetTrip, Disarm, ReleaseGuard, Press, OnHasDeadline
  <2>4. StopPulseSilences'
    BY <1>0, <1>5 DEF Reconfigure, Begin, ForgetTrip, Disarm, ReleaseGuard, Press, StopPulseSilences
  <2>5. CountsDown'
    BY <1>0, <1>5, ConstantTypes DEF Reconfigure, Begin, ForgetTrip, Disarm, ReleaseGuard, Press, CountersOK, StopPulseSilences, CountsDown
  <2>6. QED
    BY <2>1, <2>2, <2>3, <2>4, <2>5, <1>00 DEF Inv, TypeOK
<1>6. ASSUME NEW l \in Limits, Restart(l)
      PROVE  Inv'
  <2>1. FlagsOK'
    BY <1>0, <1>6, Zenon DEF Restart, Disarm, ReleaseGuard, FlagsOK
  <2>2. CountersOK'
    BY <1>0, <1>6, ConstantTypes DEF Restart, Disarm, ReleaseGuard, CountersOK
  <2>3. OnHasDeadline'
    BY <1>0, <1>6, Zenon DEF Restart, Disarm, ReleaseGuard, OnHasDeadline
  <2>4. StopPulseSilences'
    BY <1>0, <1>6 DEF Restart, Disarm, ReleaseGuard, StopPulseSilences
  <2>5. CountsDown'
    BY <1>0, <1>6, ConstantTypes DEF Restart, Disarm, ReleaseGuard, CountersOK, StopPulseSilences, CountsDown
  <2>6. QED
    BY <2>1, <2>2, <2>3, <2>4, <2>5, <1>00 DEF Inv, TypeOK
<1>7. CASE EmergencyOff
  <2>1. FlagsOK'
    BY <1>0, <1>7, Zenon DEF EmergencyOff, Disarm, PressStopOnce, Press, guard, outputs, FlagsOK
  <2>2. CountersOK'
    BY <1>0, <1>7, ConstantTypes DEF EmergencyOff, Disarm, PressStopOnce, Press, guard, outputs, CountersOK
  <2>3. OnHasDeadline'
    BY <1>0, <1>7, Zenon DEF EmergencyOff, Disarm, PressStopOnce, Press, guard, outputs, OnHasDeadline
  <2>4. StopPulseSilences'
    BY <1>0, <1>7 DEF EmergencyOff, Disarm, PressStopOnce, Press, guard, outputs, StopPulseSilences
  <2>5. CountsDown'
    BY <1>0, <1>7, ConstantTypes DEF EmergencyOff, Disarm, PressStopOnce, Press, guard, outputs, CountersOK, StopPulseSilences, CountsDown
  <2>6. QED
    BY <2>1, <2>2, <2>3, <2>4, <2>5, <1>00 DEF Inv, TypeOK
<1>8. CASE EndPulse
  <2>1. FlagsOK'
    BY <1>0, <1>8, Zenon DEF EndPulse, controller, trips, guard, FlagsOK
  <2>2. CountersOK'
    BY <1>0, <1>8, ConstantTypes DEF EndPulse, controller, trips, guard, CountersOK
  <2>3. OnHasDeadline'
    BY <1>0, <1>8, Zenon DEF EndPulse, controller, trips, guard, OnHasDeadline
  <2>4. StopPulseSilences'
    BY <1>0, <1>8 DEF EndPulse, controller, trips, guard, StopPulseSilences
  <2>5. CountsDown'
    BY <1>0, <1>8, ConstantTypes DEF EndPulse, controller, trips, guard, CountersOK, StopPulseSilences, CountsDown
  <2>6. QED
    BY <2>1, <2>2, <2>3, <2>4, <2>5, <1>00 DEF Inv, TypeOK
<1>9. CASE Elapse
  <2>1. FlagsOK'
    BY <1>0, <1>9, Zenon DEF Elapse, trips, SafetyDue, PulseDue, Older, FlagsOK
  <2>2. CountersOK'
    BY <1>0, <1>9, ConstantTypes DEF Elapse, trips, SafetyDue, PulseDue, Older, CountersOK
  <2>3. OnHasDeadline'
    BY <1>0, <1>9, Zenon DEF Elapse, trips, SafetyDue, PulseDue, Older, OnHasDeadline
  <2>4. StopPulseSilences'
    BY <1>0, <1>9 DEF Elapse, trips, SafetyDue, PulseDue, Older, StopPulseSilences
  <2>5. CountsDown'
    BY <1>0, <1>9, ConstantTypes DEF Elapse, trips, SafetyDue, PulseDue, Older, CountersOK, StopPulseSilences, CountsDown
  <2>6. QED
    BY <2>1, <2>2, <2>3, <2>4, <2>5, <1>00 DEF Inv, TypeOK
<1>10. CASE UNCHANGED vars
  <2>1. FlagsOK'
    BY <1>0, <1>10, Zenon DEF vars, controller, trips, guard, outputs, FlagsOK
  <2>2. CountersOK'
    BY <1>0, <1>10, ConstantTypes DEF vars, controller, trips, guard, outputs, CountersOK
  <2>3. OnHasDeadline'
    BY <1>0, <1>10, Zenon DEF vars, controller, trips, guard, outputs, OnHasDeadline
  <2>4. StopPulseSilences'
    BY <1>0, <1>10 DEF vars, controller, trips, guard, outputs, StopPulseSilences
  <2>5. CountsDown'
    BY <1>0, <1>10, ConstantTypes DEF vars, controller, trips, guard, outputs, CountersOK, StopPulseSilences, CountsDown
  <2>6. QED
    BY <2>1, <2>2, <2>3, <2>4, <2>5, <1>00 DEF Inv, TypeOK
<1>11. CASE Silence
  BY <1>0, <1>11, <1>3, Zenon DEF Silence, FlagsOK
<1>12. CASE PrepareOta
  BY <1>12, <1>3, Zenon DEF PrepareOta
<1>13. CASE FinishFailedOta
  BY <1>0, <1>13, <1>3, Zenon DEF FinishFailedOta, FlagsOK
<1>14. CASE Next
  BY <1>1, <1>2, <1>4, <1>5, <1>6, <1>7, <1>8, <1>9, <1>11, <1>12, <1>13, <1>14 DEF Next
<1>15. QED
  BY <1>10, <1>14

\* The inductive invariant: StopPulseSilences is in it because a STOP press may
\* be skipped, CountsDown adds to DeadlineHolds the time that is left.
THEOREM InvariantHolds == Spec => []Inv
<1>1. Init => Inv
  BY InitInvariant
<1>2. Inv /\ [Next]_vars => Inv'
  BY StepInvariant
<1>3. QED
  BY <1>1, <1>2, PTL DEF Spec

\* Every variable keeps its type under every handler, timer and restart.
THEOREM TypeCorrect == Spec => []TypeOK
<1>1. Inv => TypeOK
  BY DEF Inv
<1>2. QED
  BY <1>1, InvariantHolds, PTL

\* A siren the controller, trips switched on always has its safety Ticker running.
THEOREM DeadlineArmed == Spec => []OnHasDeadline
<1>1. Inv => OnHasDeadline
  BY DEF Inv
<1>2. QED
  BY <1>1, InvariantHolds, PTL

\* Invariant 2 for every limit: unless begin() or a restart abandoned it, a
\* sounding siren has a deadline and its last START is at most `limit` ago.
THEOREM SirenBounded == Spec => []DeadlineHolds
<1>1. Inv => DeadlineHolds
  <2> SUFFICES ASSUME CountersOK, CountsDown, siren, ~stray
               PROVE  armed /\ sinceStart <= limit
    BY DEF Inv, TypeOK, DeadlineHolds
  <2> QED
    BY ConstantTypes DEF CountersOK, CountsDown
<1>2. QED
  BY <1>1, InvariantHolds, PTL

\* While STOP is held the siren is silent: forceOff() and emergencyOff() lose
\* nothing by not pressing it again.
THEOREM HeldStopIsSilent == Spec => []StopPulseSilences
<1>1. Inv => StopPulseSilences
  BY DEF Inv
<1>2. QED
  BY <1>1, InvariantHolds, PTL

\* Invariants 4 and 8: mute, "relay off" and the start of OTA end in silence,
\* whatever was pressed, tripped or pending before.
THEOREM MuteSilences == Spec => SilencedAtOnce
<1>1. Inv /\ (Silence \/ PrepareOta) => ~siren'
  BY DEF Inv, Silence, PrepareOta, ForceOff, ForgetTrip, PressStopOnce, Press, StopPulseSilences, outputs
<1>2. QED
  BY <1>1, InvariantHolds, PTL DEF SilencedAtOnce

\* The journal tells of a cut in the next pass of loop() and does not repeat it:
\* a Ticker cut is pending until the pass that hands it to the guard.
THEOREM CutsAreTold == Spec => CutToldOnce
<1>1. Init => TripPending
  BY Zenon DEF Init, TripPending
<1>2. Inv /\ TripPending /\ [Next]_vars => TripPending'
  <2> SUFFICES ASSUME FlagsOK, TripPending, [Next]_vars
               PROVE  TripPending'
    BY DEF Inv, TypeOK
  <2>1. ASSUME NEW req \in BOOLEAN, NEW play \in BOOLEAN, LoopTick(req, play)
        PROVE  TripPending'
    <3>1. asyncTrip' = (asyncTrip /\ req) /\ tripEvent' = FALSE /\ cut' = FALSE
      BY <2>1, Zenon DEF LoopTick, RelayTick
    <3>2. asyncTrip /\ req => guardTripped'
      BY <2>1, Zenon DEF LoopTick, RelayTick
    <3>3. QED
      BY <3>1, <3>2, Zenon DEF TripPending
  <2>2. CASE \E start \in BOOLEAN : TestPulse(start)
    BY <2>2 DEF TestPulse, guard, trips, TripPending
  <2>3. CASE EmergencyOff
    BY <2>3, Zenon DEF EmergencyOff, TripPending
  <2>4. CASE ForceOff \/ \E l \in Limits : Begin(l) \/ Restart(l)
    BY <2>4, Zenon DEF ForceOff, Begin, Restart, ForgetTrip, TripPending
  <2>5. CASE Preempt \/ EndPulse \/ UNCHANGED vars
    <3>1. UNCHANGED trips /\ UNCHANGED guardTripped
      BY <2>5 DEF Preempt, EndPulse, vars, controller, guard
    <3>2. QED
      BY <3>1, Zenon DEF trips, TripPending
  <2>6. CASE Elapse
    BY <2>6, Zenon DEF Elapse, trips, TripPending
  <2>7. QED
    BY <2>1, <2>2, <2>3, <2>4, <2>5, <2>6, Zenon
    DEF Next, Silence, PrepareOta, FinishFailedOta, Reconfigure
<1>3. ASSUME FlagsOK, TripPending, NEW req \in BOOLEAN, NEW play \in BOOLEAN, LoopTick(req, play)
      PROVE  logged' <=> cut \/ (~asyncTrip /\ ~guardTripped /\ guardTripped')
  <2>1. logged' = (tripEvent \/ (guardTripped' /\ ~guardTripped))
    BY <1>3, Zenon DEF LoopTick, RelayTick
  <2>2. tripEvent = cut /\ (asyncTrip /\ ~guardTripped => cut)
    BY <1>3, Zenon DEF TripPending
  <2>3. QED
    BY <2>1, <2>2
<1>4. Inv /\ TripPending /\ [Next]_vars =>
        [\A req, play \in BOOLEAN : LoopTick(req, play) =>
           (logged' <=> cut \/ (~asyncTrip /\ ~guardTripped /\ guardTripped'))]_vars
  BY <1>3, Zenon DEF Inv, TypeOK
<1>5. QED
  BY <1>1, <1>2, <1>4, InvariantHolds, PTL DEF Spec, CutToldOnce

\* Invariant 8: only a pass of loop() raises on_, and loop() turns back during OTA.
THEOREM OtaKeepsSilence == Spec => []OtaKeepsPatternOff
<1>1. Init => OtaKeepsPatternOff
  BY Zenon DEF Init, OtaKeepsPatternOff
<1>2. OtaKeepsPatternOff /\ [Next]_vars => OtaKeepsPatternOff'
  BY Zenon DEF Next, LoopTick, Preempt, Silence, PrepareOta, FinishFailedOta, ForceOff, ForgetTrip,
     TestPulse, Reconfigure, Begin, Restart, EmergencyOff, EndPulse, Elapse, vars,
     controller, trips, OtaKeepsPatternOff
<1>3. QED
  BY <1>1, <1>2, PTL DEF Spec

\* The one-relay wiring: begin() and a reset both release D5.
THEOREM OneRelayNeverStrays == Spec => []NeverStray
<1>1. Init => NeverStray
  BY Zenon DEF Init, NeverStray
<1>2. NeverStray /\ [Next]_vars => NeverStray'
  <2> SUFFICES ASSUME NeverStray, [Next]_vars
               PROVE  NeverStray'
    OBVIOUS
  <2>1. UNCHANGED single
    BY Zenon DEF Next, LoopTick, Preempt, Silence, PrepareOta, FinishFailedOta,
       TestPulse, Reconfigure, Restart, EmergencyOff, EndPulse, Elapse, vars
  <2>2. UNCHANGED stray \/ stray' = FALSE \/ (siren' = (siren /\ ~single) /\ stray' = siren')
    BY Zenon DEF Next, LoopTick, RelayTick, Apply, Preempt, Silence, PrepareOta, FinishFailedOta,
       ForceOff, ForgetTrip, PressStopOnce, Press, TestPulse, Reconfigure, Begin, Restart, EmergencyOff,
       EndPulse, Elapse, vars, outputs
  <2>3. QED
    BY <2>1, <2>2, Zenon DEF NeverStray
<1>3. QED
  BY <1>1, <1>2, PTL DEF Spec

\* After a safety cut only a forced stop, a new begin() or a dropped request opens
\* the way to the next START of a pattern.
THEOREM CutIsKept == Spec => NoRestartAfterTrip
<1>1. [Next]_vars /\ (asyncTrip \/ guardTripped) /\ ~on => ~on'
  <2> SUFFICES ASSUME [Next]_vars, asyncTrip \/ guardTripped, ~on
               PROVE  ~on'
    OBVIOUS
  <2>1. ASSUME NEW req \in BOOLEAN, NEW play \in BOOLEAN, LoopTick(req, play)
        PROVE  ~on'
    <3>1. Apply(FALSE)
      BY <2>1, Zenon DEF LoopTick, RelayTick
    <3>2. QED
      BY <3>1, Zenon DEF Apply
  <2>2. QED
    BY <2>1, Zenon DEF Next, Preempt, Silence, PrepareOta, FinishFailedOta, ForceOff, ForgetTrip,
       TestPulse, Reconfigure, Begin, Restart, EmergencyOff, EndPulse, Elapse, vars, controller, trips
<1>2. QED
  BY <1>1, PTL DEF Spec, NoRestartAfterTrip

\* The relay layer implements SirenDeadline: whatever interleaving of handlers and
\* Tickers, every stretch of sound is one that specification allows.
THEOREM DeadlineRefined == Spec => ImplementsDeadline
<1>1. Init => Deadline!Init
  BY DEF Init, Deadline!Init
<1>2. Inv /\ [Next]_vars => [Deadline!Next]_(Deadline!vars)
  <2> SUFFICES ASSUME Inv, Inv', [Next]_vars
               PROVE  [Deadline!Next]_(Deadline!vars)
    BY StepInvariant
  <2>0. /\ CountersOK /\ CountersOK' /\ StopPulseSilences /\ CountsDown
        /\ siren \in BOOLEAN /\ siren' \in BOOLEAN /\ stray \in BOOLEAN /\ stray' \in BOOLEAN
    BY Zenon DEF Inv, TypeOK, FlagsOK
  <2> DEFINE sounding == siren /\ ~stray
             age      == IF siren /\ ~stray THEN sinceStart ELSE 0
  <2>start. ASSUME siren', ~stray', sinceStart' = 0, limit' = limit
            PROVE  Deadline!Next
    BY <2>start DEF Deadline!Next, Deadline!Start
  <2>stop. ASSUME ~siren' \/ stray'
           PROVE  Deadline!Next
    BY <2>0, <2>stop DEF CountersOK, Deadline!Next, Deadline!Stop
  <2>same. ASSUME UNCHANGED <<siren, stray, sinceStart, limit>>
           PROVE  [Deadline!Next]_(Deadline!vars)
    BY <2>same DEF Deadline!vars
  <2>press. ASSUME NEW b \in BOOLEAN, Press(b), limit' = limit
            PROVE  Deadline!Next
    BY <2>press, <2>start, <2>stop DEF Press
  <2>1. ASSUME NEW req \in BOOLEAN, NEW play \in BOOLEAN, LoopTick(req, play)
        PROVE  [Deadline!Next]_(Deadline!vars)
    <3>1. PICK want \in BOOLEAN : Apply(want) /\ limit' = limit
      BY <2>1, Zenon DEF LoopTick, RelayTick
    <3>2. CASE Press(want)
      BY <3>1, <3>2, <2>press
    <3>3. CASE UNCHANGED outputs
      BY <3>1, <3>3, <2>same DEF outputs
    <3>4. QED
      BY <3>1, <3>2, <3>3, Zenon DEF Apply
  <2>2. ASSUME PressStopOnce
        PROVE  Deadline!Next
    <3>1. ~siren'
      BY <2>0, <2>2 DEF PressStopOnce, Press, outputs, StopPulseSilences
    <3>2. QED
      BY <3>1, <2>stop
  <2>3. CASE \E start \in BOOLEAN : TestPulse(start)
    BY <2>3, <2>press DEF TestPulse
  <2>4. CASE \E l \in Limits : Begin(l) \/ Restart(l)
    <3>1. ~siren' \/ stray'
      BY <2>4, Zenon DEF Begin, Restart, Press
    <3>2. QED
      BY <3>1, <2>stop
  <2>5. CASE Preempt \/ EndPulse \/ UNCHANGED vars
    BY <2>5, <2>same DEF Preempt, EndPulse, vars, controller, trips, outputs
  <2>6. CASE Elapse
    <3>1. CASE siren /\ ~stray
      <4>1. armed /\ left # 0 /\ sinceStart + left <= limit
        BY <2>0, <2>6, <3>1 DEF Elapse, trips, SafetyDue, CountsDown
      <4>2. sinceStart < limit /\ sinceStart \in Nat
        BY <2>0, <4>1, ConstantTypes DEF CountersOK
      <4>3. sinceStart' = sinceStart + 1
        BY <2>0, <2>6, <3>1, <4>2, ConstantTypes DEF Elapse, Older, CountersOK
      <4>4. UNCHANGED <<siren, stray, limit>>
        BY <2>6 DEF Elapse
      <4>5. QED
        BY <3>1, <4>2, <4>3, <4>4 DEF Deadline!Next, Deadline!Wait
    <3>2. CASE ~siren \/ stray
      <4>1. UNCHANGED <<siren, stray>>
        BY <2>6 DEF Elapse
      <4>2. QED
        BY <3>2, <4>1, <2>stop, Zenon
    <3>3. QED
      BY <3>1, <3>2
  <2>7. CASE ForceOff \/ EmergencyOff
    BY <2>7, <2>2, Zenon DEF ForceOff, ForgetTrip, EmergencyOff
  <2>8. QED
    BY <2>1, <2>3, <2>4, <2>5, <2>6, <2>7, Zenon
    DEF Next, Silence, PrepareOta, FinishFailedOta, Reconfigure
<1>3. QED
  BY <1>1, <1>2, InvariantHolds, PTL DEF Spec, ImplementsDeadline, Deadline!Spec

-----------------------------------------------------------------------------
(* The journal of the presses *)

\* A list holds, in order, the whole ones of the numbers W from low on, before high.
Holds(list, W, low, high) ==
  /\ \A i \in 1..Len(list) : low <= list[i].no /\ list[i].no < high
  /\ \A i, j \in 1..Len(list) : i < j => list[i].no < list[j].no
  /\ \A i \in 1..Len(list) : list[i].whole => list[i].no \in W
  /\ \A n \in W :
       low <= n /\ n < high => \E i \in 1..Len(list) : list[i].whole /\ list[i].no = n

\* The files have taken turns at `turn`: the active one has what came after.
Turned(first, turn) ==
  /\ first <= turn /\ (first <= records \/ records = 0)
  /\ Holds(files[1 - active].list, written, first, turn)
  /\ Holds(files[active].list, written, turn, records + 1)

TurnsKept == ~misled => \E first, turn \in 1..(records + 1) : Turned(first, turn)

\* Nothing in the ring is newer than the last press, and an empty file has no size.
RingPast == lastPress <= presses /\ \A i \in DOMAIN ring : ring[i] <= presses
Sized == \A i \in 0..1 : files[i].size = 0 => files[i].list = <<>>

JournalIInv == JournalInv /\ RingPast /\ Sized /\ TurnsKept

LEMMA JournalInitInvariant == JournalInit => JournalIInv
<1> SUFFICES ASSUME JournalInit
             PROVE  JournalIInv
  OBVIOUS
<1>1. NoFile \in Files /\ NoFile.list = <<>> /\ Len(<<>>) = 0
  BY JournalAssumption DEF Files, NoFile
<1>2. JournalTypeOK
  BY <1>1, JournalAssumption DEF JournalInit, JournalTypeOK
<1>3. PressesInOrder /\ RingPast /\ Sized
  BY <1>1 DEF JournalInit, PressesInOrder, RingPast, Sized
<1>4. Turned(1, 1)
  BY <1>1 DEF JournalInit, Turned, Holds
<1>5. QED
  BY <1>2, <1>3, <1>4 DEF JournalIInv, JournalInv, TurnsKept, JournalInit

\* A record, whole or torn, at the end of a list.
LEMMA RecordAdded ==
  ASSUME NEW n \in Nat, NEW W \in SUBSET (1..n), NEW list \in Seq(Records),
         NEW r \in Records, r.no = n + 1,
         NEW low \in Nat, low <= n + 1, Holds(list, W, low, n + 1)
  PROVE  Holds(Append(list, r), IF r.whole THEN W \cup {n + 1} ELSE W, low, n + 2)
<1> DEFINE new == Append(list, r)
           V == IF r.whole THEN W \cup {n + 1} ELSE W
<1>1. /\ Len(list) \in Nat /\ Len(new) = Len(list) + 1
      /\ \A i \in 1..Len(list) : new[i] = list[i] /\ list[i] \in Records
      /\ new[Len(list) + 1] = r
  OBVIOUS
<1>2. \A i \in 1..Len(list) : list[i].no \in Nat
  BY <1>1, JournalAssumption DEF Records
<1>3. \A x : x \in V <=> x \in W \/ (r.whole /\ x = n + 1)
  OBVIOUS
<1>4. \A i \in 1..Len(new) : i \in 1..Len(list) \/ i = Len(list) + 1
  BY <1>1
<1> HIDE DEF new, V
<1>5. \A i \in 1..Len(new) : low <= new[i].no /\ new[i].no < n + 2
  BY <1>1, <1>2, <1>4 DEF Holds
<1>6. \A i, j \in 1..Len(new) : i < j => new[i].no < new[j].no
  BY <1>1, <1>2, <1>4 DEF Holds
<1>7. \A i \in 1..Len(new) : new[i].whole => new[i].no \in V
  BY <1>1, <1>3, <1>4 DEF Holds
<1>8. ASSUME NEW x \in V, low <= x
      PROVE  \E i \in 1..Len(new) : new[i].whole /\ new[i].no = x
  <2>1. CASE x \in W
    <3>1. x \in Nat /\ x < n + 1
      BY <2>1
    <3>2. PICK i \in 1..Len(list) : list[i].whole /\ list[i].no = x
      BY <1>8, <2>1, <3>1 DEF Holds
    <3>3. QED
      BY <1>1, <3>2
  <2>2. CASE x \notin W
    BY <1>1, <1>3, <1>8, <2>2
  <2>3. QED
    BY <2>1, <2>2
<1>9. QED
  BY <1>5, <1>6, <1>7, <1>8 DEF Holds, new, V

\* A record that was lost altogether, or is of no concern.
LEMMA NoneAdded ==
  ASSUME NEW n \in Nat, NEW W \in SUBSET (1..n), NEW list \in Seq(Records),
         NEW low \in Nat, Holds(list, W, low, n + 1)
  PROVE  Holds(list, W, low, n + 2)
<1>1. Len(list) \in Nat /\ \A i \in 1..Len(list) : list[i] \in Records
  OBVIOUS
<1>2. \A i \in 1..Len(list) : list[i].no \in Nat
  BY <1>1, JournalAssumption DEF Records
<1>3. QED
  BY <1>1, <1>2 DEF Holds

\* What is behind stays as it is when a number is added at the end.
LEMMA OlderStays ==
  ASSUME NEW n \in Nat, NEW W \in SUBSET (1..n), NEW list \in Seq(Records),
         NEW low \in Nat, NEW high \in Nat, high <= n + 1, Holds(list, W, low, high)
  PROVE  Holds(list, W \cup {n + 1}, low, high)
<1>1. \A x \in W \cup {n + 1} : x < high => x \in W
  OBVIOUS
<1>2. QED
  BY <1>1 DEF Holds

\* log(), apart from its caller
LEMMA LogKeeps ==
  ASSUME JournalTypeOK, Sized, TurnsKept,
         NEW press \in 0..MaxPresses, NEW length \in Lengths, Log(press, length)
  PROVE  /\ files' \in [0..1 -> Files] /\ active' \in 0..1 /\ healthy' \in BOOLEAN
         /\ records' \in 0..MaxRecords /\ written' \in SUBSET (1..records')
         /\ misled' \in BOOLEAN
         /\ Sized' /\ TurnsKept'
<1> DEFINE full == files[active].size + length > MaxBytes
           to == IF full THEN 1 - active ELSE active
           fs == IF full THEN Rotated(files) ELSE files
           r == [no |-> records + 1, press |-> press, whole |-> TRUE]
           torn == Torn(records + 1)
           W == written \cup {records + 1}
           Written(rec, bytes) == files' = [fs EXCEPT ![to] = Longer(fs[to], rec, bytes)]
           Lost == files' = fs
           Stuck == full /\ files' = files
<1>1. /\ records < MaxRecords /\ active' = to /\ records' = records + 1
      /\ \/ Written(r, length) /\ written' = W /\ healthy' \in BOOLEAN /\ misled' = misled
         \/ Stuck /\ healthy' = FALSE /\ misled' = TRUE /\ written' = written
         \/ /\ healthy' = FALSE /\ written' = written /\ misled' = misled
            /\ Lost \/ Written(torn, 1)
  BY Zenon DEF Log
<1>2. /\ MaxBytes \in Nat /\ MaxRecords \in Nat /\ length \in 1..MaxBytes
      /\ records \in Nat /\ records + 1 \in 1..MaxRecords /\ written \in SUBSET (1..records)
      /\ active \in 0..1 /\ 1 - active \in 0..1 /\ misled \in BOOLEAN
  BY <1>1, JournalAssumption DEF JournalTypeOK
<1>3. /\ files \in [0..1 -> Files]
      /\ \A i \in 0..1 : files[i] = [list |-> files[i].list, size |-> files[i].size]
                         /\ files[i].list \in Seq(Records) /\ files[i].size \in 0..MaxBytes
  BY DEF JournalTypeOK, Files
<1>4. r \in Records /\ torn \in Records /\ r.no = records + 1 /\ torn.no = records + 1
      /\ r.whole /\ ~torn.whole
  BY <1>2, JournalAssumption DEF Records, Torn
<1>5. NoFile \in Files /\ NoFile.list = <<>> /\ NoFile.size = 0
  BY <1>2 DEF NoFile, Files
<1>6. /\ to \in 0..1 /\ fs \in [0..1 -> Files]
      /\ full => to # active /\ fs[to] = NoFile /\ fs[active] = files[active]
      /\ ~full => to = active /\ fs = files
      /\ fs[to].size + length <= MaxBytes
  BY <1>2, <1>3, <1>5 DEF Rotated
<1>7. 1 - to \in 0..1 /\ fs[1 - to] = files[1 - to]
      /\ (full => 1 - to = active) /\ (~full => 1 - to = 1 - active)
  BY <1>2, <1>3, <1>6 DEF Rotated
<1> HIDE DEF to, fs, r, torn, full
<1>8. ASSUME NEW rec \in Records, NEW bytes \in 1..length, Written(rec, bytes)
      PROVE  /\ files' \in [0..1 -> Files] /\ Sized'
             /\ files'[to].list = Append(fs[to].list, rec)
             /\ files'[1 - to] = fs[1 - to]
  <2>1. fs[to].list \in Seq(Records) /\ fs[to].size \in Nat
    BY <1>6 DEF Files
  <2>2. Longer(fs[to], rec, bytes) \in Files /\ Longer(fs[to], rec, bytes).size # 0
        /\ Longer(fs[to], rec, bytes).list = Append(fs[to].list, rec)
    BY <1>2, <1>6, <2>1 DEF Files, Longer
  <2>3. files' = [fs EXCEPT ![to] = Longer(fs[to], rec, bytes)]
    BY <1>8
  <2>4. files'[to] = Longer(fs[to], rec, bytes) /\ 1 - to # to
        /\ \A i \in 0..1 : i # to => files'[i] = fs[i] /\ i = 1 - to
    BY <1>6, <1>7, <2>3
  <2>5. Sized'
    BY <1>7, <2>2, <2>4 DEF Sized
  <2>6. files' \in [0..1 -> Files]
    BY <1>6, <2>2, <2>3
  <2>7. QED
    BY <1>7, <2>2, <2>4, <2>5, <2>6
<1> HIDE DEF Written
<1>9. ASSUME ~misled
      PROVE  TurnsKept'
  <2>1. PICK first, turn \in 1..(records + 1) : Turned(first, turn)
    BY <1>9 DEF TurnsKept
  <2>2. \E f, t \in 1..(records + 1) :
          /\ f <= t
          /\ Holds(fs[1 - to].list, written, f, t)
          /\ Holds(fs[to].list, written, t, records + 1)
    <3>1. CASE full
      <4>1. Holds(fs[1 - to].list, written, turn, records + 1)
        BY <1>6, <1>7, <2>1, <3>1 DEF Turned
      <4>2. Holds(fs[to].list, written, records + 1, records + 1)
        BY <1>2, <1>5, <1>6, <3>1 DEF Holds
      <4>3. QED
        BY <1>2, <4>1, <4>2
    <3>2. CASE ~full
      BY <1>6, <1>7, <2>1, <3>2 DEF Turned
    <3>3. QED
      BY <3>1, <3>2
  <2>3. PICK f, t \in 1..(records + 1) :
          /\ f <= t
          /\ Holds(fs[1 - to].list, written, f, t)
          /\ Holds(fs[to].list, written, t, records + 1)
    BY <2>2
  <2>4. f \in Nat /\ t \in Nat /\ f <= t /\ f <= records + 1 /\ t <= records + 1
    BY <1>2, <2>3
  <2>5. fs[to].list \in Seq(Records) /\ fs[1 - to].list \in Seq(Records)
    BY <1>6, <1>7 DEF Files
  <2>6. (records + 1) + 1 = records + 2 /\ 1 - to \in 0..1
    BY <1>2, <1>7
  <2>7. Turned(f, t)' <=> /\ Holds(files'[1 - to].list, written', f, t)
                          /\ Holds(files'[to].list, written', t, records + 2)
    BY <1>1, <1>2, <2>4 DEF Turned
  <2>8. ASSUME Written(r, length), written' = W
        PROVE  Turned(f, t)'
    <3>1. Holds(Append(fs[to].list, r), IF r.whole THEN W ELSE written, t, records + 2)
      BY <1>2, <1>4, <2>3, <2>4, <2>5, RecordAdded
    <3>2. Holds(fs[1 - to].list, W, f, t)
      BY <1>2, <2>3, <2>4, <2>5, OlderStays
    <3>3. files'[to].list = Append(fs[to].list, r) /\ files'[1 - to] = fs[1 - to]
      BY <1>2, <1>4, <1>8, <2>8, length \in 1..length
    <3>4. Holds(Append(fs[to].list, r), W, t, records + 2)
      BY <1>4, <3>1
    <3>5. QED
      BY <2>7, <2>8, <3>2, <3>3, <3>4
  <2>9. ASSUME Written(torn, 1), written' = written
        PROVE  Turned(f, t)'
    <3>1. Holds(Append(fs[to].list, torn), IF torn.whole THEN W ELSE written, t, records + 2)
      BY <1>2, <1>4, <2>3, <2>4, <2>5, RecordAdded
    <3>2. files'[to].list = Append(fs[to].list, torn) /\ files'[1 - to] = fs[1 - to]
      BY <1>2, <1>4, <1>8, <2>9, 1 \in 1..length
    <3>3. Holds(Append(fs[to].list, torn), written, t, records + 2)
      BY <1>4, <3>1
    <3>4. QED
      BY <2>3, <2>7, <2>9, <3>2, <3>3
  <2>10. ASSUME files' = fs, written' = written
         PROVE  Turned(f, t)'
    <3>1. Holds(fs[to].list, written, t, records + 2)
      BY <1>2, <2>3, <2>4, <2>5, NoneAdded
    <3>2. QED
      BY <2>3, <2>7, <2>10, <3>1
  <2>11. misled' \/ Turned(f, t)'
    BY <1>1, <2>8, <2>9, <2>10
  <2>12. f \in 1..(records' + 1) /\ t \in 1..(records' + 1)
    BY <1>1, <1>2, <2>3
  <2>13. QED
    BY <2>11, <2>12 DEF TurnsKept
<1>10. TurnsKept'
  <2>1. CASE misled
    BY <1>1, <2>1 DEF TurnsKept
  <2>2. QED
    BY <1>2, <1>9, <2>1
<1>11. files' \in [0..1 -> Files] /\ Sized'
  <2>1. CASE Stuck
    BY <1>3, <2>1 DEF Sized
  <2>2. CASE Lost
    <3>1. files'[1 - to] = files[1 - to] /\ files'[to] \in {files[to], NoFile}
      BY <1>6, <1>7, <2>2
    <3>2. QED
      BY <1>5, <1>6, <1>7, <2>2, <3>1 DEF Sized
  <2>3. QED
    BY <1>1, <1>2, <1>4, <1>8, <2>1, <2>2
<1>12. records' \in 0..MaxRecords /\ written' \in SUBSET (1..records')
  <2>1. written' \in {written, W} /\ records' = records + 1
    BY <1>1
  <2>2. written \in SUBSET (1..(records + 1)) /\ W \in SUBSET (1..(records + 1))
    BY <1>2
  <2> HIDE DEF W
  <2>3. QED
    BY <1>2, <2>1, <2>2
<1>13. QED
  BY <1>1, <1>2, <1>6, <1>10, <1>11, <1>12

\* The ring: what is taken from it is older than what stays, what is put into it newer.
LEMMA PopKeeps ==
  ASSUME JournalTypeOK, PressesInOrder, RingPast, ring # <<>>
  PROVE  LET popped == Oldest(ring)
         IN  /\ popped.press \in 0..MaxPresses /\ popped.press <= presses
             /\ popped.rest \in Seq(1..MaxPresses) /\ Len(popped.rest) < PressQueue
             /\ \A i \in DOMAIN popped.rest :
                  popped.rest[i] > popped.press /\ popped.rest[i] <= presses
             /\ \A i, j \in DOMAIN popped.rest : i < j => popped.rest[i] < popped.rest[j]
<1> DEFINE rest == Tail(ring)
<1>1. /\ ring \in Seq(1..MaxPresses) /\ Len(ring) \in Nat \ {0} /\ DOMAIN ring = 1..Len(ring)
      /\ presses \in Nat /\ PressQueue \in Nat /\ Len(ring) < PressQueue
  BY JournalAssumption, EmptySeq DEF JournalTypeOK
<1>2. /\ rest \in Seq(1..MaxPresses) /\ DOMAIN rest = 1..(Len(ring) - 1)
      /\ Len(rest) = Len(ring) - 1 /\ \A i \in 1..(Len(ring) - 1) : rest[i] = ring[i + 1]
  BY <1>1
<1>3. Head(ring) = ring[1] /\ \A i \in 1..Len(ring) : ring[i] \in Nat /\ ring[i] <= MaxPresses
  <2>1. Head(ring) = ring[1]
    BY <1>1
  <2>2. \A i \in 1..Len(ring) : ring[i] \in 1..MaxPresses
    BY <1>1, ElementOfSeq
  <2>3. QED
    BY <2>1, <2>2, JournalAssumption
<1> HIDE DEF rest
<1>4. \A i \in DOMAIN rest : rest[i] > ring[1] /\ rest[i] <= presses
  <2>1. \A i \in 1..(Len(ring) - 1) :
          1 \in DOMAIN ring /\ i + 1 \in DOMAIN ring /\ 1 < i + 1
    BY <1>1
  <2>2. QED
    BY <1>2, <2>1 DEF PressesInOrder, RingPast
<1>5. \A i, j \in DOMAIN rest : i < j => rest[i] < rest[j]
  <2>1. \A i, j \in 1..(Len(ring) - 1) : i < j =>
          i + 1 \in DOMAIN ring /\ j + 1 \in DOMAIN ring /\ i + 1 < j + 1
    BY <1>1
  <2>2. QED
    BY <1>2, <2>1 DEF PressesInOrder
<1>6. ring[1] \in 0..MaxPresses /\ ring[1] <= presses
  BY <1>1, <1>3, JournalAssumption DEF RingPast
<1>7. Oldest(ring) = [press |-> ring[1], rest |-> rest]
  BY <1>3 DEF Oldest, rest
<1>8. QED
  BY <1>1, <1>2, <1>4, <1>5, <1>6, <1>7

LEMMA QueueKeeps ==
  ASSUME JournalIInv, QueuePress
  PROVE  JournalIInv'
<1> DEFINE new == Append(ring, presses + 1)
<1> USE DEF JournalIInv, JournalInv
<1>1. UNCHANGED <<files, active, healthy, records, written, misled, logging, lastPress, told>>
  BY DEF QueuePress, store
<1>2. Sized' /\ TurnsKept'
  BY <1>1 DEF Sized, TurnsKept, Turned
<1>3. /\ ring \in Seq(1..MaxPresses) /\ Len(ring) \in Nat /\ DOMAIN ring = 1..Len(ring)
      /\ presses \in Nat /\ presses + 1 \in 1..MaxPresses /\ presses' = presses + 1
      /\ lastPress \in Nat /\ PressQueue \in Nat /\ MaxDropped \in Nat /\ lost \in Nat
      /\ MaxPresses \in Nat
  BY JournalAssumption DEF JournalTypeOK, QueuePress
<1>4. CASE Len(ring) = PressQueue - 1
  <2>1. ring' = ring /\ dropped' \in 0..MaxDropped /\ lost' \in Nat
    BY <1>3, <1>4 DEF QueuePress, JournalTypeOK
  <2>2. JournalTypeOK'
    BY <1>1, <1>3, <2>1 DEF JournalTypeOK
  <2>3. PressesInOrder' /\ RingPast'
    BY <1>1, <1>3, <2>1 DEF PressesInOrder, RingPast
  <2>4. QED
    BY <1>2, <2>2, <2>3
<1>5. CASE Len(ring) # PressQueue - 1
  <2>1. ring' = new /\ UNCHANGED <<dropped, lost>>
    BY <1>5 DEF QueuePress
  <2>2. /\ new \in Seq(1..MaxPresses) /\ Len(new) = Len(ring) + 1 /\ DOMAIN new = 1..Len(new)
        /\ \A i \in 1..Len(ring) : new[i] = ring[i] /\ ring[i] \in 1..MaxPresses
        /\ new[Len(ring) + 1] = presses + 1
    BY <1>3
  <2> HIDE DEF new
  <2>3. JournalTypeOK'
    BY <1>1, <1>3, <1>5, <2>1, <2>2 DEF JournalTypeOK
  <2>4. \A i \in DOMAIN new : new[i] <= presses + 1 /\ new[i] > lastPress
    BY <1>3, <2>2 DEF PressesInOrder, RingPast
  <2>5. ASSUME NEW i \in DOMAIN new, NEW j \in DOMAIN new, i < j
        PROVE  new[i] < new[j]
    <3>1. i \in 1..Len(ring) /\ new[i] = ring[i]
      BY <1>3, <2>2, <2>5
    <3>2. CASE j \in 1..Len(ring)
      BY <1>3, <2>2, <2>5, <3>1, <3>2 DEF PressesInOrder
    <3>3. CASE j = Len(ring) + 1
      <4>1. ring[i] \in Nat /\ ring[i] <= presses
        BY <1>3, <2>2, <3>1 DEF RingPast
      <4>2. QED
        BY <1>3, <2>2, <3>1, <3>3, <4>1
    <3>4. QED
      BY <1>3, <2>2, <3>2, <3>3
  <2>6. PressesInOrder' /\ RingPast'
    BY <1>1, <1>3, <2>1, <2>4, <2>5 DEF PressesInOrder, RingPast
  <2>7. QED
    BY <1>2, <2>3, <2>6
<1>6. QED
  BY <1>4, <1>5

\* begin(): if it takes the other file, the one written to is empty, or the order of
\* the files is lost.
LEMMA RebootKeeps ==
  ASSUME JournalIInv, Reboot
  PROVE  JournalIInv'
<1> USE DEF JournalIInv, JournalInv
<1>1. /\ ring' = <<>> /\ dropped' = 0 /\ logging' = FALSE /\ lost' = 0 /\ told' = 0
      /\ active' = Chosen(files) /\ healthy' \in BOOLEAN /\ active' \in 0..1
      /\ UNCHANGED <<files, records, written, presses, lastPress>>
  BY DEF Reboot, Chosen
<1>2. misled' = (misled \/ /\ active' # active /\ files[active] # NoFile
                           /\ files[active].size >= files[1 - active].size)
  BY DEF Reboot
<1>3. /\ MaxBytes \in Nat /\ records \in Nat /\ active \in 0..1
      /\ \A i \in 0..1 : files[i] \in Files /\ files[i].size \in 0..MaxBytes
  BY JournalAssumption DEF JournalTypeOK, Files
<1>4. JournalTypeOK'
  <2>1. misled' \in BOOLEAN
    BY <1>2 DEF JournalTypeOK
  <2>2. ring' \in Seq(1..MaxPresses) /\ Len(ring') < PressQueue /\ 0 \in 0..MaxDropped
    BY <1>1, JournalAssumption
  <2>3. QED
    BY <1>1, <2>1, <2>2 DEF JournalTypeOK
<1>5. PressesInOrder' /\ RingPast' /\ Sized'
  BY <1>1 DEF PressesInOrder, RingPast, Sized
<1>6. ASSUME ~misled'
      PROVE  TurnsKept'
  <2>1. ~misled
    BY <1>2, <1>6
  <2>2. PICK first, turn \in 1..(records + 1) : Turned(first, turn)
    BY <2>1 DEF TurnsKept
  <2>3. CASE active' = active
    <3>1. Turned(first, turn)'
      BY <1>1, <2>2, <2>3 DEF Turned
    <3>2. QED
      BY <1>1, <2>2, <3>1 DEF TurnsKept
  <2>4. CASE active' # active
    <3>1. files[active].size < files[1 - active].size \/ files[active] = NoFile
      <4>1. files[active].size \in Nat /\ files[1 - active].size \in Nat
        BY <1>3
      <4>2. ~(files[active].size >= files[1 - active].size) \/ files[active] = NoFile
        BY <1>2, <1>6, <2>4, Zenon
      <4>3. QED
        BY <4>1, <4>2
    <3>2. files[active].size = 0
      BY <1>1, <1>3, <2>4, <3>1 DEF Chosen, NoFile
    <3>3. files[active].list = <<>> /\ Len(<<>>) = 0
      BY <1>3, <3>2 DEF Sized
    <3>4. active' = 1 - active /\ 1 - active' = active
      BY <1>1, <1>3, <2>4
    <3>5. Turned(first, first)'
      <4>1. \A n \in written : n \in Nat /\ n <= records
        BY <1>3 DEF JournalTypeOK
      <4>2. \A n \in written : ~(turn <= n)
        BY <1>3, <2>2, <3>3, <4>1 DEF Turned, Holds
      <4>3. Holds(files[1 - active].list, written, first, records + 1)
        <5> DEFINE list == files[1 - active].list
        <5>1. list \in Seq(Records)
          BY <1>3 DEF Files
        <5>2. Len(list) \in Nat /\ \A i \in 1..Len(list) : list[i] \in Records
          BY <5>1
        <5>3. \A i \in 1..Len(list) : list[i].no \in Nat
          BY <5>2, JournalAssumption DEF Records
        <5>4. Holds(list, written, first, turn)
          BY <2>2 DEF Turned
        <5> HIDE DEF list
        <5>5. Holds(list, written, first, records + 1)
          BY <1>3, <2>2, <4>1, <4>2, <5>2, <5>3, <5>4 DEF Holds
        <5>6. QED
          BY <5>5 DEF list
      <4>4. Holds(files[active].list, written, first, first)
        BY <2>2, <3>3, <4>1 DEF Holds
      <4>5. first <= first /\ (first <= records \/ records = 0)
        BY <1>3, <2>2 DEF Turned
      <4>6. QED
        BY <1>1, <3>4, <4>3, <4>4, <4>5 DEF Turned
    <3>6. QED
      BY <1>1, <2>2, <3>5 DEF TurnsKept
  <2>5. QED
    BY <2>3, <2>4
<1>7. QED
  BY <1>4, <1>5, <1>6 DEF TurnsKept

LEMMA JournalStep == JournalIInv /\ [JournalNext]_journal => JournalIInv'
<1> SUFFICES ASSUME JournalIInv, [JournalNext]_journal
             PROVE  JournalIInv'
  OBVIOUS
<1> USE DEF JournalIInv, JournalInv
<1>1. CASE QueuePress
  BY <1>1, QueueKeeps
<1>2. CASE LogRelayPresses
  <2>1. logging' = TRUE /\ UNCHANGED <<ring, dropped, store, history>>
    BY <1>2 DEF LogRelayPresses
  <2>2. JournalTypeOK'
    BY <2>1 DEF JournalTypeOK, store, history
  <2>3. PressesInOrder' /\ RingPast' /\ Sized' /\ TurnsKept'
    BY <2>1 DEF PressesInOrder, RingPast, Sized, TurnsKept, Turned, store, history
  <2>4. QED
    BY <2>2, <2>3
<1>3. ASSUME NEW length \in Lengths, PopPress(length)
      PROVE  JournalIInv'
  <2> DEFINE popped == Oldest(ring)
  <2>1. /\ ring # <<>> /\ dropped' = 0 /\ lastPress' = popped.press /\ ring' = popped.rest
        /\ Log(popped.press, length) /\ UNCHANGED <<logging, presses, lost, told>>
    BY <1>3 DEF PopPress
  <2>2. /\ popped.press \in 0..MaxPresses /\ popped.press <= presses
        /\ popped.rest \in Seq(1..MaxPresses) /\ Len(popped.rest) < PressQueue
        /\ \A i \in DOMAIN popped.rest :
             popped.rest[i] > popped.press /\ popped.rest[i] <= presses
        /\ \A i, j \in DOMAIN popped.rest : i < j => popped.rest[i] < popped.rest[j]
    BY <2>1, PopKeeps
  <2> HIDE DEF popped
  <2>3. /\ files' \in [0..1 -> Files] /\ active' \in 0..1 /\ healthy' \in BOOLEAN
        /\ records' \in 0..MaxRecords /\ written' \in SUBSET (1..records')
        /\ misled' \in BOOLEAN
        /\ Sized' /\ TurnsKept'
    BY <2>1, <2>2, LogKeeps
  <2>4. JournalTypeOK'
    BY <2>1, <2>2, <2>3, JournalAssumption DEF JournalTypeOK
  <2>5. PressesInOrder' /\ RingPast'
    BY <2>1, <2>2 DEF PressesInOrder, RingPast
  <2>6. QED
    BY <2>3, <2>4, <2>5
<1>4. ASSUME NEW length \in Lengths, TellLoss(length)
      PROVE  JournalIInv'
  <2>1. dropped' = 0 /\ logging' = FALSE /\ UNCHANGED <<ring, presses, lastPress, lost>>
    BY <1>4 DEF TellLoss
  <2>2. CASE dropped = 0
    <3>1. UNCHANGED <<store, told>>
      BY <1>4, <2>2 DEF TellLoss
    <3>2. JournalTypeOK'
      BY <2>1, <2>2, <3>1 DEF JournalTypeOK, store
    <3>3. PressesInOrder' /\ RingPast' /\ Sized' /\ TurnsKept'
      BY <2>1, <3>1 DEF PressesInOrder, RingPast, Sized, TurnsKept, Turned, store
    <3>4. QED
      BY <3>2, <3>3
  <2>3. CASE dropped # 0
    <3>1. Log(0, length) /\ told' = told + dropped
      BY <1>4, <2>3 DEF TellLoss
    <3>2. /\ files' \in [0..1 -> Files] /\ active' \in 0..1 /\ healthy' \in BOOLEAN
          /\ records' \in 0..MaxRecords /\ written' \in SUBSET (1..records')
          /\ misled' \in BOOLEAN
          /\ Sized' /\ TurnsKept'
      BY <3>1, LogKeeps, JournalAssumption
    <3>3. told' \in Nat /\ 0 \in 0..MaxDropped
      BY <3>1, JournalAssumption DEF JournalTypeOK
    <3>4. JournalTypeOK'
      BY <2>1, <3>2, <3>3 DEF JournalTypeOK
    <3>5. PressesInOrder' /\ RingPast'
      BY <2>1 DEF PressesInOrder, RingPast
    <3>6. QED
      BY <3>2, <3>4, <3>5
  <2>4. QED
    BY <2>2, <2>3
<1>5. ASSUME NEW length \in Lengths, LogEvent(length)
      PROVE  JournalIInv'
  <2>1. Log(0, length) /\ UNCHANGED <<queue, history>>
    BY <1>5 DEF LogEvent
  <2>2. /\ files' \in [0..1 -> Files] /\ active' \in 0..1 /\ healthy' \in BOOLEAN
        /\ records' \in 0..MaxRecords /\ written' \in SUBSET (1..records')
        /\ misled' \in BOOLEAN
        /\ Sized' /\ TurnsKept'
    BY <2>1, LogKeeps, JournalAssumption
  <2>3. JournalTypeOK'
    BY <2>1, <2>2 DEF JournalTypeOK, queue, history
  <2>4. PressesInOrder' /\ RingPast'
    BY <2>1 DEF PressesInOrder, RingPast, queue, history
  <2>5. QED
    BY <2>2, <2>3, <2>4
<1>6. CASE Reboot
  BY <1>6, RebootKeeps
<1>7. CASE UNCHANGED journal
  <2>1. JournalTypeOK'
    BY <1>7 DEF JournalTypeOK, journal, queue, store, history
  <2>2. PressesInOrder' /\ RingPast' /\ Sized' /\ TurnsKept'
    BY <1>7 DEF PressesInOrder, RingPast, Sized, TurnsKept, Turned, journal, queue, store, history
  <2>3. QED
    BY <2>1, <2>2
<1>8. QED
  BY <1>1, <1>2, <1>3, <1>4, <1>5, <1>6, <1>7 DEF JournalNext

LEMMA JournalInvariantHolds == JournalSpec => []JournalIInv
BY JournalInitInvariant, JournalStep, PTL DEF JournalSpec

\* However the ring fills while loop() empties it, and whatever fails: presses are
\* journalled in their order, each at most once, and no file outgrows its limit.
THEOREM PressesStayInOrder == JournalSpec => []JournalInv
<1>1. JournalIInv => JournalInv
  BY DEF JournalIInv
<1>2. QED
  BY <1>1, JournalInvariantHolds, PTL

\* What the page shows is in order, without a gap and up to date, and a record shares a
\* line with a torn one only after a write that failed, for any sizes of files and
\* records, as long as nothing has misled active_.
THEOREM NewestInOrderHolds == JournalSpec => []NewestInOrder
<1>1. JournalIInv => NewestInOrder
  <2> SUFFICES ASSUME JournalIInv, ~misled
               PROVE  LET whole == {i \in DOMAIN Streamed : Streamed[i].whole}
                          shown == {Streamed[i].no : i \in whole}
                      IN  /\ \A i, j \in whole : i < j => Streamed[i].no < Streamed[j].no
                          /\ \E first \in 1..records + 1 : shown = {n \in written : n >= first}
                          /\ records \in written => records \in shown
                          /\ \A i \in whole : Glued(i) => Streamed[i].no - 1 \notin written
    BY DEF NewestInOrder
  <2> DEFINE A == files[1 - active].list
             B == files[active].list
             S == A \o B
             whole == {i \in DOMAIN S : S[i].whole}
             shown == {S[i].no : i \in whole}
  <2>1. PICK first, turn \in 1..(records + 1) : Turned(first, turn)
    BY DEF JournalIInv, TurnsKept
  <2>2. /\ A \in Seq(Records) /\ B \in Seq(Records)
        /\ records \in Nat /\ written \in SUBSET (1..records)
    BY DEF JournalIInv, JournalInv, JournalTypeOK, Files
  <2>3. /\ first <= turn /\ (first <= records \/ records = 0)
        /\ Holds(A, written, first, turn) /\ Holds(B, written, turn, records + 1)
    BY <2>1 DEF Turned
  <2> HIDE DEF A, B
  <2>4. /\ Len(A) \in Nat /\ Len(B) \in Nat
        /\ DOMAIN S = 1..(Len(A) + Len(B))
        /\ \A i \in 1..Len(A) : S[i] = A[i] /\ A[i] \in Records
        /\ \A i \in 1..Len(B) : S[Len(A) + i] = B[i] /\ B[i] \in Records
    BY <2>2
  <2>5. /\ \A i \in 1..Len(A) : A[i].no \in Nat
        /\ \A i \in 1..Len(B) : B[i].no \in Nat
    BY <2>4, JournalAssumption DEF Records
  <2> HIDE DEF S
  <2>6. \A i \in DOMAIN S : \/ i \in 1..Len(A)
                            \/ i - Len(A) \in 1..Len(B) /\ i = Len(A) + (i - Len(A))
    BY <2>4
  <2>7. \A i, j \in DOMAIN S : i < j => S[i].no < S[j].no
    <3> SUFFICES ASSUME NEW i \in DOMAIN S, NEW j \in DOMAIN S, i < j
                 PROVE  S[i].no < S[j].no
      OBVIOUS
    <3>1. CASE j \in 1..Len(A)
      BY <2>3, <2>4, <2>6, <3>1 DEF Holds
    <3>2. CASE i \in 1..Len(A) /\ j \notin 1..Len(A)
      <4>1. S[i].no \in Nat /\ S[i].no < turn
        BY <2>3, <2>4, <2>5, <3>2 DEF Holds
      <4>2. PICK k \in 1..Len(B) : j = Len(A) + k
        BY <2>6, <3>2
      <4>3. S[j].no \in Nat /\ turn <= S[j].no
        BY <2>3, <2>4, <2>5, <4>2 DEF Holds
      <4>4. QED
        BY <2>2, <4>1, <4>3
    <3>3. CASE i \notin 1..Len(A)
      <4>1. PICK k \in 1..Len(B) : i = Len(A) + k
        BY <2>6, <3>3
      <4>2. j \notin 1..Len(A)
        BY <2>4, <4>1
      <4>3. PICK l \in 1..Len(B) : j = Len(A) + l
        BY <2>6, <4>2
      <4>4. k < l
        BY <2>4, <4>1, <4>3
      <4>5. QED
        BY <2>3, <2>4, <4>1, <4>3, <4>4 DEF Holds
    <3>4. QED
      BY <2>4, <3>1, <3>2, <3>3
  <2>8. \A i \in DOMAIN S : S[i].whole => S[i].no \in written /\ S[i].no >= first
    <3> SUFFICES ASSUME NEW i \in DOMAIN S, S[i].whole
                 PROVE  S[i].no \in written /\ S[i].no >= first
      OBVIOUS
    <3>1. CASE i \in 1..Len(A)
      BY <2>2, <2>3, <2>4, <2>5, <3>1 DEF Holds
    <3>2. CASE i \notin 1..Len(A)
      <4>1. PICK k \in 1..Len(B) : i = Len(A) + k
        BY <2>6, <3>2
      <4>2. S[i].no \in Nat /\ turn <= S[i].no /\ S[i].no \in written
        BY <2>3, <2>4, <2>5, <4>1 DEF Holds
      <4>3. QED
        BY <2>2, <2>3, <4>2
    <3>3. QED
      BY <3>1, <3>2
  <2>9. ASSUME NEW n \in written, n >= first
        PROVE  \E i \in DOMAIN S : S[i].whole /\ S[i].no = n
    <3>1. n \in 1..records
      BY <2>2
    <3>2. CASE n < turn
      <4>1. PICK i \in 1..Len(A) : A[i].whole /\ A[i].no = n
        BY <2>2, <2>3, <2>9, <3>1, <3>2 DEF Holds
      <4>2. i \in DOMAIN S /\ S[i] = A[i]
        BY <2>4
      <4>3. QED
        BY <4>1, <4>2
    <3>3. CASE turn <= n
      <4>1. PICK i \in 1..Len(B) : B[i].whole /\ B[i].no = n
        BY <2>2, <2>3, <3>1, <3>3 DEF Holds
      <4>2. Len(A) + i \in DOMAIN S /\ S[Len(A) + i] = B[i]
        BY <2>4
      <4>3. QED
        BY <4>1, <4>2
    <3>4. QED
      BY <2>2, <3>1, <3>2, <3>3
  <2>10. \A i \in DOMAIN S : S[i].no \in Nat /\ S[i].no >= first
    <3> SUFFICES ASSUME NEW i \in DOMAIN S
                 PROVE  S[i].no \in Nat /\ S[i].no >= first
      OBVIOUS
    <3>1. CASE i \in 1..Len(A)
      BY <2>2, <2>3, <2>4, <2>5, <3>1 DEF Holds
    <3>2. CASE i \notin 1..Len(A)
      <4>1. PICK k \in 1..Len(B) : i = Len(A) + k
        BY <2>6, <3>2
      <4>2. S[i].no \in Nat /\ turn <= S[i].no
        BY <2>3, <2>4, <2>5, <4>1 DEF Holds
      <4>3. QED
        BY <2>2, <2>3, <4>2
    <3>3. QED
      BY <3>1, <3>2
  <2>11. ASSUME NEW i \in DOMAIN S, i > 1, ~S[i - 1].whole, S[i].no - 1 \in written
         PROVE  FALSE
    <3>1. i \in Nat /\ i - 1 \in DOMAIN S /\ i - 1 < i /\ DOMAIN S \in SUBSET Nat
      BY <2>4, <2>11
    <3>2. S[i - 1].no \in Nat /\ S[i - 1].no >= first /\ S[i].no \in Nat /\ S[i - 1].no < S[i].no
      BY <2>7, <2>10, <3>1
    <3>3. S[i].no - 1 >= first
      BY <2>2, <3>2
    <3>4. PICK k \in DOMAIN S : S[k].whole /\ S[k].no = S[i].no - 1
      BY <2>9, <2>11, <3>3
    <3>5. k \in Nat /\ k # i - 1 /\ k # i
      BY <2>11, <3>1, <3>2, <3>4
    <3>6. CASE k < i - 1
      <4>1. S[k].no < S[i - 1].no
        BY <2>7, <3>1, <3>6
      <4>2. QED
        BY <3>2, <3>4, <4>1
    <3>7. CASE k > i
      <4>1. S[i].no < S[k].no
        BY <2>7, <3>7
      <4>2. QED
        BY <3>2, <3>4, <4>1
    <3>8. QED
      BY <3>1, <3>5, <3>6, <3>7
  <2>12. shown = {n \in written : n >= first}
    BY <2>8, <2>9
  <2>13. records \in written => records >= first
    BY <2>2, <2>3
  <2>14. \A i, j \in whole : i < j => S[i].no < S[j].no
    BY <2>7
  <2>15. Streamed = S
    BY DEF Streamed, S, A, B
  <2>16. \A i \in whole : Glued(i) => S[i].no - 1 \notin written
    BY <2>15, <2>11 DEF Glued
  <2> HIDE DEF whole, shown
  <2>17. records \in written => records \in shown
    BY <2>12, <2>13
  <2>18. QED
    BY <2>1, <2>12, <2>14, <2>15, <2>17, <2>16 DEF whole, shown
<1>2. QED
  BY <1>1, JournalInvariantHolds, PTL
=============================================================================
