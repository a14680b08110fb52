-------------------------- MODULE RelayController --------------------------
(***************************************************************************)
(* The siren relay: RelayController.h with the RelayGuard it owns, the two *)
(* SYS-context Tickers (safety deadline, button-pulse release), and the    *)
(* firmware paths that drive it: loop(), mute, "relay off", the one-relay  *)
(* commissioning test, a config save, OTA, and a restart of the chip.      *)
(*                                                                         *)
(* Time is discrete and advances by Elapse.  A Ticker fires in SYS context *)
(* even while loop() is blocked, so a due timer is urgent: Elapse waits    *)
(* for it.  loop() is not urgent: any number of units may pass between two *)
(* LoopTick steps (a TLS poll, a flash write).  Handlers contain no yield, *)
(* so each is one step.                                                    *)
(*                                                                         *)
(* The siren itself is part of the model.  Wired to two relays it latches: *)
(* a START press turns it on, a STOP press off, and nothing the controller *)
(* forgets turns it off.  Wired to one relay it sounds while D5 is held.   *)
(***************************************************************************)
EXTENDS Naturals

CONSTANTS
  Limits,    \* the values relay.max_on_ms can be given (time units)
  PulseLen,  \* kPulseMs, the length of a simulated button press
  Cap        \* where the ages stop counting, above every limit

ASSUME PulseAssumption == PulseLen \in Nat \ {0}
ASSUME LimitAssumption ==
  /\ Limits \subseteq Nat \ {0}
  /\ Cap \in Nat
  /\ \A l \in Limits : l < Cap

VARIABLES
  single,        \* relay.single: D5 switches the siren (else two buttons);
                 \* to change it is to rewire the siren, so it stays
  on,            \* on_: the siren state the controller believes it commanded
  pulsePin,      \* pulsePin_: the button being pressed, or "none"
  pulseLeft,     \* time left on pulseTimer_
  armed,         \* safetyTimer_ is running
  left,          \* time left on safetyTimer_
  limit,         \* maxOnMs_
  guardOn,       \* guard_.on_
  guardAge,      \* now - guard_.onSince_
  guardTripped,  \* guard_.tripped_
  asyncTrip,     \* asyncTrip_: the deadline fired since the request dropped
  tripEvent,     \* tripEvent_: a trip not yet written to the event log
  logged,        \* the last pass of loop() wrote RELAY_SAFETY_TRIP
  request,       \* what the pattern layer last asked the guard for
  playing,       \* notify.playing()
  ota,           \* otaInProgress
  siren,         \* the siren sounds (physical)
  sinceStart,    \* time since its last START press, while it sounds
  stray,         \* history: it was left sounding with no deadline armed
  cut            \* history: the Ticker stopped it since the last pass of
                 \* loop(), and no forced stop or begin() has come since

trips      == <<asyncTrip, tripEvent, logged, cut>>
controller == <<on, armed, left, limit, trips>>
guard      == <<guardOn, guardAge, guardTripped, request>>
outputs    == <<pulsePin, pulseLeft, siren, sinceStart, stray>>
vars       == <<single, controller, guard, outputs, playing, ota>>

FlagsOK ==
  /\ on \in BOOLEAN /\ armed \in BOOLEAN
  /\ guardOn \in BOOLEAN /\ guardTripped \in BOOLEAN /\ request \in BOOLEAN
  /\ asyncTrip \in BOOLEAN /\ tripEvent \in BOOLEAN
  /\ logged \in BOOLEAN /\ cut \in BOOLEAN
  /\ playing \in BOOLEAN /\ ota \in BOOLEAN
  /\ siren \in BOOLEAN /\ stray \in BOOLEAN

CountersOK ==
  /\ pulsePin \in {"none", "start", "stop"}
  /\ pulseLeft \in 0..PulseLen
  /\ limit \in Limits
  /\ left \in 0..Cap
  /\ guardAge \in 0..Cap
  /\ sinceStart \in 0..Cap

TypeOK == single \in BOOLEAN /\ FlagsOK /\ CountersOK

Init ==
  /\ single \in BOOLEAN
  /\ on = FALSE /\ armed = FALSE /\ left = 0
  /\ limit \in Limits
  /\ asyncTrip = FALSE /\ tripEvent = FALSE /\ logged = FALSE /\ cut = FALSE
  /\ guardOn = FALSE /\ guardAge = 0 /\ guardTripped = FALSE /\ request = FALSE
  /\ pulsePin = "none" /\ pulseLeft = 0
  /\ siren = FALSE /\ sinceStart = 0 /\ stray = FALSE
  /\ playing = FALSE /\ ota = FALSE

-----------------------------------------------------------------------------
(* Pins and presses *)

\* press(): hold or drop D5, or tap a button.  A tap preempts the one in
\* progress, so the siren obeys the last press.
Press(start) ==
  /\ siren' = start
  /\ sinceStart' = 0
  /\ stray' = FALSE
  /\ pulsePin' = IF single THEN "none" ELSE IF start THEN "start" ELSE "stop"
  /\ pulseLeft' = IF single THEN 0 ELSE PulseLen

\* The STOP of forceOff() and emergencyOff(): not repeated while the STOP
\* button is already held.
PressStopOnce ==
  \/ (single \/ pulsePin # "stop") /\ Press(FALSE)
  \/ ~single /\ pulsePin = "stop" /\ UNCHANGED outputs

\* guard_.tick(false, 0)
ReleaseGuard ==
  /\ guardOn' = FALSE
  /\ guardAge' = 0
  /\ guardTripped' = FALSE
  /\ request' = FALSE

\* What forceOff() and begin() forget of a trip, the entry not yet written included.
ForgetTrip ==
  /\ asyncTrip' = FALSE
  /\ tripEvent' = FALSE
  /\ cut' = FALSE
  /\ UNCHANGED logged

Disarm == armed' = FALSE /\ left' = 0

\* Mutant: the limit is left to the guard, no Ticker is started.
Arm_GuardOnly == Disarm

Arm == armed' = TRUE /\ left' = limit

-----------------------------------------------------------------------------
(* loop(): the pattern output goes through the guard to the relay *)

\* apply(): one press at a time, a change refused now is retried next tick.
Apply(want) ==
  \/ /\ want = on \/ pulsePin # "none"
     /\ UNCHANGED <<on, armed, left, outputs>>
  \/ /\ want # on /\ pulsePin = "none"
     /\ on' = want
     /\ Press(want)
     /\ IF want THEN Arm ELSE Disarm

\* Mutant: relay.tick() does not pass the Ticker's cut on to the guard.
RelayTick_NoTrip(req) ==
  LET age     == IF guardOn THEN guardAge ELSE 0
      expired == age >= limit
      allowed == req /\ ~guardTripped /\ ~expired
  IN  /\ guardOn' = allowed
      /\ guardAge' = IF allowed THEN age ELSE 0
      /\ guardTripped' = (req /\ (guardTripped \/ expired))
      /\ request' = req
      /\ asyncTrip' = (asyncTrip /\ req)
      /\ logged' = (tripEvent \/ (guardTripped' /\ ~guardTripped))
      /\ tripEvent' = FALSE
      /\ cut' = FALSE
      /\ Apply(allowed)
      /\ UNCHANGED limit

\* relay.tick(): guard_.trip() if the Ticker cut the siren, guard_.tick(), then
\* apply(), and the event if the guard has newly tripped.  consumeSafetyTrip()
\* follows in the same pass of loop(), which writes the entry.
RelayTick(req) ==
  LET tripped == guardTripped \/ asyncTrip
      age     == IF guardOn /\ ~asyncTrip THEN guardAge ELSE 0
      expired == age >= limit
      allowed == req /\ ~tripped /\ ~expired
  IN  /\ guardOn' = allowed
      /\ guardAge' = IF allowed THEN age ELSE 0
      /\ guardTripped' = (req /\ (tripped \/ expired))
      /\ request' = req
      /\ asyncTrip' = (asyncTrip /\ req)
      /\ logged' = (tripEvent \/ (guardTripped' /\ ~guardTripped))
      /\ tripEvent' = FALSE
      /\ cut' = FALSE
      /\ Apply(allowed)
      /\ UNCHANGED limit

\* Mutant: loop() does not return early during OTA.
LoopTick_NoOtaReturn(req, play) ==
  /\ req => play
  /\ playing' = play
  /\ RelayTick(req)
  /\ UNCHANGED <<ota, single>>

\* notify.tick() answers req and leaves playing_ = play; a request comes only
\* from a playing pattern.  loop() returns early during OTA.
LoopTick(req, play) ==
  /\ ~ota
  /\ req => play
  /\ playing' = play
  /\ RelayTick(req)
  /\ UNCHANGED <<ota, single>>

\* onEngineEvent(): a Start signal stops a playing reminder; the relay follows
\* at the next tick.
Preempt ==
  /\ playing
  /\ playing' = FALSE
  /\ UNCHANGED <<controller, guard, outputs, ota, single>>

-----------------------------------------------------------------------------
(* Handlers reached from the buttons, the serial console and the Web UI *)

\* Mutant: forceOff() presses STOP only when it believes the siren is on.
ForceOff_OnlyIfOn ==
  /\ on' = FALSE
  /\ Disarm
  /\ ForgetTrip
  /\ ReleaseGuard
  /\ IF on THEN PressStopOnce ELSE UNCHANGED outputs
  /\ UNCHANGED limit

ForceOff ==
  /\ on' = FALSE
  /\ Disarm
  /\ ForgetTrip
  /\ ReleaseGuard
  /\ PressStopOnce
  /\ UNCHANGED limit

\* muteNow(), POST /relay/off, refreshLocations(): relay off, patterns off.
Silence ==
  /\ ForceOff
  /\ playing' = FALSE
  /\ UNCHANGED <<ota, single>>

PrepareOta ==
  /\ ForceOff
  /\ playing' = FALSE
  /\ ota' = TRUE
  /\ UNCHANGED single

\* finishFailedOta(); an upload aborted before it was accepted runs it too, so
\* OTA need not be in progress, and a playing pattern keeps playing.
FinishFailedOta ==
  /\ ForceOff
  /\ ota' = FALSE
  /\ UNCHANGED <<playing, single>>

\* Mutant: the one-relay test arms no deadline.
TestPulse_NoDeadline(start) ==
  /\ ~playing
  /\ Press(start)
  /\ UNCHANGED <<on, limit, armed, left, trips, guard, playing, ota, single>>

\* "test start" / "test stop": press one button, refused while a pattern plays.
TestPulse(start) ==
  /\ ~playing
  /\ Press(start)
  /\ \/ start /\ Arm
     \/ ~start /\ ~on /\ Disarm
     \/ ~start /\ on /\ UNCHANGED <<armed, left>>
  /\ UNCHANGED <<on, limit, trips, guard, playing, ota, single>>

\* begin(), re-run by applyConfig() on every config save: pins released, both
\* Tickers detached, and a STOP press if the controller believes the siren is on.
Begin(newLimit) ==
  /\ limit' = newLimit
  /\ on' = FALSE
  /\ Disarm
  /\ ForgetTrip
  /\ ReleaseGuard
  /\ \/ on /\ Press(FALSE)
     \/ /\ ~on
        /\ pulsePin' = "none" /\ pulseLeft' = 0
        /\ siren' = (siren /\ ~single)
        /\ sinceStart' = IF siren' THEN sinceStart ELSE 0
        /\ stray' = siren'

Reconfigure(newLimit) ==
  /\ Begin(newLimit)
  /\ UNCHANGED <<playing, ota, single>>

\* ESP.restart(), a crash or the OTA watchdog: RAM is lost, the pins float to
\* released, and setup() runs begin() on a fresh controller.
Restart(newLimit) ==
  /\ limit' = newLimit
  /\ on' = FALSE
  /\ Disarm
  /\ asyncTrip' = FALSE /\ tripEvent' = FALSE /\ logged' = FALSE /\ cut' = FALSE
  /\ ReleaseGuard
  /\ pulsePin' = "none" /\ pulseLeft' = 0
  /\ siren' = (siren /\ ~single)
  /\ sinceStart' = IF siren' THEN sinceStart ELSE 0
  /\ stray' = siren'
  /\ playing' = FALSE /\ ota' = FALSE
  /\ UNCHANGED single

-----------------------------------------------------------------------------
(* SYS-context Tickers and time *)

SafetyDue == armed /\ left = 0
PulseDue  == pulsePin # "none" /\ pulseLeft = 0

\* Mutant: the deadline only tells loop() to stop the siren.
EmergencyOff_FlagOnly ==
  /\ SafetyDue
  /\ Disarm
  /\ asyncTrip' = TRUE /\ tripEvent' = TRUE /\ cut' = TRUE
  /\ UNCHANGED <<on, limit, logged, guard, outputs, playing, ota, single>>

\* Mutant: the deadline leaves the log entry to the guard.
EmergencyOff_NoEvent ==
  /\ SafetyDue
  /\ on' = FALSE
  /\ Disarm
  /\ asyncTrip' = TRUE /\ cut' = TRUE
  /\ PressStopOnce
  /\ UNCHANGED <<limit, tripEvent, logged, guard, playing, ota, single>>

\* emergencyOff()
EmergencyOff ==
  /\ SafetyDue
  /\ on' = FALSE
  /\ Disarm
  /\ asyncTrip' = TRUE
  /\ tripEvent' = TRUE
  /\ cut' = TRUE
  /\ PressStopOnce
  /\ UNCHANGED <<limit, logged, guard, playing, ota, single>>

\* endPulse()
EndPulse ==
  /\ PulseDue
  /\ pulsePin' = "none"
  /\ UNCHANGED <<controller, guard, pulseLeft, siren, sinceStart, stray, playing, ota, single>>

Older(age) == IF age < Cap THEN age + 1 ELSE Cap

Elapse ==
  /\ ~SafetyDue /\ ~PulseDue
  /\ left' = IF armed THEN left - 1 ELSE left
  /\ pulseLeft' = IF pulsePin # "none" THEN pulseLeft - 1 ELSE pulseLeft
  /\ guardAge' = IF guardOn THEN Older(guardAge) ELSE guardAge
  /\ sinceStart' = IF siren THEN Older(sinceStart) ELSE sinceStart
  /\ UNCHANGED <<on, armed, limit, trips, guardOn, guardTripped, request,
                 pulsePin, siren, stray, playing, ota, single>>

-----------------------------------------------------------------------------
Next ==
  \/ \E req, play \in BOOLEAN : LoopTick(req, play)
  \/ Preempt
  \/ Silence
  \/ PrepareOta
  \/ FinishFailedOta
  \/ \E start \in BOOLEAN : TestPulse(start)
  \/ \E l \in Limits : Reconfigure(l)
  \/ \E l \in Limits : Restart(l)
  \/ EmergencyOff
  \/ EndPulse
  \/ Elapse

\* Time and the Tickers are fair; loop() is not: it may block for ever.
Fairness == WF_vars(Elapse) /\ WF_vars(EmergencyOff) /\ WF_vars(EndPulse)

Spec == Init /\ [][Next]_vars
FairSpec == Spec /\ Fairness

-----------------------------------------------------------------------------
(* Safety *)

\* A siren the controller believes it switched on always has its Ticker deadline
\* running, whatever the guard or a blocked loop() does (apply, begin, testPulse).
OnHasDeadline == on => armed

\* While the STOP button is held the siren is silent, so forceOff() and
\* emergencyOff() may skip a second press.
StopPulseSilences == pulsePin = "stop" => ~siren

\* The deadline of a sounding siren counts down exactly as its age grows, so
\* their sum stays within the limit that was in force at the START press.
CountsDown == siren /\ ~stray => armed /\ sinceStart + left <= limit

\* What every handler, Ticker and pass of loop() preserves, the type included;
\* the other promises rest on it.
Inv == TypeOK /\ OnHasDeadline /\ StopPulseSilences /\ CountsDown

\* Invariant 2 of the SPEC, as the Ticker can promise it: a sounding siren has a
\* deadline armed and its last START press is at most the limit ago, unless
\* begin() or a restart abandoned it.
DeadlineHolds == siren /\ ~stray => armed /\ sinceStart <= limit

\* A Ticker cut that loop() has not yet taken over into the guard still has its
\* RELAY_SAFETY_TRIP entry pending; until then only the Ticker asks for one.
TripPending == (asyncTrip /\ ~guardTripped => cut) /\ tripEvent = cut

\* Invariant 8: once OTA has begun no pattern holds the siren on, for loop()
\* returns before notify.tick() and relay.tick().
OtaKeepsPatternOff == ota => ~on

\* On the one-relay wiring nothing can leave the siren sounding without a
\* deadline: begin() and a reset both release D5.
NeverStray == single => ~stray

\* Invariant 4 and Invariant 8: mute, "relay off" and the start of OTA silence
\* the siren in that very step, even one left on by the one-relay test.
SilencedAtOnce == [][Silence \/ PrepareOta => ~siren']_vars

\* After a safety cut the pattern layer cannot start the siren again until the
\* guard has seen its request drop, or the relay was forced off or re-begun.
NoRestartAfterTrip == [][(asyncTrip \/ guardTripped) /\ ~on => ~on']_vars

\* RELAY_SAFETY_TRIP is written in the first pass of loop() after a Ticker cut,
\* even if the pattern has ended by then, and when the guard itself gives up a
\* request that nothing had cut; and in no other pass, however long the request
\* stands.  A forced stop, a save or a restart in between drops the entry (`cut`).
CutToldOnce ==
  [][\A req, play \in BOOLEAN : LoopTick(req, play) =>
       (logged' <=> cut \/ (~asyncTrip /\ ~guardTripped /\ guardTripped'))]_vars

\* Every safe stretch of sound is one the deadline specification allows.
Deadline == INSTANCE SirenDeadline WITH
  sounding <- siren /\ ~stray,
  age      <- IF siren /\ ~stray THEN sinceStart ELSE 0,
  limit    <- limit

\* RelayController implements SirenDeadline: no sound outlives the limit in force.
ImplementsDeadline == Deadline!Spec

-----------------------------------------------------------------------------
(* Liveness *)

\* The siren stops even if loop() never runs again: once nobody presses START by
\* hand, it is silent infinitely often (or was abandoned by begin()/a restart).
SirenStops ==
  <>[][~TestPulse(TRUE)]_vars => []<>(~siren \/ stray)

-----------------------------------------------------------------------------
(* What the comments and documents say, and the code does not do *)

\* RelayController.h, begin(): "a siren latched ON must be stopped, or it would
\* howl with no deadline armed".  A siren started by the one-relay test is not.
ReconfigureStops ==
  [][(\E l \in Limits : Reconfigure(l)) => (siren' => armed')]_vars
=============================================================================
