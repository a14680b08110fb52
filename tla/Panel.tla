------------------------------- MODULE Panel -------------------------------
(***************************************************************************)
(* What a person at the device meets: the mute and the test button         *)
(* (Debouncer, ButtonController), the pattern the siren plays, and the two *)
(* lamps (Indication, updateLed()).                                        *)
(*                                                                         *)
(* A pass of loop() looks at both buttons, then ticks the pattern, then    *)
(* writes the lamps.  Any time may go by between two passes: a poll or an  *)
(* upload holds loop() up while a finger comes and goes unseen.  What the  *)
(* alert, the mute, the health and the relay are is the other modules'     *)
(* business: a pass takes any.  Of the queue only the test is kept.  The   *)
(* buttons have a Debouncer each and do not read each other: one of them   *)
(* is followed.                                                            *)
(***************************************************************************)
EXTENDS PatternScheduler

CONSTANTS
  Steady,     \* alert_indicator.steady
  Debounce,   \* debounceMs
  LongPress,  \* longPressMs
  NoTest,     \* no test is waiting
  Gaps        \* the times that may go by between two passes

ASSUME PanelAssumption ==
  /\ Debounce \in Nat \ {0} /\ LongPress \in Nat \ {0} /\ Steady \in BOOLEAN
  /\ NoTest \notin Patterns /\ Gaps \subseteq Nat

VARIABLES
  button,   \* the button that is followed
  finger,   \* its raw level, bounces and all
  deb,      \* its Debouncer
  wanted,   \* NotificationEngine: the test waiting in the queue, or NoTest
  playing,  \* ... whether a pattern is being played
  siren,    \* ... and what tick() answered
  played,   \* history: time since that pattern's start
  ticked,   \* history: nothing has happened since tick()
  lamps,    \* alertAh_, and for each lamp its pin and its cache
  shown,    \* history: what the lamps were last told to show
  answers   \* history: how often the present or last hold was answered

Buttons == {"mute", "test"}
buttons == <<button, finger, deb, answers>>
player == <<sched, wanted, playing, siren, played, ticked>>
light == <<lamps, shown>>
vars == <<buttons, player, light>>

Smaller(a, b) == IF a < b THEN a ELSE b

-----------------------------------------------------------------------------
(* Debouncer.  An age is compared with one bound only, and kept up to it, while *)
(* anything reads it.                                                            *)

Debouncers == [lastRaw : BOOLEAN, stable : BOOLEAN, longFired : BOOLEAN,
               rawAge : 0..Debounce, pressAge : 0..LongPress]

Noticed(d, raw) ==
  IF raw = d.lastRaw THEN d ELSE [d EXCEPT !.lastRaw = raw, !.rawAge = 0]

\* The level has been the new one, at every look, for the debounce time.
Settled(d) == d.lastRaw # d.stable /\ d.rawAge >= Debounce

Due(d) == d.stable /\ ~d.longFired /\ d.pressAge >= LongPress

\* update(): the event, and the Debouncer after it
Event(e) ==
  CASE Settled(e) /\ e.lastRaw -> "Press"
    [] Settled(e) /\ ~e.lastRaw -> "Release"
    [] ~Settled(e) /\ Due(e) -> "LongPress"
    [] OTHER -> "None"

\* Mutant: the long press is forgotten by the time of the release.
Updated_Forgets(e) ==
  CASE Event(e) = "Press" -> [e EXCEPT !.stable = TRUE, !.rawAge = 0]
    [] Event(e) = "Release" -> [e EXCEPT !.stable = FALSE, !.rawAge = 0, !.pressAge = 0]
    [] Event(e) = "LongPress" -> [e EXCEPT !.longFired = TRUE, !.pressAge = 0]
    [] OTHER -> e

Updated(e) ==
  CASE Event(e) = "Press" -> [e EXCEPT !.stable = TRUE, !.rawAge = 0, !.longFired = FALSE]
    [] Event(e) = "Release" -> [e EXCEPT !.stable = FALSE, !.rawAge = 0, !.pressAge = 0]
    [] Event(e) = "LongPress" -> [e EXCEPT !.longFired = TRUE, !.pressAge = 0]
    [] OTHER -> e

Older(d, t) ==
  [d EXCEPT !.rawAge = IF d.lastRaw = d.stable THEN @ ELSE Smaller(@ + t, Debounce),
            !.pressAge = IF d.stable /\ ~d.longFired THEN Smaller(@ + t, LongPress) ELSE @]

\* What loop() does about an event
Answer(e) ==
  CASE Event(e) = "LongPress" -> IF button = "mute" THEN "snooze" ELSE "test"
    [] Event(e) = "Release" /\ button = "mute" /\ ~Updated(e).longFired -> "short"
    [] OTHER -> "nothing"

-----------------------------------------------------------------------------
(* Indication *)

\* For each lamp, a bit
Lamps == [system : BOOLEAN, alert : BOOLEAN]
Dark == [system |-> FALSE, alert |-> FALSE]

\* Mutant: the cache outlives the pin.
Darkened_StaleCache(ah) ==
  [ah |-> ah, cur |-> lamps.cur, pin |-> [system |-> FALSE, alert |-> ~ah]]

\* begin(): re-run by every save.  Both pins are driven dark, and cached so.  The
\* system pin's polarity is fixed, so its level is given as light.
Darkened(ah) ==
  [ah |-> ah, cur |-> Dark, pin |-> [system |-> FALSE, alert |-> ~ah]]

\* writeSys(), writeAlert(): the pin is written only when the cache says it must be.
Written(on) ==
  [lamps EXCEPT
     !.cur = on,
     !.pin = [system |-> IF on.system = lamps.cur.system THEN @.system ELSE on.system,
              alert |-> IF on.alert = lamps.cur.alert THEN @.alert
                        ELSE on.alert = lamps.ah]]

\* What a lamp may be told: blink is where a blinking one is in its cycle.
SystemStates == {sys = "Ok" \/ blink : sys \in {"Ok", "Degraded", "Setup"}, blink \in BOOLEAN}
AlertStates(relayOn) ==
  {view # "None" /\ (Steady \/ (view = "Full" /\ ~muted /\ ~relayOn) \/ blink) :
     view \in {"None", "Partial", "Full"}, muted \in BOOLEAN, blink \in BOOLEAN}

\* What the lamps show to the eye
Lit == [system |-> lamps.pin.system, alert |-> lamps.pin.alert = lamps.ah]

-----------------------------------------------------------------------------
(* NotificationEngine::tick(), with other signals than the test left out *)

NotifyTick(test, silenced) ==
  LET on    == playing /\ ~silenced
      fresh == ~on /\ test # NoTest
      next  == CASE on -> Advance(sched)
                 [] fresh -> Advance(Start(test))
                 [] OTHER -> Stop(sched)
  IN  /\ sched' = next
      /\ playing' = next.running
      /\ siren' = Output(next)
      /\ wanted' = (IF on THEN test ELSE NoTest)
      /\ played' = (IF on THEN played ELSE 0) /\ ticked' = TRUE

-----------------------------------------------------------------------------
(* Actions *)

Init ==
  /\ button \in Buttons /\ finger = FALSE /\ answers = 0
  /\ deb = [lastRaw |-> FALSE, stable |-> FALSE, longFired |-> FALSE,
            rawAge |-> 0, pressAge |-> 0]
  /\ sched = Stop(Start(TestPattern))
  /\ wanted = NoTest /\ playing = FALSE /\ siren = FALSE /\ played = 0 /\ ticked = FALSE
  /\ \E ah \in BOOLEAN :
       lamps = [ah |-> ah, cur |-> Dark, pin |-> [system |-> FALSE, alert |-> ~ah]]
  /\ shown = Dark

\* The button of one pass: a mute stops what plays and empties the queue.
Looks ==
  LET e == Noticed(deb, finger)
      answer == Answer(e)
      muted == answer \in {"short", "snooze"}
  IN  /\ deb' = Updated(e)
      /\ answers' = CASE Event(e) = "Press" -> 0
                       [] answer # "nothing" -> Smaller(answers + 1, 2)
                       [] OTHER -> answers
      /\ NotifyTick(CASE answer = "test" -> TestPattern
                      [] muted -> NoTest
                      [] OTHER -> wanted,
                    muted)

\* updateLed() and Indication::tick(), for every state of health, of the alert and of
\* the relay, which may be cut off, or have its STOP held, while the pattern sounds
Lights ==
  \E relayOn \in BOOLEAN :
    \E on \in [system : SystemStates, alert : AlertStates(relayOn)] :
      lamps' = Written(on) /\ shown' = on

Pass == Looks /\ Lights /\ UNCHANGED <<button, finger>>

\* The web page's preview of a pattern, and its stop
PlayTest(p) ==
  /\ wanted' = p
  /\ UNCHANGED <<buttons, sched, playing, siren, played, ticked, light>>

StopAll ==
  /\ sched' = Stop(sched) /\ playing' = FALSE /\ wanted' = NoTest /\ ticked' = FALSE
  /\ UNCHANGED <<buttons, siren, played, light>>

\* applyConfig(), for what is kept here
SaveConfig(ah) ==
  /\ lamps' = Darkened(ah)
  /\ shown' = Dark
  /\ UNCHANGED <<buttons, player>>

Touch ==
  /\ finger' = ~finger
  /\ UNCHANGED <<button, deb, answers, player, light>>

\* Time goes by; that since a pattern's start is kept till the pattern is over.
Elapse(t) ==
  /\ deb' = Older(deb, t)
  /\ sched' = (IF playing THEN [sched EXCEPT !.phase = @ + t] ELSE sched)
  /\ played' = (IF playing THEN played + t ELSE 0) /\ ticked' = FALSE
  /\ playing => ~Over(sched.pattern, played)
  /\ UNCHANGED <<button, finger, answers, wanted, playing, siren, light>>

Next ==
  \/ Pass
  \/ \E p \in Patterns : PlayTest(p)
  \/ StopAll
  \/ \E ah \in BOOLEAN : SaveConfig(ah)
  \/ Touch
  \/ \E t \in Gaps : Elapse(t)

Spec == Init /\ [][Next]_vars

-----------------------------------------------------------------------------
(* Properties *)

TypeOK ==
  /\ button \in Buttons /\ finger \in BOOLEAN
  /\ deb \in Debouncers
  /\ sched \in Schedulers
  /\ sched.running => sched.idx \in DOMAIN sched.pattern.steps
  /\ answers \in 0..2
  /\ wanted \in Patterns \cup {NoTest}
  /\ playing \in BOOLEAN /\ siren \in BOOLEAN
  /\ lamps \in [ah : BOOLEAN, cur : Lamps, pin : Lamps] /\ shown \in Lamps

\* However coarse the ticks and however late one comes, the siren does what the
\* pattern, read step by step, says for that moment; a pattern that can sound begins,
\* and is over exactly when no ON step is left: a blocked loop() neither stretches
\* nor cuts it.
PlaysAsWritten ==
  /\ [](ticked => /\ siren = (playing /\ Sounds(sched.pattern, played))
                  /\ playing => ~Over(sched.pattern, played))
  /\ [][playing /\ ~playing' /\ ticked' =>
          Over(sched.pattern, played) \/ answers' > answers]_vars
  /\ [][~playing /\ wanted # NoTest /\ wanted' = NoTest /\ ticked' =>
          playing' \/ Over(wanted, 0) \/ answers' > answers]_vars

\* A hold is answered once: the mute button's by the short mute or the snooze, never
\* by both or by neither, the test button's at most by a test.
HoldAnsweredOnce ==
  [][/\ button = "mute" /\ deb.stable /\ ~deb'.stable => answers' = 1
     /\ answers' <= 1]_vars

\* A lamp's pin shows what the last pass told it, whatever saves came before it and
\* whichever way they turned its polarity: no write is skipped on a stale cache.
LampsShow == Lit = shown

Inv == TypeOK /\ LampsShow
=============================================================================
