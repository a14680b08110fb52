-------------------------- MODULE PatternScheduler --------------------------
(***************************************************************************)
(* Pattern.h: a signal as a sequence of steps, and PatternScheduler, which *)
(* is asked now and then what the siren should do.  A step is its length   *)
(* in units, with the code's sign: positive for ON, negative for a pause.  *)
(* phaseStart_ is kept as the time since it.  Panel runs it.               *)
(***************************************************************************)
EXTENDS Integers, Sequences

CONSTANTS Patterns, TestPattern  \* manualTest()'s

\* add() takes no step of no length; a pattern may have no steps at all.
ASSUME PatternsAssumption ==
  /\ Patterns \subseteq [enabled : BOOLEAN, repeat : Nat, steps : Seq(Int \ {0})]
  /\ TestPattern \in Patterns

VARIABLE sched

Schedulers == [pattern : Patterns, rep : Nat, idx : Nat \ {0}, phase : Nat, running : BOOLEAN]

StepOn(p, i) == p.steps[i] > 0
StepMs(p, i) == IF StepOn(p, i) THEN p.steps[i] ELSE -p.steps[i]
HasOn(p) == \E i \in DOMAIN p.steps : StepOn(p, i)

\* The signal is over once no ON step is left.
SkipSilence(s) ==
  LET more == \/ s.rep + 1 < s.pattern.repeat
              \/ \E i \in s.idx..Len(s.pattern.steps) : StepOn(s.pattern, i)
  IN  [s EXCEPT !.running = @ /\ s.rep < s.pattern.repeat /\ more]

Start(p) ==
  SkipSilence([pattern |-> p, rep |-> 0, idx |-> 1, phase |-> 0,
               running |-> p.enabled /\ p.repeat > 0 /\ HasOn(p)])

Stop(s) == [s EXCEPT !.running = FALSE]

\* Mutant: a step begins when the tick notices it.
NextStep_FromNow(s) ==
  LET last == s.idx = Len(s.pattern.steps)
  IN  SkipSilence([s EXCEPT !.phase = 0, !.idx = IF last THEN 1 ELSE @ + 1,
                            !.rep = IF last THEN @ + 1 ELSE @])

NextStep(s) ==
  LET last == s.idx = Len(s.pattern.steps)
  IN  SkipSilence([s EXCEPT !.phase = @ - StepMs(s.pattern, s.idx),
                            !.idx = IF last THEN 1 ELSE @ + 1,
                            !.rep = IF last THEN @ + 1 ELSE @])

Passed(s) == s.running /\ s.phase >= StepMs(s.pattern, s.idx)

\* tick()'s loop: as many steps as have passed since the last tick.  Each takes a unit
\* of the phase at least.
Advance(s) ==
  LET after[n \in 0..s.phase] ==
        IF n = 0 THEN s
        ELSE LET before == after[n - 1]
             IN  IF Passed(before) THEN NextStep(before) ELSE before
  IN  after[s.phase]

Output(s) == s.running /\ StepOn(s.pattern, s.idx)

-----------------------------------------------------------------------------
(* The reference: what a listener who reads the pattern expects *)

\* When a step is over, from the start of the sequence
Ends(p) ==
  LET upTo[i \in 0..Len(p.steps)] == IF i = 0 THEN 0 ELSE upTo[i - 1] + StepMs(p, i)
  IN  upTo

\* When step i of repetition r begins, from the start of the signal
Begins(p, r, i) == r * Ends(p)[Len(p.steps)] + Ends(p)[i - 1]

\* The ON steps of the signal, as <<begin, end>>
Tones(p) ==
  {<<Begins(p, r, i), Begins(p, r, i) + StepMs(p, i)>> :
     r \in {n \in 0..(p.repeat - 1) : p.enabled}, i \in {n \in DOMAIN p.steps : StepOn(p, n)}}

Sounds(p, t) == \E tone \in Tones(p) : tone[1] <= t /\ t < tone[2]
Over(p, t) == \A tone \in Tones(p) : tone[2] <= t
=============================================================================
