------------------------- MODULE NotificationEngine -------------------------
(***************************************************************************)
(* NotificationEngine.h with the NotificationQueue and MuteState it owns:  *)
(* which siren signal plays next.  Time is abstracted to what the code     *)
(* asks of it: whether a reminder is due, whether the pattern being played *)
(* has finished, whether the snooze is over.  A pattern is reduced to      *)
(* whether it can sound at all (enabled, with an ON step).                 *)
(*                                                                         *)
(* notify.playing is current_ while playing_, and Nothing otherwise.       *)
(* notify.queue is kept in the order pop() would choose: by rank, then by  *)
(* the profile's priority when it was pushed, then first in first out.     *)
(* MuteState's CurrentPattern scope is never entered and is left out.      *)
(***************************************************************************)
EXTENDS Naturals, Sequences, SequencesExt

CONSTANTS
  NTypes,  \* kAlertTypeCount
  Depth    \* kDepth

VARIABLES
  notify,  \* [queue, playing, active, scope, muted]
  policy   \* profiles_, cfg_ and MuteState::cfg_, as applyConfig() last set them

NoType == 0
Test == [signal |-> "ManualTest", type |-> NoType]
Nothing == [signal |-> "Nothing", type |-> NoType]
Notifications ==
  [signal : {"Start", "Escalation", "Reminder", "End"}, type : 1..NTypes] \cup {Test}

\* Notification: the priority is the profile's at the time of the push().
Entries == [what : Notifications, priority : Nat]

Policies ==
  [enabled : SUBSET (1..NTypes),         \* the types whose profile is enabled ...
   reminding : SUBSET (1..NTypes),       \* ... and whose reminder is
   soundless : SUBSET ({"Start", "Escalation", "Reminder", "End"} \X (1..NTypes)),
                                         \* the patterns that cannot sound
   priority : [1..NTypes -> Nat],
   escalation : BOOLEAN, location : BOOLEAN,
   muteAll : BOOLEAN,
   quiet : 0..2, partialSiren : BOOLEAN] \* what applyAndNotify() reads itself

NotifyStates ==
  [queue : Seq(Entries), playing : Notifications \cup {Nothing},
   active : SUBSET (1..NTypes), scope : {"None", "UntilClear", "Snooze"},
   muted : SUBSET (1..NTypes)]

NotifyTypeOK ==
  /\ notify \in NotifyStates
  /\ Len(notify.queue) <= Depth
  /\ \A i, j \in DOMAIN notify.queue :
       notify.queue[i].what = notify.queue[j].what => i = j
  /\ policy \in Policies

Idle == [queue |-> <<>>, playing |-> Nothing,
         active |-> {}, scope |-> "None", muted |-> {}]

NotifyInit == notify = Idle

-----------------------------------------------------------------------------
(* NotificationQueue *)

\* Mutant: a reminder is as urgent as a start.
Rank_ReminderUrgent(n) ==
  CASE n.signal = "ManualTest" -> 4
    [] n.signal \in {"Start", "Escalation", "Reminder"} -> 3
    [] n.signal = "End" -> 2

Rank(n) ==
  CASE n.signal = "ManualTest" -> 4
    [] n.signal \in {"Start", "Escalation"} -> 3
    [] n.signal = "End" -> 2
    [] n.signal = "Reminder" -> 1

\* better(), without the FIFO tie-break
Better(a, b) ==
  \/ Rank(a.what) > Rank(b.what)
  \/ Rank(a.what) = Rank(b.what) /\ a.priority > b.priority

Queued(q, n) == \E i \in DOMAIN q : q[i].what = n

\* push(): coalesce, drop on overflow, otherwise queue behind its equals.
Push(q, e) ==
  LET worse == SelectInSeq(q, LAMBDA m : Better(e, m))
  IN  IF Queued(q, e.what) \/ Len(q) >= Depth THEN q
      ELSE InsertAt(q, IF worse = 0 THEN Len(q) + 1 ELSE worse, e)

-----------------------------------------------------------------------------
(* onEngineEvent() *)

Signal(s, t) == [signal |-> s, type |-> t]

Entry(s, t) == [what |-> Signal(s, t), priority |-> policy.priority[t]]

QueueIf(n, wanted, s, t) ==
  IF wanted /\ t \in policy.enabled THEN [n EXCEPT !.queue = Push(@, Entry(s, t))] ELSE n

\* Mutant: nothing is preempted.
OnStarted_NoPreemption(n, t, voiced) ==
  QueueIf([n EXCEPT !.active = @ \cup {t}], voiced, "Start", t)

\* Mutant: only what is announced counts as active.
OnStarted_SilentUncounted(n, t, voiced) ==
  LET m == QueueIf([n EXCEPT !.active = @ \cup {t}], voiced, "Start", t)
  IN  IF ~voiced THEN n
      ELSE IF t \in policy.enabled /\ n.playing.signal = "Reminder"
      THEN [m EXCEPT !.playing = Nothing]
      ELSE m

\* A Start stops the reminder being played; nothing else is ever preempted.
OnStarted(n, t, voiced) ==
  LET m == QueueIf([n EXCEPT !.active = @ \cup {t}], voiced, "Start", t)
  IN  IF voiced /\ t \in policy.enabled /\ n.playing.signal = "Reminder"
      THEN [m EXCEPT !.playing = Nothing]
      ELSE m

\* The mute until clear expires when the last active type ends.
OnEnded(n, t, voiced) ==
  LET m == QueueIf([n EXCEPT !.active = @ \ {t}], voiced, "End", t)
  IN  IF m.active = {} /\ m.scope = "UntilClear"
      THEN [m EXCEPT !.scope = "None", !.muted = {}]
      ELSE m

OnEngineEvent(n, ev, voiced) ==
  CASE ev.kind = "Started" -> OnStarted(n, ev.type, voiced)
    [] ev.kind = "Ended" -> OnEnded(n, ev.type, voiced)
    [] ev.kind = "Escalated" -> QueueIf(n, policy.escalation, "Escalation", ev.type)
    [] ev.kind = "LocationAdded" -> QueueIf(n, policy.location, "Escalation", ev.type)
    [] ev.kind = "CoverageReduced" -> n

-----------------------------------------------------------------------------
(* tick() *)

\* shouldSilence(), once the snooze has or has not run out.
Silenced(n, t, snoozeOver) ==
  /\ n.scope # "None"
  /\ ~(n.scope = "Snooze" /\ snoozeOver)
  /\ policy.muteAll \/ t \in n.muted

\* The reminders due now are pushed in type order.
PushReminders(q, due) ==
  LET after[t \in 0..NTypes] ==
        IF t = 0 THEN q
        ELSE IF t \in due THEN Push(after[t - 1], Entry("Reminder", t)) ELSE after[t - 1]
  IN  after[NTypes]

\* The pop loop: silenced and soundless signals are thrown away until one can
\* play; looking at a signal after the snooze has run out ends the mute.
PlayNext(n, snoozeOver) ==
  LET sounds(e) == /\ <<e.what.signal, e.what.type>> \notin policy.soundless
                   /\ e.what = Test \/ ~Silenced(n, e.what.type, snoozeOver)
      first  == SelectInSeq(n.queue, sounds)
      popped == IF first = 0 THEN Len(n.queue) ELSE first
      wakes  == /\ n.scope = "Snooze" /\ snoozeOver
                /\ \E i \in 1..popped : n.queue[i].what # Test
  IN  [n EXCEPT !.queue = SubSeq(n.queue, popped + 1, Len(n.queue)),
                !.playing = IF first = 0 THEN Nothing ELSE n.queue[first].what,
                !.scope = IF wakes THEN "None" ELSE @,
                !.muted = IF wakes THEN {} ELSE @]

NotifyTick(due, finished, snoozeOver) ==
  LET n == [notify EXCEPT !.queue = PushReminders(@, due)]
  IN  /\ due \subseteq notify.active \cap policy.enabled \cap policy.reminding
      /\ finished => notify.playing # Nothing
      /\ snoozeOver => notify.scope = "Snooze"
      /\ notify' = CASE notify.playing = Nothing -> PlayNext(n, snoozeOver)
                     [] finished -> [n EXCEPT !.playing = Nothing]
                     [] OTHER -> n

-----------------------------------------------------------------------------
(* The other entry points *)

\* Mutant: mute() forgets that a pattern is playing.
DoMute_KeepsPlaying(scope) ==
  notify' = [notify EXCEPT !.queue = <<>>, !.scope = scope, !.muted = notify.active]

\* muteShort() and muteLong()
DoMute(scope) ==
  notify' = [notify EXCEPT !.queue = <<>>, !.playing = Nothing,
                           !.scope = scope, !.muted = notify.active]

Unmute == notify' = [notify EXCEPT !.scope = "None", !.muted = {}]

\* manualTest(), playTest()
ManualTest == notify' = [notify EXCEPT !.queue = Push(@, [what |-> Test, priority |-> 255])]

StopAll == notify' = [notify EXCEPT !.queue = <<>>, !.playing = Nothing]

\* setProfile(), setConfig(), setMuteConfig(): what is queued or playing is left alone.
SetPolicy(p) == policy' = p /\ UNCHANGED notify

\* resetAlertState(): a snooze survives it, a mute until clear does not.
ResetAlertState ==
  notify' = [notify EXCEPT !.queue = <<>>, !.playing = Nothing, !.active = {},
                           !.scope = IF @ = "UntilClear" THEN "None" ELSE @,
                           !.muted = IF notify.scope = "UntilClear" THEN {} ELSE @]
=============================================================================
