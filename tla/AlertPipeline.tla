--------------------------- MODULE AlertPipeline ---------------------------
(***************************************************************************)
(* main.cpp applyAndNotify() and the handlers around it: every accepted    *)
(* snapshot goes through PreexistingAlerts, the AlertEngine and, event by  *)
(* event, into the NotificationEngine, which also hears the mute button,   *)
(* the tests, "relay off", OTA and a change of the selected locations.     *)
(***************************************************************************)
EXTENDS AlertEngine

CONSTANTS
  Air,    \* the types of the two air raid colours
  Depth,
  Saves   \* the settings that may be saved, as the engine and the rest see them

VARIABLES
  preexisting,  \* PreexistingAlerts::mask_
  calm,         \* history: types some snapshot lacked since the last sync
  missed,       \* history: types whose last start or end did not fit the array
  ticked,       \* this pass of loop() has called tick(); a poll may follow
  notify,
  policy

INSTANCE NotificationEngine

ASSUME AirAssumption == Air \subseteq Types
ASSUME DepthAssumption == Depth \in Nat \ {0}
ASSUME SavesAssumption == Saves \subseteq [engine : Configs, policy : Policies]

vars == <<engineVars, preexisting, calm, missed, ticked, notify, policy>>

Init ==
  /\ EngineInit
  /\ preexisting = {}
  /\ calm = {}
  /\ missed = {}
  /\ ticked = FALSE
  /\ NotifyInit
  /\ \E s \in Saves : cfg = s.engine /\ policy = s.policy

TypeOK ==
  /\ EngineTypeOK
  /\ preexisting \subseteq Types
  /\ calm \subseteq Types
  /\ missed \subseteq Types
  /\ ticked \in BOOLEAN
  /\ NotifyTypeOK

-----------------------------------------------------------------------------
(* applyAndNotify() *)

\* isHandover(), after the engine has moved to the state new with the batch evs.
IsHandover(ev, evs, new) ==
  \E other \in Types \ {ev.type} :
    /\ policy.quiet = 2 \/ {ev.type, other} \subseteq Air
    /\ \/ ev.kind = "Ended" /\ new[other].state = "Active"
       \/ /\ ev.kind = "Started"
          /\ \/ new[other].state = "Active" /\ new[other].endCount > 0
             \/ Contains(evs, [kind |-> "Ended", type |-> other])

\* Is the event voiced?  Not if the alert was there before the device was
\* watching, not if it is partial and the siren is not for partial alerts,
\* and not if it hands over to or from another threat.
Voiced(ev, evs, new, known) ==
  /\ ~(ev.kind = "Started" /\ ev.type \in known)
  /\ ~(ev.kind = "Started" /\ ~policy.partialSiren /\ new[ev.type].coverage = "Partial")
  /\ ~((ev.kind = "Ended" \/ policy.quiet > 0) /\ IsHandover(ev, evs, new))

\* Mutant: observe() forgets only what the first snapshot lacks.
Observe_FirstOnly(seen) == IF synced THEN {} ELSE seen

\* observe(): the types seen in the first snapshot, until one lacks them.
Observe(seen) == IF synced THEN preexisting \cap seen ELSE seen

\* The events go to the NotificationEngine one by one.
Delivered(evs, new, known) ==
  LET after[i \in 0..Len(evs)] ==
        IF i = 0 THEN notify
        ELSE OnEngineEvent(after[i - 1], evs[i], Voiced(evs[i], evs, new, known))
  IN  after[Len(evs)]

\* The types that have started or ended according to the events.
Changed(evs) == {evs[i].type : i \in {j \in DOMAIN evs : evs[j].kind \in {"Started", "Ended"}}}

\* doPoll() with a snapshot, the last thing in a pass of loop()
Poll(snap) ==
  LET seen  == {t \in Types : Effective(snap[t]) # "None"}
      known == Observe(seen)
      dropped == Changed(Events(snap)) \ Changed(batch')
  IN  /\ ticked
      /\ ticked' = FALSE
      /\ ApplySnapshot(snap)
      /\ preexisting' = {t \in known : ~Contains(batch', [kind |-> "Started", type |-> t])}
      /\ calm' = (IF synced THEN calm ELSE {}) \cup (Types \ seen)
      /\ missed' = ((missed \cup dropped) \ (missed \cap dropped)) \ Changed(batch')
      /\ notify' = Delivered(batch', types', known)
      /\ UNCHANGED policy

-----------------------------------------------------------------------------
(* The other handlers *)

\* What tick() and the handlers that only talk to the NotificationEngine leave
\* alone; the batch was a local of applyAndNotify().
Elsewhere ==
  batch' = <<>> /\ UNCHANGED <<types, synced, cfg, preexisting, calm, missed, policy>>

Tick ==
  /\ \E due \in SUBSET Types, finished, snoozeOver \in BOOLEAN :
       NotifyTick(due, finished, snoozeOver)
  /\ ticked' = TRUE
  /\ Elsewhere

\* The handlers run at the start of a pass, so a tick comes before the next poll.
Handled == ticked' = FALSE

MuteNow ==
  /\ \E scope \in {"UntilClear", "Snooze"} : DoMute(scope)
  /\ Handled
  /\ Elsewhere

UnmuteNow == Unmute /\ Handled /\ Elsewhere

TestNow == ManualTest /\ Handled /\ Elsewhere

\* POST /relay/off and prepareOta()
StopNow == StopAll /\ Handled /\ Elsewhere

\* PUT /config with the selected locations unchanged: applyConfig()
SaveConfig ==
  /\ \E s \in Saves : SetConfig(s.engine) /\ SetPolicy(s.policy)
  /\ Handled
  /\ UNCHANGED <<preexisting, calm, missed>>

\* PUT /config or /locations with other locations: applyConfig(), refreshLocations()
ChangeLocations ==
  /\ \E s \in Saves : cfg' = s.engine /\ policy' = s.policy
  /\ ResetAlertState
  /\ Reset
  /\ calm' = {}
  /\ missed' = {}
  /\ Handled
  /\ UNCHANGED preexisting

\* ESP.restart(): the configuration comes back from flash, nothing else does.
Restart ==
  /\ Reset
  /\ UNCHANGED <<cfg, policy>>
  /\ preexisting' = {}
  /\ calm' = {}
  /\ missed' = {}
  /\ Handled
  /\ notify' = Idle

Next ==
  \/ \E snap \in Snapshots : Poll(snap)
  \/ Tick
  \/ MuteNow
  \/ UnmuteNow
  \/ TestNow
  \/ StopNow
  \/ SaveConfig
  \/ ChangeLocations
  \/ Restart

Spec == Init /\ [][Next]_vars

\* loop() keeps calling tick(), and a pattern being played ends or is stopped.
FinishingTick ==
  /\ ticked' = TRUE
  /\ Elsewhere
  /\ \E due \in SUBSET Types, snoozeOver \in BOOLEAN :
       NotifyTick(due, notify.playing # Nothing, snoozeOver)

FairSpec == Spec /\ WF_vars(FinishingTick)

-----------------------------------------------------------------------------
(* Properties *)

\* What consumes the batch can follow the engine: a start or an end is in it only if
\* the type's state has just changed so, and only if the array is full can a change be
\* missing, of a type that comes after all that the array holds.
BatchAnnounces ==
  [][synced' => \A t \in Types :
       /\ Contains(batch', [kind |-> "Started", type |-> t]) => ~Active(t) /\ Active(t)'
       /\ Contains(batch', [kind |-> "Ended", type |-> t]) => Active(t) /\ ~Active(t)'
       /\ Active(t) # Active(t)' =>
            \/ t \in Changed(batch')
            \/ Len(batch') = MaxEvents /\ \A i \in DOMAIN batch' : batch'[i].type <= t]_<<types, batch>>

\* NotificationEngine's activeMask_ learns of the engine's states only through events.
\* It differs from them for the types whose last start or end was dropped, for no
\* other, and only until the next one that is not.
FollowsEngine == \A t \in Types : t \in notify.active <=> (Active(t) # (t \in missed))

Inv == TypeOK /\ FollowsEngine

\* SPEC 26: an alert that was already there when the device began to watch (a
\* partial one, if partial alerts then counted) is never announced as a start,
\* however many confirmations it takes and however that number changes meanwhile.
QuietAtBoot ==
  \A t \in Types :
    \/ notify.playing = Signal("Start", t)
    \/ Queued(notify.queue, Signal("Start", t))
    => t \in calm

\* The types the mute covers
Covered == {t \in Types : Silenced(notify, t, FALSE)}

\* A signal whose type a mute covers never begins and never plays on, whatever is saved
\* meanwhile.  One thing may play on under a mute: a type the mute let through, when a
\* save makes the mute cover all types.
MutedTypesSilent ==
  [][LET now == notify'.playing
     IN  \/ now \in {Nothing, Test}
         \/ now.type \notin Covered'
         \/ now = notify.playing /\ now.type \notin notify'.muted]_<<notify, policy>>

\* SPEC 47: a start never waits for a reminder to finish.
NoReminderOverStart ==
  ~(/\ notify.playing.signal = "Reminder"
    /\ \E t \in Types : Queued(notify.queue, Signal("Start", t)))

\* Once nothing but tick() happens (all else lowers ticked), every start that was
\* queued has its turn, whatever reminders fall due meanwhile.
StartsGetTheirTurn ==
  <>[]ticked =>
    <>[](\A t \in Types : ~Queued(notify.queue, Signal("Start", t)))

=============================================================================
