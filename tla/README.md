# AirAlert-ESP8266: a TLA+ verification project

AirAlert is an ESP8266 device that polls the Ukrainian air-alert API (or a LAN
proxy of it) and drives a siren through a relay.  This directory holds TLA+
models of the firmware and of the proxy, the TLC runs that check them on small
instances, and TLAPS proofs of the properties that matter most.

A device that makes a dangerous noise has two ways to fail: it is silent when an
alert begins, or it does not fall silent when it must.  The models follow the
way of an alert from the upstream server to the siren and back to silence
(`Proxy`, `PollCycle`, `AlertPipeline`, `Panel`, `RelayController`), and then
what must hold so that the way stays open: saves, restarts, Wi-Fi, updates, the
journal.

Source paths below are those of the repository (`src/main.cpp`,
`lib/core/src/airalert/...`); `PROJECT.json` "map" gives the lines of every
definition, with the repository's root called `src/`.

## 1. The system

The firmware is one cooperative thread, `loop()`, and a few SYS-context timers
(`Ticker`) that fire between any two points where that thread yields.  Handlers
(button, serial console, Web UI) run inside `loop()`.  The proxy is Lua in
nginx: workers that share a dictionary, and one timer.

| Component | State it keeps | Operations | Talks to |
|---|---|---|---|
| Relay layer: `RelayController.h`, `RelayGuard.h` | `on_`, `pulsePin_`, the guard, `asyncTrip_`, `tripEvent_`, two Tickers, the limit, the ring of presses | `begin`, `tick`, `forceOff`, `testPulse`, `emergencyOff`, `endPulse`, `popPress` | pins of the siren; called by `loop()`, mute, relay off, OTA, saves |
| Alert engine: `AlertEngine.{h,cpp}` | per type: state, coverage, locations, confirmation counts; `synced_` | `applySnapshot`, `reset`, `setConfig`, `isHandover` | called by `applyAndNotify()`, returns events |
| Notification engine: `NotificationEngine.h`, `NotificationQueue.h`, `MuteState.h`, `AlertProfiles.h` | queue of signals, the pattern playing, active types, reminders, mute | `onEngineEvent`, `tick`, `mute*`, `unmute`, tests, `stopAll`, `resetAlertState` | fed by events, its answer is the relay request |
| Preexisting alerts: `PreexistingAlerts.h` | the types that were there first | `observe`, `consumeStart` | `applyAndNotify()` |
| Pattern scheduler: `Pattern.h` | step, repeat, start of the step | `start`, `tick`, `stop` | notification engine |
| Main loop: `main.cpp` | `otaInProgress`, poll schedule, 401 streak, clock | `loop`, `doPoll`, `applyAndNotify`, `applyConfig`, `muteNow`, `prepareOta`, `setup`, console | everything |
| Poll cycle: `AlertsClient`, `ApiSnapshotCache`, `SnapshotBuilder`, `ApiHealth`, `BackoffPolicy` | validator, snapshot cache, failure ladder, health | `poll`, `doPoll` | HTTP, the engine |
| Parsing and matching: `AlertsParser.h`, `LocationMatcher` | none | entries to alerts, alerts to coverage | snapshot builder |
| Configuration and persistence: `Config.h`, `ConfigStore.h`, `SecretsStore.h`, `AtomicJsonFile.h` | two JSON files, each with temporary and backup copy, and their copies in RAM | `configFromJson`, `validateConfig`, `write`, `readWithBackup` | set-up, saves, boot |
| Web UI and OTA: `WebUi.{h,cpp}` | sessions, upload state, `rebootAt_` | the HTTP handlers | callbacks into `main.cpp` |
| Wi-Fi: `WifiService.h` | station/portal state, deadlines | `begin`, `tick`, `forget` | main loop |
| Event log: `EventLogStore.h`, `EventLog.h` | two journal files and which is active | `begin`, `log` | everything |
| Buttons, lamps: `ButtonController.h`, `Debouncer.h`, `Indication.h` | debounce state, cached levels | `update`, `tick` | mute, test, LEDs |
| LAN proxy: `proxy/lua/airalert/*.lua` | shared dictionary: alerts, catalogue, stamps | `refresh`, `serve_webhook`, `serve_alerts` | upstream, devices |

### What is hard here

* **Interleaving with timers.** The safety deadline fires while `loop()` is
  blocked, possibly while a button is being pressed; its effect reaches the
  guard only at a later tick.
* **Late or missing ticks.** A TLS poll blocks `loop()` for seconds, an upload
  for minutes.  Whatever stops the siren may not depend on `loop()`.
* **Legal calls in an unusual order.** A config save re-runs `begin()` in the
  middle of a pattern; a one-relay test starts the siren behind the pattern
  layer's back; a client uploads two files in one request, or none.
* **Decisions that age.** A signal is queued by one event and played much later;
  confirmation counts change while they are being counted; a snapshot fetched
  upstream is stored after a later webhook.
* **Small fixed arrays.** Eight events, twelve pending signals, sixteen presses.
* **Failures in sequence.** Power lost in the middle of a save, a save that fails
  after another has succeeded, and a repair that fails too.

`PROJECT.json` "hazards" lists them at their lines, with the properties that
watch them, or the reason why none does.

## 2. Modules

| Module | Models | Used by |
|---|---|---|
| `RelayController` | relay, guard, Tickers, the physical siren, all callers; one action per handler, `LoopTick` for a pass of `loop()` | |
| `SirenDeadline` | abstract specification: every sound ends by its deadline | refined by `RelayController` |
| `AlertEngine` | the engine's variables and operations | next two |
| `AlertConfirmation` | the engine with the history of its snapshots | |
| `AlertPipeline` | `applyAndNotify()` and the handlers around it | |
| `NotificationEngine` | queue, mute, preemption, reminders | `AlertPipeline` |
| `PollCycle` | `doPoll()`, the client's validator and cache, builder, health, 401 streak, and what changes them | |
| `AlertMatching` | entries of a body to the engine's snapshot | `Proxy` |
| `Proxy` | upstream polls, webhooks, stamps, filter, conditional answers | |
| `AtomicJsonFile` | `write()`, one LittleFS call per step, power loss, failing calls | `ConfigStore` |
| `Settings` | `Config.h`: JSON, limits, migration, as operators | `ConfigStore` |
| `ConfigStore` | settings in RAM and file between the handlers and the boot | |
| `Timers` | deadlines as time left | next two, `OtaUpdate` |
| `WifiService` | station, portal, radio | `DeviceLifecycle` |
| `DeviceLifecycle` | boots, console, requests that save, the two-file set-up, restarts, the clock | |
| `OtaUpdate` | upload and download, watchdog, staged image | |
| `PatternScheduler` | patterns and their player | `Panel` |
| `Panel` | debouncer, both buttons, player and lamps under late passes | |
| `Journal` | ring of presses, `logRelayPresses()`, the two journal files | |
| `AlertProofs` | theorems about `AlertPipeline` and `AlertConfirmation` | |
| `RelayControllerProofs` | theorems about `RelayController` and `Journal` | |
| other `*Proofs` | theorems about the module of that name; `ConfigStoreProofs` also about `AtomicJsonFile`, `PanelProofs` about the player | |
| `MC*` | constants for TLC | |

Operators named `X_Something`, with a comment that begins "Mutant:", are wrong
variants of `X` (a dropped guard, a missing reset, a swapped order).  Nothing
uses them; each shows that some property would notice that bug.

### Relay layer

`on`, `pulsePin`, `asyncTrip`, `tripEvent`, `limit`, `guardOn`, `guardTripped`
are the fields of those names; `guardAge` is `now - onSince_`; `armed`/`left` and
`pulseLeft` are the two Tickers.  `siren` is the physical horn: with two relays
it latches at START and is released only by STOP; with one relay
(`relay.single`, variable `single`, chosen at the start of a behaviour) it follows
the pin.  `sinceStart` and `stray` are history.

* `LoopTick(req, play)` is `notify.tick()` (any request a playing pattern may
  make), `relay.tick()` and `consumeSafetyTrip()`, which run without a yield in
  one pass.  During OTA `loop()` returns before them.
* `Silence` is `muteNow()`, relay off, and a change of locations, which all force
  the relay off and stop the patterns.  `Reconfigure` is `applyConfig()`.
* `TestPulse` is the one-relay commissioning test, refused while a pattern plays.
* `FinishFailedOta` needs no OTA in progress: an upload aborted before it was
  accepted calls it as well.
* `Restart` covers `ESP.restart()`, a crash and the OTA watchdog.
* `EmergencyOff`, `EndPulse` are the Ticker callbacks; `Elapse` is one unit of
  time and may not pass a due Ticker, since the SYS context is not blocked by
  `loop()`.  `loop()` itself may be arbitrarily late.

`cut` is history: the deadline has stopped the siren and no pass of `loop()` has
come since; `logged` says whether the last pass wrote RELAY_SAFETY_TRIP.
`CutToldOnce` compares the two.  `ForgetTrip`, in `forceOff()` and `begin()`, clears
the pending entry with the trip, so `cut` ends with it; that loss is listed under
"Known disagreements".

The ring of presses is in `Journal`.  The gate that keeps a poll from starting
while the relay is on only restricts when a pass is long, and is left out.

### From snapshot to signal

A snapshot says of every type its coverage and how many selected locations match
(what `SnapshotBuilder` hands over).  `StepIdle` and `StepActive` are the two arms
of the switch in `applySnapshot()`: each gives a type's new status and, where the
code has one, the `push()` calls made on the way.  `Batch` is what the array keeps
of them, in type order: at most `MaxEvents` events (8 in `applyAndNotify()`), the
rest is dropped.  `missed` remembers the types whose last start or end was among
the rest, for those are the types `activeMask_` is wrong about.

`AlertPipeline.Poll` is the whole of `applyAndNotify()`: `observe`,
`applySnapshot`, and for each event `consumeStart`, the partial and hand-over
rules, and `onEngineEvent`.  It is the last thing in a pass of `loop()`, so a
`Tick` precedes it (`ticked`).  `notify.queue` is kept in the order `pop()` would
choose.  Time enters only as what the code asks of it: which reminders are due,
whether the pattern has finished, whether the snooze is over; these are free
choices, so every timing is included.  Patterns are reduced to whether they can
sound; `Panel` plays them.  `policy` is all that `applyConfig()` hands to the
notifier (`setProfile`, `setConfig`, `setMuteConfig`) and what `applyAndNotify()` reads of
the settings; a save (`SaveConfig`, `ChangeLocations`) sets it together with the
confirmation counts and `partialActive`, and touches nothing that is queued or playing.

### The poll cycle

A poll is synchronous, so each of its outcomes is one step: `PollOk`,
`PollBroken` (200 with a body that is no array, breaks off or does not parse),
`PollNotModified`, `PollStrayNotModified`, `PollUnauthorized`, `PollFailed`.
Between polls the source's document changes, the user saves locations, a key or
an address, and the device restarts.  A document is a source, a version and the
locations it was built for; its version is its Last-Modified stamp, so two
sources can have equal stamps and a stamp does not depend on the locations.
`built` is what the builder holds, `Half` after a body that broke off; `view` is
`activeView`; `applied` is history, the last snapshot the engine was given.
The length of a wait is abstracted to "for a while".

### The proxy

One dictionary, written under a lock and read without: `Store` writes the body,
`Stamp` the `changed_at` that follows it, so a device may be served between the
two; `ServeStamp` is the first read of an answer, and `ServeBody` or `ServeDecoded` the
second.  A filtered answer is made from what the worker has decoded (`cache`), if
the `changed_at` it goes by is still the dictionary's; otherwise the worker decodes
again.  `decoded()` reads `changed_at` and then the body; the model reads both in one
step.  Between them a `Stamp` may come, and the worker would keep the new body
under the old stamp; but stamps only grow, so that stamp is never read again and
the entry is dead.  The parents a worker has at the first read serve the second.
`ServeOther` is a request of another device that fills a worker's copy.  `flights` are
upstream requests: their answer shows the world at the time of the request and
may arrive after a webhook about a later change.  Events may be lost, late or
overtaken.  `Select`, `ApplyEvent` and `NextStamp` are the functions of
`state.lua`.  An alert is a region, a type and a set of levels; an event sets the
levels of the alert of its region and type, in every copy, or ends it.  Bodies keep the alerts an entry repeats of its ancestors.
`Picture` puts an answer through `AlertMatching`, so a filter is judged by what a
device makes of its answer and not by its text.  Left out: tokens, signatures,
statistics, a restart of nginx.

### Settings and files

`AtomicJsonFile` has one action per LittleFS call of `write()`.  A call may fail
and power may go between two calls; a rename is atomic, which is LittleFS's
contract.  `stored` is what the device last knew to be on the disk.
`ConfigStore` runs it between a PUT (parsed over a copy, validated, written,
then used) and a boot (`load()`), with `Settings` for the conversions: widths of
integers, 10 ms rounding, limits, old and newer schemas, the type and the three
numbers of a location.  Fields the code treats
alike are one function from names to values, whose table (`Numbers`) gives each
its limits and the size of its type.  `Documents` are all JSON documents with
these keys, each value absent, of the wrong type or any of its type; `AppConfigs` is
what `AppConfig` can hold.

`DeviceLifecycle` takes an atomic save as one step and goes on to what there is
of them: credentials, keys and password in one file, everything else (a name)
in the other, both of them in RAM.  A pass of `loop()` is console commands,
`wifi.tick()`, at most one request, the check of `rebootAt_`.  `SetupConfig`,
`SetupSecrets` and `SetupRestore` are `handleSetup()`'s two saves and its repair.
`WifiService` has an action-like operator for every branch of `tick()`;
`Associate` and `LoseLink` are the router's.

### Updates

`handleClient()` stays inside a request until its body has been read, so `at`
says where in a request `loop()` is.  The upload callback is `StartUpload`,
`RefuseUpload`, `UploadWrite` and the two ends; the final handler answers by the
flags they left and by `Update.hasError()` (`error`).  `staged` is the image the
bootloader will install.  There is one staging area: `Overwrite` damages the image
of an earlier update that waits for its restart, and `over` remembers that an update
was begun over one.  `UpdateBegins`, `UpdateRefuses`, `Overwrite` and `Take` are the
library's `Update` object, as its callers use it.

### Panel and journal

`Panel` looks at both buttons, ticks the pattern and writes the lamps in one
`Pass`, with any time of `Gaps` between two passes; a finger comes and goes
meanwhile.  `played` is history: what the pattern, read step by step
(`Tones`, `Sounds`, `Over`), says for that moment is what the siren must do.
`Advance` is the loop of `tick()`, which may pass many steps at once; it is a
function of how often the loop has turned, and turns at most once per unit of
time that has passed.  `Lights` takes the alert, the mute and the relay's state as
they may be: they are other modules'.  The levels of the two pins are kept apart from the caches
that decide whether they are written.

`Journal` gives every press and every record a number; a file is the records in it
and its size.  The Ticker may press between any two calls of `popPress()`.  A
record is appended, torn by a failing write, or lost; a rotation removes the older
file, which may fail.  A torn record has no newline: the next one goes on in its
line, and the page, which cannot parse such a line, shows it as it is (`Glued`).  `Journal` and `AlertConfirmation` prefix their standard
names (`JournalInit`, `ConfirmInv`), since they share a module of proofs with
another specification.

## 3. Runs

`tlc -config <cfg> <module>`; all runs together take about ten minutes with two
workers; `proxy` (1.3 million states) and `pipeline` (0.4 million) take most of it.

| Run | Question | Bounds |
|---|---|---|
| relay | is every siren stopped in time under every interleaving, with both wirings, and is a cut told of once? | limits {3, 5}, press 2, ages to 6 |
| engine | do starts and ends happen exactly when confirmed? | 2 types, counts 1 to 3, 3 configurations, 4 inputs per type |
| pipeline | does a batch tell of every change, is what plays consistent with what is active, muted and new, does a start get its turn? | 2 types, of which one has reminders, batch and queue of 2, 2 settings, with and without mute-all |
| poll | does the engine only get whole bodies of its own source and locations, and in the end the present one? | 2 sources, 2 selections, versions 0 to 2, bad key at 3, streak to 5 |
| proxy | is a 304 true, does a filter lose nothing, do snapshots repair what webhooks missed? | an oblast and its raion, 2 types, 2 levels, 3 events, 2 changes, 2 seconds, one worker, one request in flight |
| json_file | is a PUT all or nothing, exact, and what the next boot reads? | 16 bodies and 5 lists at the limits, 2 old files, one fault at a time |
| lifecycle | do RAM and disk stay in step, does the device find back to the router or the portal? | 2 networks, 2 keys, 2 names, delays of 1 and 2 |
| ota | is a damaged image staged only where an update was begun over a waiting one, is an update always ended? | watchdog of 2, restart after 1 |
| panel | does the siren follow the pattern, is a hold answered once, do the lamps show it? | 4 patterns, debounce 1, long press 2, passes 1 or 3 units apart |
| journal | are presses logged in order, does the page show an unbroken tail, each record in its line? | ring of 2, files of 3 bytes, records of 1 or 2, 4 presses, 5 records |
| relay_reconfigure, journal_loss | see "Known disagreements" | as relay, journal |

Why the bounds are enough.  *Relay*: behaviour depends on the order in which
the press, the deadline and a shortened or lengthened deadline expire; limits 3
and 5 with a press of 2 give every order, including a change refused because a
button is down and a deadline that fires during a press.  Ages saturate at 6,
above every limit.  *Engine*: types do not interact in the engine, two suffice
to show it; three configurations raise and lower both counts in mid-count and
flip the partial rule.  *Pipeline*: two types are needed for hand-over, priority
and mute of one among several; a queue of two is full at once, so the overflow
branch is taken; so is the batch, by two active types with two changes each; the two settings differ
in everything a save may change between a push and its turn: the counts, the partial
rule, the priorities, the patterns that sound, the transition policy and mute-all.
*Poll cycle*: two sources with the same stamps and two
selections are what a stale validator can confuse; two changes let a document
change twice between polls; the streak passes the limit of a bad key by two
before it saturates (15 and 255 in the code).  *Proxy*: an alert changes its level while copies of it are in two entries,
and another type begins beside it; two changes in two seconds fall into one or two
seconds, and an answer can arrive after a webhook.  `StaleAfter` is 0, so a device is
answered in the second of a snapshot only, and no catalogue is seeded, so one arrives
in mid-run or never.  `MaxTime`, `MaxChanges` and `MaxFlights` cut behaviours short: with one
upstream request at a time an answer overtaken by another answer is not explored by
the run (the theorems have no such bound), and one worker suffices because a
second one only reads what `ServeOther` lets the first read for another device.
*Files*: the documents are the boundary values of every kind of field.
*Lifecycle*: an old and a new value of each secret tell what a boot finds.
*Journal*: five records turn the files over more than once.

### Known disagreements

Two runs check one sentence of the repository each and find it violated;
`PROJECT.json` "findings" quotes it.

* `relay_reconfigure`: `begin()` says that a latched siren must be stopped, or it
  would howl with no deadline; a save after a one-relay START detaches the
  deadline and presses nothing, because the test does not set `on_`.
* `journal_loss`: the ring of presses counts what it loses so that the journal
  can tell; `logRelayPresses()` lets every call of `popPress()` overwrite the
  count of the one before, so it never does.

Further disagreements were met while modelling.  They have no run of their own;
the properties that pass are stated so that they hold in spite of them.

* `forceOff()` and `begin()` clear a pending RELAY_SAFETY_TRIP (RelayController.h:47-49,
  85-87): a mute, relay off, save, change of locations or update between the
  deadline's cut and the next pass of `loop()` keeps it out of the journal, which
  TROUBLESHOOTING.md and COMMISSIONING.md read the cut from.  `CutToldOnce` is stated for
  passes of `loop()` with none of these in between.
* A START of an upload whose session has expired arms no watchdog (WebUi.cpp:553-556),
  and its body is read all the same: a client that then goes silent holds `loop()` up
  for ever, the very case for which main.cpp:100-104 introduces the watchdog.  The
  siren can still be stopped by its deadline, but polls and buttons are dead.
  `OtaEnds` names it (`HeldByRefused`).
* An update begun in the half second before the restart of an earlier one writes
  over its image, and an aborted one leaves it there, broken: main.cpp:104-106 argues
  that an unfinished update only touches the staging area.  `StagedIsWhole` names the
  exception (`over`).  Whether the bootloader would take such an image is the
  library's matter; the model lets it.
* A download that is complete but has the wrong digest is ended by `Update.end()`,
  which may take a complete image: no restart is asked for, but the next one may
  install it (`staged = "unverified"`).
* A save that turns mute-all on under a mute lets a pattern of a type the mute had let
  through play to its end, and one that disables a type leaves its queued start
  queued: `SetPolicy` touches neither.  `MutedTypesSilent` names the first.
* What is journalled after a torn record shares its line, and the page shows that
  line raw (index.html:450-453).
* The cut of a test siren while `loop()` is blocked is charged to the first tick
  of the next alert's pattern; TROUBLESHOOTING.md says of RELAY_SAFETY_TRIP that
  the pattern asked for too long.
* `applyAndNotify()` has room for eight events, four active types with two
  changes each fill it, and the start of a fifth is never made up for, though
  `activeMask_` is documented as a bit per active type.  `BatchAnnounces` and
  `FollowsEngine` say exactly which events go and which types are then wrong.
* The until-clear mute ends in the middle of a batch that hands over to a later
  type, although not all alerts have ended (MuteState.h).
* An all-clear that was queued behind a playing pattern sounds after another
  alert's start; CONFIGURATION.md says that it is silent while another lasts.
* Power lost in the write that follows an interrupted one leaves neither file:
  `write()` removes the only backup before its own rename.  `CrashIsAtomic` is
  stated for one fault at a time.
* The stamp of a filtered answer is the later of the alerts' and the catalogue's.
  A change in the second of the catalogue's stamp earns a device a 304 although
  its part has changed, until the next change; `state.lua` says that two changes
  within a second must differ.  `NotModifiedIsTrue` is stated for a catalogue
  whose stamp is behind the alerts'.
* `EventLogStore::begin()` takes the smaller file for the active one, which is
  wrong when the active file has outgrown the other, and a failed removal turns
  `active_` nevertheless: the page then shows the files in the wrong order, or
  loses newer records first.  `NewestInOrder` is stated for the rest (`misled`).
* HARDWARE.md promises a STOP press at every boot; `setup()` gives none.
* A legacy `on_ms` of 1 to 4 is rounded to no step at all and accepted, though
  `configFromJson` promises that invalid values fail.
* After a blocked `loop()` the long press is reported for a button that has been
  let go already (`Debouncer::update` looks at the debounced level).
* The console's line buffer takes 160 characters, an API token up to 256.
* The streak of 401 answers "in a row" is not ended by failures of other kinds.

### Fairness

* `RelayController`: time and the two Ticker callbacks, which the SDK runs in SYS
  context; `loop()` gets none, so `SirenStops` holds even for a `loop()` that
  never returns.  It assumes that somebody eventually stops pressing START.
* `AlertPipeline`: a tick in which the pattern being played, if any, is found
  finished; `loop()` goes on ticking and patterns have finitely many steps.
  `StartsGetTheirTurn` assumes that polls and handlers stop interfering;
  reminders go on falling due for ever.
* `PollCycle`: the passing of time, and a poll that is due and is answered.
  `CatchesUp` assumes that from some time on nothing else happens.
* `DeviceLifecycle`: the steps of `loop()`, time, and a router and a time server
  that answer a station with the right credentials.  `Reconnects` assumes that
  the user and the router have come to rest (`Calm`), `ForgetOpensPortal` only
  that nobody forgets again and again.
* `OtaUpdate`: time, the watchdog, the restart that was asked for, and the server's
  own answer at the end of a request.  Nothing is assumed of clients, refused or
  not, nor of the server of an image: each may go silent for ever.
* `Proxy`: the timer of `refresh()`, the second write of a store, the end of an
  upstream request one way or another; and, strongly, an answer to the request
  for the alerts: requests may fail any number of times, but not for ever.  Time
  may stand still, and webhooks owe nothing.  In `Reconciles` the world has
  stopped changing.

`AlertConfirmation`, `ConfigStore`, `Panel` and `Journal` state safety only.

## 4. Proofs

`tlapm <module>`; the theorems hold for every value of the constants that meets
the named assumptions.

**`RelayControllerProofs`** (any set of limits, any press length, both wirings;
limits are positive and below the saturation value `Cap`).  Invariant: types,
`OnHasDeadline`, `StopPulseSilences`, and `CountsDown`: a sounding siren that is
not stray is armed and `sinceStart + left <= limit`.  `DeadlineHolds` alone is
not inductive: it does not say how much time the Ticker has left.
`StopPulseSilences` is needed because `forceOff()` and `emergencyOff()` skip the
press when STOP is already held.  `CutToldOnce` rests on `TripPending`: the entry is
pending exactly as long as there is a cut to tell of, and a trip that the guard has not
taken over is such a cut.  From it follow the invariants and action
properties of the run, that the one-relay wiring leaves nothing stray, and that
the controller implements `SirenDeadline` step by step.

The same module proves the journal (any sizes of ring, files and records; a record
fits a file).  Invariant: the run's (order, no duplicates, no file past its
limit), an empty file has no records (`Sized`), nothing popped or in the ring is newer
than the last press (`RingPast`), and `TurnsKept`: unless a failed removal or a boot has misled the
journal, there is a record such that the older file holds the ones written before
it, from some record on, and the active file those from it on.  `NewestInOrder` alone
is not inductive: it speaks of what the page shows of both files, not of which file
a record is in, and the next rotation removes one of them.  `Turned` keeps the torn
records in their place as well, which is what shows that a whole record shares a
line only with one whose write failed.

**`PollCycleProofs`** (any sources and selections, any number of versions; the
streak may grow past the limit of a bad key).  Invariant: the run's invariants
and `Trust`: a snapshot marked valid is whole, of this source and these
locations and is the one the engine has, and a validator is kept only with such
a snapshot and names its version.  `Trust` is what makes a 304 mean something.

**`AlertProofs`**.  The counting (any number of types, any inputs, any
configurations): types and `CountersCount`, the counters equal the history.
With it `EndsWhenConfirmed` and `StartsWhenConfirmed` are properties of a single
snapshot.  The pipeline (any profiles, mute and transition policies, saved in any
order, and any size of batch and queue besides).  Invariant: types;
`FollowsEngine`; `Sound`, which says of the notifier that its queue is sorted, not
too long and free of duplicates, that a start in it or playing is of a type some
snapshot lacked, that nothing plays whose type was active when a mute was asked
for (`MuteHeard`), and no reminder plays while a start waits; and `Watching`: a type all snapshots have had is active or marked as there
from the start.  `QuietAtBoot` alone is not inductive: the start of an alert that
is still being confirmed is suppressed only because its mark has lasted until
then, through every save in between.  The batch, the delivery of its events and
the reminders that fall due are recursive functions.  `FoldExists` and `Upwards`,
an induction on the index, give what they compute; each operation of the notifier
is then shown once to preserve `Sound`, and a delivery, a mute or a test
follows from that.  `MuteHeard` is what survives a save that widens the mute;
`MutedTypesSilent` follows from it and from `PlayNext`, which asks the policy of the
moment.  `StepPushes` compares the `push()` calls of each arm of `applySnapshot()`
with the change of state it makes; `EventsEntries` finds them again in the
concatenated list, in type order, and with it follow `FollowsEngine` and
`BatchAnnounces`, the types that a full array cuts off included.

**`ConfigStoreProofs`**.  The file (any documents, `MaxFaults = 1`): types and
`Progress`, which says for every program counter which of the three files holds
the stored and the new document and whether the fault has been spent.  The
settings (`Docs = Documents`, so any bodies, any file of an older firmware):
`StoreIInv` adds that the settings in use are what `validateConfig()` takes
(`Usable`), that reading the stored document gives them, and that a handler in the
middle of a write is writing its copy.  The step that matters is `RoundTrip`: what
is valid survives `configToJson`, the file and `configFromJson`, pattern by
pattern, location by location and field by field; `Usable` is needed for it, as settings past the
limits would be narrowed, refused or rounded on the way back.  `AcceptedExact` is the other direction, from a body to the settings, and gives
`PutIsExact` for every kind of field.  `StoreRefinesFile`
shows that the handlers drive the file as `AtomicJsonFile` says, so that what is
proved of the file holds under them.

**`ProxyProofs`** (any tree of regions, any types, levels and events, any regions
asked for, any number of workers, any periods and any number of requests in flight).  Assumed: the catalogue in the device's flash names as oblast and raion
of a region only ancestors it has upstream (`CatalogAssumption`), and devices ask
for regions there are; of the upstream that an alert is a region and a type, and that
its alerts are those there were or an event told of (`Worldly`).  Invariant: types,
`Worldly`; `Agree` (`NothingInvented` and `CopiesAgree`) of the dictionary's body, of
those in flight and of those the workers have decoded; `NotModifiedIsTrue`; `Stamped`:
the stamp a device has, or is about to be answered with, is no later than what the
dictionary says; and `CacheAgrees`: what a worker has decoded under the present stamp
is the present body, unless one is just being written.  Without `Stamped` a later
change could be given the stamp the device already has, without `CacheAgrees` a
device could be sent an old body under it.

**`OtaUpdateProofs`** (any delays).  Invariant: the run's invariants, among them
that an open updater belongs to the request that opened it; that what is
written to an open updater is whole (`OpenIsWhole`); and that an updater open over a
waiting image is on record (`OpenIsOver`).  Without `OpenIsWhole` an upload
could end with an image of which a block is missing; it holds because a block
that cannot be written closes the updater in the same call.  Without `OpenIsOver`
a block could damage a waiting image unnoticed.

**`DeviceLifecycleProofs`** (any delays, names and keys).  Invariant: the AP's
and the files' properties, and that the draft of a set-up between its two files
is the one whose name is saved; without the last, the second file could be
answered for with another name.  The radio and the files are proved apart
(`Radios`, `Copies`, `Agree`) and each step is shown to disturb at most one.

**`PanelProofs`** (any patterns, any debounce and long-press times, any gaps
between two passes).  Assumed of a pattern is what `add()` makes sure of: no step
has no length.  Invariant: types; `PlayerOK`: the current step began when the
pattern says (`Begins`), its repetition is one the pattern has, and an ON step is
left, or else the pattern is over; `HoldOK`, how often the present hold has been
answered, by whether its long press has fired; `LampsOK`, the caches equal the
levels.  `PlaysAsWritten` is not inductive: it says nothing of where the player
is between two ticks.  `InOrder` shows that a step is over when any later one
begins, across repetitions; with it one turn of the loop keeps `Playing`, and the
loop, by induction on its turns, ends in a step that is not over yet, which is
the one the pattern names.

Only model-checked: liveness (`SirenStops`, `StartsGetTheirTurn`, `CatchesUp`,
`Reconnects`, `ForgetOpensPortal`, `OtaEnds`, `Reconciles`), which is out of the
prover's reach.  Every other property of a passing run is a theorem; the two of
the runs that end in a violation are false.  `CrashIsAtomic` and what rests on it
are false for two faults (see "Known disagreements"), hence `MaxFaults = 1`.

## 5. Not modelled

* The location table, certificates, embedded pages and developer tools: data, or
  outside the device.
* Sessions, log-in, password hashes, the AP's own password and the proxy's tokens
  and signatures: they decide who may act, the models let everybody who may.
* HTTP and JSON text, time stamps and the arithmetic of waits and staleness
  (`BackoffPolicy`, `ApiHealth`): the models take every length of a wait.  A
  wrap of `millis()` cannot be seen, since only differences are kept.
* The console's `sim` and status commands, and the pages that only report.
* A change of wiring (`relay.single`) in the middle of a behaviour.

`PROJECT.json` "components" gives the status of each part.
