----------------------------- MODULE ConfigStore -----------------------------
(***************************************************************************)
(* config/ConfigStore.h between the handlers that change the settings and  *)
(* the file they are kept in: a PUT is laid over a copy of the settings,   *)
(* validated, written (AtomicJsonFile, call by call) and only then used;   *)
(* a boot reads the file.                                                  *)
(***************************************************************************)
EXTENDS AtomicJsonFile, Settings

CONSTANTS
  Bodies,         \* the bodies of PUT config
  LocationLists,  \* the lists of PUT locations
  OldFiles        \* what config.json may hold at the first boot of this firmware

ASSUME BodiesAssumption ==
  Bodies \subseteq Documents /\ OldFiles \subseteq Documents /\ LocationLists \subseteq Seq(JsonLocations)

VARIABLES
  appCfg,  \* appCfg
  next,    \* the handler's copy
  body     \* the body it is answering, or Empty

store == <<files, pc, doc, had, stored, faults>>
settings == <<appCfg, next, body>>

\* load(): a file that is not accepted leaves the defaults.
Loaded(file) ==
  IF file # Absent /\ Accepts(file, Defaults) THEN ConfigFromJson(file, Defaults)
  ELSE Defaults

StoreInit ==
  /\ path \in OldFiles \cup {Absent}
  /\ tmp = Absent /\ bak = Absent
  /\ pc = "Idle" /\ doc = ConfigToJson(Defaults) /\ had = FALSE
  /\ stored = path /\ faults = 0
  /\ appCfg = Loaded(path) /\ next = appCfg /\ body = Empty

\* handleConfigPut() up to save(), which validates once more; a body that is not
\* accepted is answered 422 and nothing changes.
PutConfig(b) ==
  /\ Accepts(b, appCfg)
  /\ next' = ConfigFromJson(b, appCfg) /\ Valid(next')
  /\ Save(ConfigToJson(next'))
  /\ body' = b /\ UNCHANGED appCfg

\* handleLocationsPut(): the same for the list alone, which must not be empty.
PutLocations(locs) == locs # <<>> /\ PutConfig([Empty EXCEPT !.locs = {locs}])

\* save() has answered: 200 and the new settings, or 500 and the old.
Return ==
  /\ appCfg' = (IF pc = "Cleanup" THEN next ELSE appCfg)
  /\ body' = Empty /\ UNCHANGED next

Write ==
  /\ \/ Open \/ Serialize \/ Check \/ DropBackup \/ KeepCurrent
     \/ Rename \/ Restore \/ Cleanup
  /\ IF pc' = "Idle" THEN Return ELSE UNCHANGED settings

Boot == appCfg' = Loaded(Recovered) /\ body' = Empty /\ UNCHANGED next

StoreNext ==
  \/ \E b \in Bodies : PutConfig(b)
  \/ \E locs \in LocationLists : PutLocations(locs)
  \/ Write
  \/ Crash /\ Boot
  \/ pc = "Idle" /\ Boot /\ UNCHANGED store

StoreSpec == StoreInit /\ [][StoreNext]_<<store, settings>>

-----------------------------------------------------------------------------
(* Properties *)

\* The settings the device runs on are those its next boot will read: what a handler
\* accepts, save() writes and load() takes, to the last field, whatever the body left
\* out, the file of an older firmware lacked or the rounding changed; and a save that
\* failed, or was cut short by a power loss, leaves RAM and file in step.
BootFindsRam == pc = "Idle" => Loaded(Recovered) = appCfg

\* A pair of lengths of firmware <= 0.9.2: the ON step and then the pause, each to the
\* nearest 10 ms.  Only a length below 5 ms leaves none.
PairKept(steps, on, off) ==
  /\ \A i \in DOMAIN steps : /\ steps[i] # 0
                            /\ ToMs(steps[i]) - (IF steps[i] > 0 THEN on ELSE -off) \in -5..5
  /\ \A i, j \in DOMAIN steps : i < j => steps[i] > 0 /\ steps[j] < 0
  /\ on >= 5 => \E i \in DOMAIN steps : steps[i] > 0
  /\ off >= 5 => \E i \in DOMAIN steps : steps[i] < 0

\* What patternFromJson() may make of the steps: a list is kept whole, each step to the
\* nearest 10 ms and never nothing; a pair fills what it lacks from the old pattern.
StepsKept(p, old, steps) ==
  /\ \A s \in p.steps :
       /\ DOMAIN steps = DOMAIN s
       /\ \A i \in DOMAIN s : ToMs(steps[i]) - s[i] \in -5..5 /\ steps[i] # 0
  /\ p.steps \cup p.on_ms \cup p.off_ms = {} => steps = old.steps
  /\ p.steps = {} /\ p.on_ms \cup p.off_ms # {} =>
       PairKept(steps, Given(p.on_ms, First(old, TRUE)), Given(p.off_ms, First(old, FALSE)))

\* Schema 1's own defaults are lifted.
Lifted(b, f, n) ==
  IF b.schema # {1} THEN n
  ELSE CASE f = "poll_sec" /\ n = 15 -> 20
         [] f = "stale_sec" /\ n = 60 -> 90
         [] OTHER -> n

\* The settings r are c with the fields of the body b in their place.
Exact(b, c, r) ==
  /\ Valid(r) /\ r.schema = 2
  /\ r.name = Given(b.name, c.name)
  /\ \A f \in DOMAIN Numbers : r.num[f] = Lifted(b, f, Given(b.num[f], c.num[f]))
  /\ \A f \in Flags : r.flag[f] = Given(b.flag[f], c.flag[f])
  /\ r.interval = Given(b.interval, c.interval)
  /\ b.locs = {} => r.locs = c.locs
  /\ \A locs \in b.locs :
       /\ DOMAIN r.locs = DOMAIN locs
       /\ \A i \in DOMAIN locs : r.locs[i] =
            [uid |-> Given(locs[i].uid, 0), type |-> locs[i].type,
             oblast |-> Given(locs[i].oblast, 0), raion |-> Given(locs[i].raion, 0)]
  /\ b.pattern = {} => r.pattern = c.pattern
  /\ \A p \in b.pattern :
       /\ r.pattern.enabled = Given(p.enabled, c.pattern.enabled)
       /\ r.pattern.repeat = Given(p.repeat, c.pattern.repeat)
       /\ StepsKept(p, c.pattern, r.pattern.steps)

\* A PUT is all or nothing, and nothing in it is narrowed or cut: if it changes the
\* settings at all, every field its body gives has the value given, every other keeps
\* its own, and they are valid.
PutIsExact ==
  [][appCfg' # appCfg /\ body # Empty /\ ~Crash => Exact(body, appCfg, appCfg')]_<<store, settings>>
=============================================================================
