------------------------------ MODULE Settings ------------------------------
(***************************************************************************)
(* airalert/Config.h: AppConfig, its JSON and its limits, as operators.    *)
(* ConfigStore runs them.                                                  *)
(*                                                                         *)
(* A JSON value that may be missing is a set of at most one element.  An   *)
(* element that is not of the type asked for is Wrong.  Fields the code    *)
(* treats alike are one function; one profile stands for the seven, and    *)
(* one pattern for each profile's three.  A name is its length; a pattern  *)
(* has the code's signed steps, in ms in JSON and in units of 10 ms in     *)
(* AppConfig; a reminder's interval, a whole number of seconds, is that.   *)
(***************************************************************************)
EXTENDS Integers, Sequences, FiniteSets, SequencesExt

CONSTANT Wrong

\* Sizes of the unsigned types; every number of a document is below that of the last.
U8 == 256
U16 == 65536
U32 == 0

\* The unsigned fields, the least and the most validateConfig() takes,
\* and the size of their type
Numbers ==
  [poll_sec   |-> [least |-> 1,    most |-> 600,   size |-> U16],
   stale_sec  |-> [least |-> 30,   most |-> 600,   size |-> U16],
   start_conf |-> [least |-> 1,    most |-> 5,     size |-> U8],
   end_conf   |-> [least |-> 1,    most |-> 10,    size |-> U8],
   quiet      |-> [least |-> 0,    most |-> 2,     size |-> U8],
   max_on_ms  |-> [least |-> 1000, most |-> 60000, size |-> U32],
   test_ms    |-> [least |-> 100,  most |-> 10000, size |-> U16],
   snooze_min |-> [least |-> 1,    most |-> 240,   size |-> U16],
   priority   |-> [least |-> 0,    most |-> 255,   size |-> U8]]

Flags == {"partial_active", "partial_siren", "partial_led", "notify_escalation",
          "notify_additional_location", "reminders_when_stale", "single",
          "active_high", "all_types", "alert_steady", "alert_active_high", "enabled"}

Defaults ==
  [schema |-> 2, name |-> 8,
   num |-> [poll_sec |-> 20, stale_sec |-> 90, start_conf |-> 1, end_conf |-> 2,
            quiet |-> 2, max_on_ms |-> 30000, test_ms |-> 600, snooze_min |-> 15,
            priority |-> 50],
   flag |-> [f \in Flags |-> f \in {"partial_active", "partial_siren", "partial_led",
               "notify_escalation", "active_high", "alert_active_high", "enabled"}],
   locs |-> <<>>,
   interval |-> 900,
   pattern |-> [enabled |-> TRUE, repeat |-> 3, steps |-> <<300, -100>>]]

MaxSelected == 16
MaxSteps == 12
MaxStepMs == 60000
NameSize == 32
MaxInterval == 4294967  \* as many seconds as 32 bits of ms hold

\* A document in which nothing is given
Empty == [schema |-> {}, name |-> {}, num |-> [f \in DOMAIN Numbers |-> {}],
          flag |-> [f \in Flags |-> {}], locs |-> {}, interval |-> {}, pattern |-> {}]

\* Documents and settings
Optional(S) == {v \in SUBSET (S \cup {Wrong}) : \A x, y \in v : x = y}

LocationTypes == {"oblast", "raion", "hromada", "city", "unknown"}
Uids == 0..(U16 - 1)

Locations == [uid : Uids, type : LocationTypes, oblast : Uids, raion : Uids]

JsonLocations ==
  [uid : Optional(Nat), type : LocationTypes, oblast : Optional(Nat), raion : Optional(Nat)]

JsonPatterns ==
  [enabled : Optional(BOOLEAN), repeat : Optional(Nat), steps : Optional(Seq(Int)),
   on_ms : Optional(Nat), off_ms : Optional(Nat)]

Documents ==
  [schema : Optional(Nat), name : Optional(Nat), num : [DOMAIN Numbers -> Optional(Nat)],
   flag : [Flags -> Optional(BOOLEAN)], locs : Optional(Seq(JsonLocations)),
   interval : Optional(Nat), pattern : Optional(JsonPatterns)]

AppConfigs ==
  [schema : Nat, name : Nat, num : [DOMAIN Numbers -> Nat], flag : [Flags -> BOOLEAN],
   locs : Seq(Locations), interval : 0..MaxInterval,
   pattern : [enabled : BOOLEAN, repeat : Nat, steps : Seq(Int)]]

ASSUME WrongAssumption ==
  /\ Wrong \notin Int /\ Wrong \notin BOOLEAN /\ Wrong \notin Seq(Int)
  /\ Wrong \notin Seq(JsonLocations) /\ Wrong \notin JsonPatterns

-----------------------------------------------------------------------------
(* Patterns *)

\* Pattern::add(): rounded to the unit
Units(ms) == (ms + 5) \div 10
ToUnits(ms) == IF ms > 0 THEN Units(ms) ELSE -Units(-ms)
ToMs(units) == 10 * units

\* Pattern::pulses(): a length that rounds to nothing adds no step.
Pulses(on, off) ==
  LET add(u) == IF u = 0 THEN <<>> ELSE <<u>>
  IN  add(Units(on)) \o add(-Units(off))

\* firstMs()
First(p, on) ==
  LET i == SelectInSeq(p.steps, LAMBDA u : (u > 0) = on)
  IN  IF i = 0 THEN 0 ELSE ToMs(IF on THEN p.steps[i] ELSE -p.steps[i])

StepTaken(ms) == ms # Wrong /\ ms \in -MaxStepMs..MaxStepMs /\ ToUnits(ms) # 0

-----------------------------------------------------------------------------
(* Overlaying one value on another *)

Given(v, old) == IF v = {} THEN old ELSE CHOOSE x \in v : TRUE

\* Mutant: what is too wide is narrowed.
Fits_Narrow(v, size) == Wrong \notin v

\* overlayUnsigned(): a number that is one, and fits
Fits(v, size) == Wrong \notin v /\ (size # U32 => \A n \in v : n < size)

Narrowed(n, size) == IF size = U32 THEN n ELSE n % size

Overlay(v, old, size) == IF v = {} THEN old ELSE Narrowed(Given(v, old), size)

PatternTyped(p) ==
  /\ Wrong \notin p.enabled /\ Fits(p.repeat, U8)
  /\ \A s \in p.steps :
       s # Wrong /\ Len(s) <= MaxSteps /\ \A i \in DOMAIN s : StepTaken(s[i])
  /\ p.steps = {} => \A ms \in p.on_ms \cup p.off_ms : ms # Wrong /\ ms <= MaxStepMs

\* patternFromJson(): steps, or the pair of firmware <= 0.9.2
PatternOf(p, old) ==
  [enabled |-> Given(p.enabled, old.enabled),
   repeat |-> Overlay(p.repeat, old.repeat, U8),
   steps |->
     IF p.steps # {} THEN LET s == Given(p.steps, <<>>) IN [i \in DOMAIN s |-> ToUnits(s[i])]
     ELSE IF p.on_ms \cup p.off_ms = {} THEN old.steps
     ELSE Pulses(Given(p.on_ms, First(old, TRUE)), Given(p.off_ms, First(old, FALSE)))]

-----------------------------------------------------------------------------
(* Locations: 0 is a number that is not given *)

LocationOf(l) ==
  [uid |-> Overlay(l.uid, 0, U16), type |-> l.type,
   oblast |-> Overlay(l.oblast, 0, U16), raion |-> Overlay(l.raion, 0, U16)]

LocationsOf(locs) == [i \in DOMAIN locs |-> LocationOf(locs[i])]

Distinct(locs) == \A i, j \in DOMAIN locs : i # j => locs[i].uid # locs[j].uid

LocationTyped(l) ==
  /\ Fits(l.uid, U16) /\ Fits(l.oblast, U16) /\ Fits(l.raion, U16)
  /\ LocationOf(l).uid # 0 /\ l.type # "unknown"

LocationsTyped(locs) ==
  /\ Len(locs) <= MaxSelected
  /\ \A i \in DOMAIN locs : LocationTyped(locs[i])
  /\ Distinct(LocationsOf(locs))

LocationValid(l) ==
  /\ l.uid # 0 /\ l.type # "unknown"
  /\ l.type \in {"raion", "hromada"} => l.oblast # 0
  /\ l.type = "hromada" => l.raion # 0

-----------------------------------------------------------------------------
(* validateConfig(), configToJson(), configFromJson() *)

PatternValid(p) ==
  /\ Len(p.steps) <= MaxSteps /\ p.repeat <= 20
  /\ \A i \in DOMAIN p.steps :
       p.steps[i] # 0 /\ ToMs(p.steps[i]) \in -MaxStepMs..MaxStepMs

Valid(c) ==
  /\ c.schema \in {1, 2}
  /\ c.name \in 1..(NameSize - 1)
  /\ \A f \in DOMAIN Numbers : c.num[f] \in Numbers[f].least..Numbers[f].most
  /\ Len(c.locs) <= MaxSelected
  /\ Distinct(c.locs) /\ \A i \in DOMAIN c.locs : LocationValid(c.locs[i])
  /\ PatternValid(c.pattern)
  /\ c.interval >= 30

\* Mutant: pauses are written as ON steps.
PatternToJson_NoSign(p) ==
  [enabled |-> {p.enabled}, repeat |-> {p.repeat},
   steps |-> {[i \in DOMAIN p.steps |-> IF p.steps[i] > 0 THEN ToMs(p.steps[i])
                                        ELSE ToMs(-p.steps[i])]},
   on_ms |-> {}, off_ms |-> {}]

PatternToJson(p) ==
  [enabled |-> {p.enabled}, repeat |-> {p.repeat},
   steps |-> {[i \in DOMAIN p.steps |-> ToMs(p.steps[i])]},
   on_ms |-> {}, off_ms |-> {}]

LocationToJson(l) ==
  [uid |-> {l.uid}, type |-> l.type, oblast |-> {l.oblast} \ {0}, raion |-> {l.raion} \ {0}]

ConfigToJson(c) ==
  [schema |-> {c.schema}, name |-> {c.name},
   num |-> [f \in DOMAIN Numbers |-> {c.num[f]}],
   flag |-> [f \in Flags |-> {c.flag[f]}],
   locs |-> {[i \in DOMAIN c.locs |-> LocationToJson(c.locs[i])]},
   interval |-> {c.interval},
   pattern |-> {PatternToJson(c.pattern)}]

\* Every value has its type and fits; nothing is compared with its limits yet.
Typed(d) ==
  /\ Fits(d.schema, U8)
  /\ \A n \in d.name : n # Wrong /\ n \in 1..(NameSize - 1)
  /\ \A f \in DOMAIN Numbers : Fits(d.num[f], Numbers[f].size)
  /\ \A f \in Flags : Wrong \notin d.flag[f]
  /\ \A locs \in d.locs : locs # Wrong /\ LocationsTyped(locs)
  /\ \A p \in d.pattern : p # Wrong /\ PatternTyped(p)
  /\ Fits(d.interval, U32) /\ \A n \in d.interval : n <= MaxInterval

Overlaid(d, c) ==
  [schema |-> Overlay(d.schema, c.schema, U8), name |-> Given(d.name, c.name),
   num |-> [f \in DOMAIN Numbers |-> Overlay(d.num[f], c.num[f], Numbers[f].size)],
   flag |-> [f \in Flags |-> Given(d.flag[f], c.flag[f])],
   locs |-> IF d.locs = {} THEN c.locs ELSE LocationsOf(Given(d.locs, <<>>)),
   interval |-> Given(d.interval, c.interval),
   pattern |-> IF d.pattern = {} THEN c.pattern
               ELSE PatternOf(Given(d.pattern, {}), c.pattern)]

\* Schema 1 to 2: only the defaults of its day are lifted.
Migrated(c) ==
  IF c.schema # 1 THEN c
  ELSE [c EXCEPT !.schema = 2,
                 !.num.poll_sec = IF @ = 15 THEN 20 ELSE @,
                 !.num.stale_sec = IF @ = 60 THEN 90 ELSE @]

Accepts(d, c) == Typed(d) /\ Valid(Migrated(Overlaid(d, c)))
ConfigFromJson(d, c) == Migrated(Overlaid(d, c))
=============================================================================
