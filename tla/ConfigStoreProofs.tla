------------------------- MODULE ConfigStoreProofs -------------------------
(***************************************************************************)
(* The settings and their file.                                            *)
(*                                                                         *)
(* First the file alone, one fault at a time: for any set of documents and *)
(* MaxFaults = 1, every write answers truthfully and every boot finds the  *)
(* old document or the new one.                                            *)
(*                                                                         *)
(* Then the settings: what is valid is written as a document that reads    *)
(* back as the same settings; so the device runs on what its next boot     *)
(* will read, for any bodies and any file of an older firmware.            *)
(***************************************************************************)
EXTENDS ConfigStore, SequenceTheorems, WellFoundedInduction, TLAPS

-----------------------------------------------------------------------------
(* AtomicJsonFile *)

\* The boot file is gone and only the backup holds the document.
Exposed == path = Absent /\ bak # Absent

\* Where write() has got to, in terms of what is on the disk.
Untouched == {"Idle", "Open", "Serialize", "Check", "DropBackup"}

Progress ==
  /\ pc \in Untouched =>
       Recovered = stored /\ (Exposed => faults = MaxFaults)
  /\ pc = "Check" => tmp \in {doc, Torn}
  /\ pc \in {"DropBackup", "KeepCurrent", "Rename", "Restore"} => tmp = doc
  /\ pc = "KeepCurrent" => had /\ path # Absent /\ path = stored
  /\ pc = "Rename" =>
       /\ path = Absent
       /\ had => bak # Absent /\ bak = stored
       /\ ~had => faults = MaxFaults \/ (bak = Absent /\ stored = Absent)
  /\ pc = "Restore" => path = Absent /\ bak # Absent /\ bak = stored /\ faults = MaxFaults
  /\ pc = "Cleanup" => path = doc

IInv == TypeOK /\ Progress

-----------------------------------------------------------------------------

LEMMA InitInvariant == Init => IInv
<1> SUFFICES ASSUME Init
             PROVE  IInv
  OBVIOUS
<1>1. TypeOK
  <2>1. had \in BOOLEAN
    BY Zenon DEF Init
  <2>2. QED
    BY <2>1, MaxFaultsAssumption DEF Init, TypeOK, Labels
<1>2. Progress
  BY DEF Init, Progress, Untouched, Recovered, Exposed
<1>3. QED
  BY <1>1, <1>2 DEF IInv

\* What path gets is the temporary file, which Progress says has been read back.
LEMMA StepType == IInv /\ [Next]_vars => TypeOK'
<1> SUFFICES ASSUME TypeOK, Progress, [Next]_vars
             PROVE  TypeOK'
  BY DEF IInv
<1> USE DEF TypeOK, Labels, Goto, Fail, Fault
<1>1. CASE \E d \in Docs : Save(d)
  BY <1>1, MaxFaultsAssumption DEF Save, files
<1>2. CASE Open
  BY <1>2, MaxFaultsAssumption DEF Open
<1>3. CASE Serialize
  BY <1>3, MaxFaultsAssumption DEF Serialize
<1>4. CASE Check
  BY <1>4, MaxFaultsAssumption DEF Check
<1>5. CASE DropBackup
  BY <1>5, MaxFaultsAssumption DEF DropBackup
<1>6. CASE KeepCurrent
  BY <1>6, MaxFaultsAssumption DEF KeepCurrent
<1>7. CASE Rename
  BY <1>7, MaxFaultsAssumption DEF Rename, Progress
<1>8. CASE Restore
  BY <1>8, MaxFaultsAssumption DEF Restore
<1>9. CASE Cleanup
  BY <1>9, MaxFaultsAssumption DEF Cleanup, Succeed
<1>10. CASE Crash
  BY <1>10, MaxFaultsAssumption DEF Crash, Recovered, files
<1>11. CASE UNCHANGED vars
  BY <1>11 DEF vars, files
<1>12. QED
  BY <1>1, <1>2, <1>3, <1>4, <1>5, <1>6, <1>7, <1>8, <1>9, <1>10, <1>11 DEF Next

\* This is where one fault matters: a write that begins exposed has none left,
\* so the step from dropping the only backup to the rename cannot be cut.
LEMMA StepProgress ==
  ASSUME MaxFaults = 1, IInv, [Next]_vars
  PROVE  Progress'
<1>0. TypeOK /\ Progress
  BY DEF IInv
<1>c. Absent \notin Docs /\ Torn \notin Docs /\ Absent # Torn
  BY ContentsAssumption
<1> USE DEF Progress, Untouched, Recovered, Exposed, Goto, Fail, Fault
<1>1. CASE \E d \in Docs : Save(d)
  BY <1>0, <1>1 DEF Save, files
<1>2. CASE Open
  BY <1>0, <1>2 DEF Open
<1>3. CASE Serialize
  BY <1>0, <1>3 DEF Serialize
<1>4. CASE Check
  BY <1>0, <1>4, <1>c DEF Check, TypeOK
<1>5. CASE DropBackup
  <2>1. had' <=> path # Absent
    BY <1>5, Zenon DEF DropBackup
  <2>2. CASE path # Absent
    <3>1. pc' = "KeepCurrent" /\ path' = path /\ stored' = stored /\ tmp' = tmp /\ doc' = doc
      BY <1>5, <2>2 DEF DropBackup
    <3>2. had' /\ path = stored /\ tmp = doc
      BY <1>0, <1>5, <2>1, <2>2 DEF DropBackup
    <3>3. QED
      BY <2>2, <3>1, <3>2
  <2>3. CASE path = Absent
    <3>1. pc' = "Rename" /\ path' = path /\ stored' = stored /\ tmp' = tmp /\ doc' = doc
      BY <1>5, <2>3 DEF DropBackup
    <3>2. faults' = MaxFaults \/ (bak' = Absent /\ stored = Absent)
      BY <1>0, <1>5, <2>3 DEF DropBackup, TypeOK
    <3>3. ~had' /\ tmp = doc
      BY <1>0, <1>5, <2>1, <2>3 DEF DropBackup
    <3>4. QED
      BY <2>3, <3>1, <3>2, <3>3
  <2>4. QED
    BY <2>2, <2>3
<1>6. CASE KeepCurrent
  BY <1>0, <1>6 DEF KeepCurrent
<1>7. CASE Rename
  BY <1>0, <1>7, <1>c DEF Rename, TypeOK
<1>8. CASE Restore
  BY <1>0, <1>8, <1>c DEF Restore, TypeOK
<1>9. CASE Cleanup
  BY <1>0, <1>9, <1>c DEF Cleanup, Succeed, TypeOK
<1>10. CASE Crash
  BY <1>0, <1>10 DEF Crash, TypeOK, files
<1>11. CASE UNCHANGED vars
  BY <1>0, <1>11 DEF vars, files
<1>12. QED
  BY <1>1, <1>2, <1>3, <1>4, <1>5, <1>6, <1>7, <1>8, <1>9, <1>10, <1>11 DEF Next

-----------------------------------------------------------------------------

\* With one fault at a time the disk is where write() believes it is.
THEOREM InvariantHolds ==
  ASSUME MaxFaults = 1
  PROVE  Spec => []IInv
<1>1. Init => IInv
  BY InitInvariant
<1>2. IInv /\ [Next]_vars => IInv'
  BY StepType, StepProgress DEF IInv
<1>3. QED
  BY <1>1, <1>2, PTL DEF Spec

\* One fault at a time: path, the backup and the temporary file never hold
\* anything but whole documents, a torn file at the temporary path excepted.
THEOREM TypeCorrect ==
  ASSUME MaxFaults = 1
  PROVE  Spec => []TypeOK
<1>1. IInv => TypeOK
  BY DEF IInv
<1>2. QED
  BY <1>1, InvariantHolds, PTL

\* One fault at a time: what write() answered is what the next boot reads.
THEOREM AnswersTruthfully ==
  ASSUME MaxFaults = 1
  PROVE  Spec => []AnswerHolds
<1>1. IInv => AnswerHolds
  BY DEF IInv, Progress, Untouched, AnswerHolds
<1>2. QED
  BY <1>1, InvariantHolds, PTL

\* SPEC 89, one fault at a time: losing power anywhere in write() leaves the old
\* document or the new one.
THEOREM PowerLossIsAtomic ==
  ASSUME MaxFaults = 1
  PROVE  Spec => CrashIsAtomic
<1>1. IInv /\ Crash => stored' \in {stored, doc}
  <2> SUFFICES ASSUME TypeOK, Progress, Crash
               PROVE  Recovered \in {stored, doc}
    BY DEF IInv, Crash
  <2>1. CASE pc \in Untouched
    BY <2>1 DEF Progress
  <2>2. CASE pc = "KeepCurrent"
    BY <2>2 DEF Progress, Recovered
  <2>3. CASE pc = "Rename"
    BY <2>3 DEF Progress, Recovered, Crash, Fault, TypeOK
  <2>4. CASE pc = "Restore"
    BY <2>4 DEF Progress, Recovered
  <2>5. CASE pc = "Cleanup"
    BY <2>5, ContentsAssumption DEF Progress, Recovered, TypeOK
  <2>6. QED
    BY <2>1, <2>2, <2>3, <2>4, <2>5 DEF TypeOK, Labels, Untouched
<1>2. QED
  BY <1>1, InvariantHolds, PTL DEF CrashIsAtomic

-----------------------------------------------------------------------------
(* One value laid over another *)

\* A field of a document that is not Wrong: what it gives, or what there was.
LEMMA GivenKnown ==
  ASSUME NEW S, NEW v \in Optional(S), Wrong \notin v, NEW old
  PROVE  /\ v \in SUBSET S
         /\ v = {} => Given(v, old) = old
         /\ v # {} => Given(v, old) \in v
         /\ old \in S => Given(v, old) \in S
         /\ \A x \in v : Given(v, old) = x
<1>1. v \in SUBSET S /\ \A x, y \in v : x = y
  BY DEF Optional
<1>2. v # {} => (CHOOSE x \in v : TRUE) \in v
  OBVIOUS
<1>3. QED
  BY <1>1, <1>2 DEF Given

LEMMA GivenSingle ==
  ASSUME NEW x, NEW old
  PROVE  Given({x}, old) = x
BY DEF Given

LEMMA SingleOptional ==
  ASSUME NEW S, NEW x \in S
  PROVE  {x} \in Optional(S)
BY DEF Optional

\* The table of the unsigned fields: what validateConfig() takes fits the type.
NumberKnown(f) ==
  /\ Numbers[f].size \in {U8, U16, U32}
  /\ Numbers[f].least \in Nat /\ Numbers[f].most \in Nat
  /\ Numbers[f].size # U32 => Numbers[f].most < Numbers[f].size

Taken(n, f) == n \in Numbers[f].least..Numbers[f].most

LEMMA NumbersKnown == \A f \in DOMAIN Numbers : NumberKnown(f) /\ Taken(Defaults.num[f], f)
<1> DEFINE P(f) == NumberKnown(f) /\ Taken(Defaults.num[f], f)
<1> USE DEF NumberKnown, Taken, Numbers, Defaults, U8, U16, U32
<1>1. P("poll_sec")
  OBVIOUS
<1>2. P("stale_sec")
  OBVIOUS
<1>3. P("start_conf")
  OBVIOUS
<1>4. P("end_conf")
  OBVIOUS
<1>5. P("quiet")
  OBVIOUS
<1>6. P("max_on_ms")
  OBVIOUS
<1>7. P("test_ms")
  OBVIOUS
<1>8. P("snooze_min")
  OBVIOUS
<1>9. P("priority")
  OBVIOUS
<1>10. DOMAIN Numbers = {"poll_sec", "stale_sec", "start_conf", "end_conf", "quiet",
                         "max_on_ms", "test_ms", "snooze_min", "priority"}
  OBVIOUS
<1> HIDE DEF P, NumberKnown, Taken, Numbers, Defaults
<1>11. \A f \in DOMAIN Numbers : P(f)
  BY <1>1, <1>2, <1>3, <1>4, <1>5, <1>6, <1>7, <1>8, <1>9, <1>10
<1>12. QED
  BY <1>11 DEF P

\* What is taken is a number that fits.
LEMMA TakenFits ==
  ASSUME NEW f \in DOMAIN Numbers, NEW n, Taken(n, f)
  PROVE  n \in Nat /\ (Numbers[f].size # U32 => n < Numbers[f].size)
<1>1. /\ Numbers[f].least \in Nat /\ Numbers[f].most \in Nat
      /\ Numbers[f].size # U32 => Numbers[f].most < Numbers[f].size
      /\ Numbers[f].size \in Nat
  BY NumbersKnown DEF NumberKnown, U8, U16, U32
<1>2. QED
  BY <1>1 DEF Taken

\* A number that fits its type is not narrowed.
LEMMA NotNarrowed ==
  ASSUME NEW n \in Nat, NEW size \in {U8, U16, U32}, size # U32 => n < size
  PROVE  Narrowed(n, size) = n
<1>1. CASE size = U8
  BY <1>1 DEF Narrowed, U8, U16, U32
<1>2. CASE size = U16
  BY <1>2 DEF Narrowed, U8, U16, U32
<1>3. CASE size = U32
  BY <1>3 DEF Narrowed
<1>4. QED
  BY <1>1, <1>2, <1>3

\* So what overlayUnsigned() takes is taken as it is given.
LEMMA OverlayKnown ==
  ASSUME NEW v \in Optional(Nat), NEW size \in {U8, U16, U32}, Fits(v, size), NEW old
  PROVE  Overlay(v, old, size) = Given(v, old)
<1>1. Wrong \notin v /\ (size # U32 => \A n \in v : n < size)
  BY DEF Fits
<1>2. CASE v = {}
  BY <1>1, <1>2, GivenKnown DEF Overlay
<1>3. CASE v # {}
  <2> DEFINE n == Given(v, old)
  <2>1. n \in v /\ v \in SUBSET Nat
    BY <1>1, <1>3, GivenKnown
  <2>2. Overlay(v, old, size) = Narrowed(n, size)
    BY <1>3 DEF Overlay
  <2> HIDE DEF n
  <2>3. Narrowed(n, size) = n
    BY <1>1, <2>1, NotNarrowed
  <2>4. QED
    BY <2>2, <2>3 DEF n
<1>4. QED
  BY <1>2, <1>3

-----------------------------------------------------------------------------
(* Locations *)

\* One element of a list of locations, its numbers unchanged.
LEMMA LocationKnown ==
  ASSUME NEW l \in JsonLocations, LocationTyped(l)
  PROVE  /\ LocationOf(l) \in Locations
         /\ LocationOf(l) = [uid |-> Given(l.uid, 0), type |-> l.type,
                             oblast |-> Given(l.oblast, 0), raion |-> Given(l.raion, 0)]
<1>1. /\ l.uid \in Optional(Nat) /\ l.oblast \in Optional(Nat) /\ l.raion \in Optional(Nat)
      /\ l.type \in LocationTypes
  BY DEF JsonLocations
<1>2. Fits(l.uid, U16) /\ Fits(l.oblast, U16) /\ Fits(l.raion, U16)
  BY DEF LocationTyped
<1>3. ASSUME NEW v \in Optional(Nat), Fits(v, U16)
      PROVE  Overlay(v, 0, U16) = Given(v, 0) /\ Given(v, 0) \in Uids
  <2>1. Overlay(v, 0, U16) = Given(v, 0)
    BY <1>3, OverlayKnown
  <2>2. Wrong \notin v /\ \A n \in v : n < U16
    BY <1>3 DEF Fits, U16, U32
  <2>3. (v = {} => Given(v, 0) = 0) /\ (v # {} => Given(v, 0) \in v) /\ v \in SUBSET Nat
    BY <2>2, GivenKnown
  <2> DEFINE n == Given(v, 0)
  <2>4. (n = 0 \/ n \in v) /\ 0 < U16
    BY <2>3 DEF U16
  <2> HIDE DEF n
  <2>5. n \in Nat /\ n < U16
    <3>1. CASE n = 0
      BY <2>4, <3>1
    <3>2. CASE n \in v
      BY <2>2, <2>3, <3>2
    <3>3. QED
      BY <2>4, <3>1, <3>2
  <2>6. U16 \in Nat
    BY DEF U16
  <2>7. n \in Uids
    BY <2>5, <2>6 DEF Uids
  <2>8. QED
    BY <2>1, <2>7 DEF n
<1>4. /\ Overlay(l.uid, 0, U16) = Given(l.uid, 0) /\ Given(l.uid, 0) \in Uids
      /\ Overlay(l.oblast, 0, U16) = Given(l.oblast, 0) /\ Given(l.oblast, 0) \in Uids
      /\ Overlay(l.raion, 0, U16) = Given(l.raion, 0) /\ Given(l.raion, 0) \in Uids
  BY <1>1, <1>2, <1>3
<1>5. QED
  BY <1>1, <1>4 DEF LocationOf, Locations

\* The whole list, in its order.
LEMMA LocationsKnown ==
  ASSUME NEW locs \in Seq(JsonLocations), LocationsTyped(locs)
  PROVE  /\ LocationsOf(locs) \in Seq(Locations)
         /\ DOMAIN LocationsOf(locs) = DOMAIN locs
         /\ \A i \in DOMAIN locs : LocationsOf(locs)[i] =
              [uid |-> Given(locs[i].uid, 0), type |-> locs[i].type,
               oblast |-> Given(locs[i].oblast, 0), raion |-> Given(locs[i].raion, 0)]
<1>1. DOMAIN locs = 1..Len(locs) /\ Len(locs) \in Nat
  BY LenProperties
<1>2. \A i \in 1..Len(locs) : locs[i] \in JsonLocations
  BY ElementOfSeq
<1>3. \A i \in 1..Len(locs) : LocationTyped(locs[i])
  BY <1>1 DEF LocationsTyped
<1>4. /\ LocationsOf(locs) = [i \in 1..Len(locs) |-> LocationOf(locs[i])]
      /\ DOMAIN LocationsOf(locs) = DOMAIN locs
      /\ \A i \in DOMAIN locs : LocationsOf(locs)[i] = LocationOf(locs[i])
  BY <1>1 DEF LocationsOf
<1>5. LocationsOf(locs) \in Seq(Locations)
  <2>1. \A i \in 1..Len(locs) : LocationOf(locs[i]) \in Locations
    BY <1>2, <1>3, LocationKnown
  <2>2. QED
    BY <1>1, <1>4, <2>1, IsASeq
<1>6. QED
  BY <1>1, <1>2, <1>3, <1>4, <1>5, LocationKnown

ListToJson(locs) == [i \in DOMAIN locs |-> LocationToJson(locs[i])]

\* One location as configToJson() writes it.
LEMMA LocationRoundTrip ==
  ASSUME NEW l \in Locations, l.uid # 0, l.type # "unknown"
  PROVE  /\ LocationToJson(l) \in JsonLocations /\ LocationTyped(LocationToJson(l))
         /\ LocationOf(LocationToJson(l)) = l
<1> DEFINE j == LocationToJson(l)
<1>1. /\ l.uid \in Uids /\ l.oblast \in Uids /\ l.raion \in Uids /\ l.type \in LocationTypes
      /\ l = [uid |-> l.uid, type |-> l.type, oblast |-> l.oblast, raion |-> l.raion]
  BY DEF Locations
<1>2. /\ j.uid = {l.uid} /\ j.oblast = {l.oblast} \ {0} /\ j.raion = {l.raion} \ {0}
      /\ j.type = l.type
      /\ j = [uid |-> j.uid, type |-> j.type, oblast |-> j.oblast, raion |-> j.raion]
  BY DEF LocationToJson
<1> HIDE DEF j
<1>3. ASSUME NEW n \in Uids, NEW v, v = {n} \/ (v = {} /\ n = 0)
      PROVE  v \in Optional(Nat) /\ Fits(v, U16) /\ Given(v, 0) = n
  <2>1. n \in Nat /\ n < U16 /\ n # Wrong
    BY WrongAssumption DEF Uids, U16
  <2>2. v \in Optional(Nat)
    BY <1>3, <2>1 DEF Optional
  <2>3. Fits(v, U16)
    BY <1>3, <2>1 DEF Fits
  <2>4. Given(v, 0) = n
    BY <1>3, GivenSingle DEF Given
  <2>5. QED
    BY <2>2, <2>3, <2>4
<1>4. /\ j.uid = {l.uid}
      /\ j.oblast = {l.oblast} \/ (j.oblast = {} /\ l.oblast = 0)
      /\ j.raion = {l.raion} \/ (j.raion = {} /\ l.raion = 0)
  BY <1>2
<1>5. j.uid \in Optional(Nat) /\ Fits(j.uid, U16) /\ Given(j.uid, 0) = l.uid
  BY <1>1, <1>3, <1>4
<1>6. j.oblast \in Optional(Nat) /\ Fits(j.oblast, U16) /\ Given(j.oblast, 0) = l.oblast
  BY <1>1, <1>3, <1>4
<1>7. j.raion \in Optional(Nat) /\ Fits(j.raion, U16) /\ Given(j.raion, 0) = l.raion
  BY <1>1, <1>3, <1>4
<1>8. j \in JsonLocations
  BY <1>1, <1>2, <1>5, <1>6, <1>7 DEF JsonLocations
<1>9. U16 \in {U8, U16, U32}
  OBVIOUS
<1>10. LocationOf(j) = [uid |-> l.uid, type |-> l.type, oblast |-> l.oblast, raion |-> l.raion]
  <2>1. /\ Overlay(j.uid, 0, U16) = l.uid /\ Overlay(j.oblast, 0, U16) = l.oblast
        /\ Overlay(j.raion, 0, U16) = l.raion
    BY <1>5, <1>6, <1>7, <1>9, OverlayKnown
  <2>2. QED
    BY <1>2, <2>1 DEF LocationOf
<1>11. LocationOf(j) = l /\ LocationTyped(j)
  BY <1>1, <1>2, <1>5, <1>6, <1>7, <1>10 DEF LocationTyped
<1>12. QED
  BY <1>8, <1>11 DEF j

\* A list that is valid is written as a list that is taken, and read back.
LEMMA LocationsRoundTrip ==
  ASSUME NEW locs \in Seq(Locations), Len(locs) <= MaxSelected, Distinct(locs),
         \A i \in DOMAIN locs : LocationValid(locs[i])
  PROVE  /\ ListToJson(locs) \in Seq(JsonLocations) /\ LocationsTyped(ListToJson(locs))
         /\ LocationsOf(ListToJson(locs)) = locs
<1> DEFINE j == ListToJson(locs)
<1>1. DOMAIN locs = 1..Len(locs) /\ Len(locs) \in Nat
  BY LenProperties
<1>2. \A i \in 1..Len(locs) : locs[i] \in Locations
  BY ElementOfSeq
<1>3. \A i \in 1..Len(locs) : /\ LocationToJson(locs[i]) \in JsonLocations
                              /\ LocationTyped(LocationToJson(locs[i]))
                              /\ LocationOf(LocationToJson(locs[i])) = locs[i]
  BY <1>1, <1>2, LocationRoundTrip DEF LocationValid
<1>4. /\ j = [i \in 1..Len(locs) |-> LocationToJson(locs[i])]
      /\ DOMAIN j = 1..Len(locs)
      /\ \A i \in 1..Len(locs) : j[i] = LocationToJson(locs[i])
  BY <1>1 DEF ListToJson
<1> HIDE DEF j
<1>5. j \in Seq(JsonLocations)
  BY <1>1, <1>3, <1>4, IsASeq
<1>6. Len(j) = Len(locs)
  BY <1>1, <1>4, <1>5, LenProperties
<1>7. LocationsOf(j) = locs
  <2>1. LocationsOf(j) = [i \in 1..Len(locs) |-> LocationOf(j[i])]
    BY <1>4 DEF LocationsOf
  <2>2. \A i \in 1..Len(locs) : LocationOf(j[i]) = locs[i]
    BY <1>3, <1>4
  <2>3. locs = [i \in 1..Len(locs) |-> locs[i]]
    BY <1>1
  <2>4. QED
    BY <2>1, <2>2, <2>3
<1>8. LocationsTyped(j)
  BY <1>3, <1>4, <1>6, <1>7 DEF LocationsTyped
<1>9. QED
  BY <1>5, <1>7, <1>8 DEF j

-----------------------------------------------------------------------------
(* Patterns *)

PatternSet == [enabled : BOOLEAN, repeat : Nat, steps : Seq(Int)]

LEMMA UnitsType ==
  /\ \A ms \in Int : /\ Units(ms) \in Int /\ ToUnits(ms) \in Int
                     /\ ToMs(ToUnits(ms)) - ms \in -5..5
  /\ \A k \in Int : ToMs(k) \in Int /\ ToUnits(ToMs(k)) = k
BY DEF ToUnits, Units, ToMs

LEMMA TwoSteps ==
  ASSUME NEW u \in Int, NEW v \in Int
  PROVE  <<u>> \o <<v>> = <<u, v>>
<1> DEFINE a == <<u>>
           b == <<v>>
           t == <<u, v>>
<1>1. /\ a \in Seq(Int) /\ b \in Seq(Int) /\ t \in Seq(Int)
      /\ Len(a) = 1 /\ Len(b) = 1 /\ Len(t) = 2
      /\ a[1] = u /\ b[1] = v /\ t[1] = u /\ t[2] = v
  OBVIOUS
<1> HIDE DEF a, b, t
<1>2. /\ a \o b \in Seq(Int) /\ Len(a \o b) = 2
      /\ \A i \in 1..2 : (a \o b)[i] = IF i <= 1 THEN a[i] ELSE b[i - 1]
  <2>1. /\ a \o b \in Seq(Int) /\ Len(a \o b) = Len(a) + Len(b)
        /\ \A i \in 1..(Len(a) + Len(b)) :
             (a \o b)[i] = IF i <= Len(a) THEN a[i] ELSE b[i - Len(a)]
    BY <1>1, ConcatProperties
  <2>2. QED
    BY <1>1, <2>1
<1>3. \A i \in 1..2 : i = 1 \/ i = 2
  OBVIOUS
<1>4. \A i \in 1..2 : (a \o b)[i] = t[i]
  BY <1>1, <1>2, <1>3
<1>5. a \o b = t
  BY <1>1, <1>2, <1>4, SeqEqual
<1>6. QED
  BY <1>5 DEF a, b, t

\* The old pair of lengths, and what rounding leaves of it.
LEMMA PulsesKnown ==
  ASSUME NEW on \in Nat, NEW off \in Nat
  PROVE  Pulses(on, off) \in Seq(Int) /\ PairKept(Pulses(on, off), on, off)
<1> DEFINE u == Units(on)
           v == Units(off)
<1>1. /\ u \in Nat /\ v \in Nat /\ 10 * u - on \in -5..5 /\ 10 * v - off \in -5..5
      /\ (on >= 5 => u > 0) /\ (off >= 5 => v > 0)
  BY DEF Units
<1>2. Pulses(on, off) = (IF u = 0 THEN <<>> ELSE <<u>>) \o (IF -v = 0 THEN <<>> ELSE <<-v>>)
  BY DEF Pulses
<1> HIDE DEF u, v
<1> DEFINE p == Pulses(on, off)
<1> HIDE DEF p
<1>3. CASE u = 0 /\ -v = 0
  <2>1. p = <<>> \o <<>> /\ <<>> \in Seq(Int)
    BY <1>2, <1>3, Zenon, EmptySeq DEF p
  <2>2. p = <<>>
    BY <2>1, ConcatEmptySeq
  <2>3. on < 5 /\ off < 5
    BY <1>1, <1>3
  <2>4. QED
    BY <2>2, <2>3 DEF PairKept, p
<1>4. CASE u # 0 /\ -v = 0
  <2>a. <<u>> \in Seq(Int)
    BY <1>1
  <2>c. p = <<u>> \o <<>>
    BY <1>2, <1>4, Zenon DEF p
  <2>1. p = <<u>> \o <<>> /\ <<u>> \in Seq(Int)
    BY <2>a, <2>c, Zenon
  <2>2. p = <<u>>
    BY <2>1, ConcatEmptySeq
  <2>3. off < 5 /\ u > 0 /\ ToMs(u) - on \in -5..5
    BY <1>1, <1>4 DEF ToMs
  <2>4. QED
    BY <1>1, <2>2, <2>3 DEF PairKept, p
<1>5. CASE u = 0 /\ -v # 0
  <2>1. p = <<>> \o <<-v>> /\ <<-v>> \in Seq(Int)
    BY <1>1, <1>2, <1>5 DEF p
  <2>2. p = <<-v>>
    BY <2>1, ConcatEmptySeq
  <2>3. on < 5 /\ -v < 0 /\ ~(-v > 0) /\ -v # 0 /\ ToMs(-v) - (-off) \in -5..5
    BY <1>1, <1>5 DEF ToMs
  <2>4. p \in Seq(Int) /\ DOMAIN p = {1} /\ p[1] = -v
    BY <1>1, <2>2
  <2>5. PairKept(p, on, off)
    BY <1>1, <2>3, <2>4 DEF PairKept
  <2>6. QED
    BY <2>4, <2>5 DEF p
<1>6. CASE u # 0 /\ -v # 0
  <2>1. p = <<u>> \o <<-v>> /\ -v \in Int
    BY <1>1, <1>2, <1>6 DEF p
  <2>2. p = <<u, -v>>
    BY <1>1, <2>1, TwoSteps
  <2>3. /\ ToMs(u) - on \in -5..5 /\ ToMs(-v) + off \in -5..5 /\ u > 0 /\ -v < 0
    BY <1>1, <1>6 DEF ToMs
  <2>4. p \in Seq(Int) /\ DOMAIN p = {1, 2} /\ p[1] = u /\ p[2] = -v
    BY <1>1, <2>2
  <2>5. ToMs(-v) - (-off) \in -5..5
    BY <1>1, <2>3 DEF ToMs
  <2>6. ~(-v > 0)
    BY <1>1, <2>3
  <2>7. PairKept(p, on, off)
    BY <1>1, <2>3, <2>4, <2>5, <2>6 DEF PairKept
  <2>8. QED
    BY <2>4, <2>7 DEF p
<1>7. QED
  BY <1>3, <1>4, <1>5, <1>6

\* What a search of a sequence finds is an index of it.
LEMMA FoundIndex ==
  ASSUME NEW I \in SUBSET Nat, I # {}
  PROVE  Min(I) \in I
<1> DEFINE Less == OpToRel(<, Nat)
<1>1. \A x, y \in Nat : x < y => <<x, y>> \in Less
  BY DEF OpToRel
<1> HIDE DEF Less
<1>2. PICK x \in I : \A y \in I : ~(<<y, x>> \in Less)
  BY NatLessThanWellFounded, WFMin DEF Less
<1>3. \A y \in I : ~(y < x)
  BY <1>1, <1>2
<1>4. \A y \in I : x <= y
  BY <1>3
<1>5. QED
  BY <1>4, Zenon DEF Min

LEMMA FirstType ==
  ASSUME NEW p \in PatternSet, NEW on \in BOOLEAN
  PROVE  First(p, on) \in Nat
<1> DEFINE hit(u) == (u > 0) = on
           I == {i \in 1..Len(p.steps) : hit(p.steps[i])}
           i == SelectInSeq(p.steps, hit)
<1>1. p.steps \in Seq(Int)
  BY DEF PatternSet
<1>2. i = IF I # {} THEN Min(I) ELSE 0
  BY DEF SelectInSeq
<1>3. I \in SUBSET Nat /\ \A j \in I : j \in 1..Len(p.steps) /\ (p.steps[j] > 0) = on
  OBVIOUS
<1>4. First(p, on) = IF i = 0 THEN 0 ELSE ToMs(IF on THEN p.steps[i] ELSE -p.steps[i])
  BY DEF First
<1> HIDE DEF I, i
<1>5. i # 0 => i \in 1..Len(p.steps) /\ (p.steps[i] > 0) = on
  BY <1>2, <1>3, FoundIndex
<1>6. i # 0 => p.steps[i] \in Int
  BY <1>1, <1>5, ElementOfSeq
<1>7. CASE i = 0
  BY <1>4, <1>7
<1>8. CASE i # 0
  <2>1. ASSUME on
        PROVE  First(p, on) \in Nat
    <3>1. p.steps[i] > 0 /\ First(p, on) = ToMs(p.steps[i])
      BY <1>4, <1>5, <1>8, <2>1
    <3>2. QED
      BY <1>6, <1>8, <3>1 DEF ToMs
  <2>2. ASSUME ~on
        PROVE  First(p, on) \in Nat
    <3>1. ~(p.steps[i] > 0) /\ First(p, on) = ToMs(-p.steps[i])
      BY <1>4, <1>5, <1>8, <2>2
    <3>2. QED
      BY <1>6, <1>8, <3>1 DEF ToMs
  <2>3. QED
    BY <2>1, <2>2
<1>9. QED
  BY <1>7, <1>8

\* patternFromJson() keeps a pattern well formed and takes what it is given.
LEMMA PatternOfKnown ==
  ASSUME NEW p \in JsonPatterns, PatternTyped(p), NEW old \in PatternSet
  PROVE  /\ PatternOf(p, old) \in PatternSet
         /\ PatternOf(p, old).enabled = Given(p.enabled, old.enabled)
         /\ PatternOf(p, old).repeat = Given(p.repeat, old.repeat)
         /\ StepsKept(p, old, PatternOf(p, old).steps)
<1> DEFINE enabled == Given(p.enabled, old.enabled)
           repeat == Overlay(p.repeat, old.repeat, U8)
           rounded(s) == [i \in DOMAIN s |-> ToUnits(s[i])]
           list == Given(p.steps, <<>>)
           on == Given(p.on_ms, First(old, TRUE))
           off == Given(p.off_ms, First(old, FALSE))
           steps == IF p.steps # {} THEN rounded(list)
                    ELSE IF p.on_ms \cup p.off_ms = {} THEN old.steps
                    ELSE Pulses(on, off)
<1>1. PatternOf(p, old) = [enabled |-> enabled, repeat |-> repeat, steps |-> steps]
  BY DEF PatternOf
<1>2. /\ p.enabled \in Optional(BOOLEAN) /\ p.repeat \in Optional(Nat)
      /\ p.steps \in Optional(Seq(Int)) /\ p.on_ms \in Optional(Nat) /\ p.off_ms \in Optional(Nat)
      /\ old.enabled \in BOOLEAN /\ old.repeat \in Nat /\ old.steps \in Seq(Int)
  BY DEF JsonPatterns, PatternSet
<1>3. /\ Wrong \notin p.enabled /\ Wrong \notin p.repeat /\ Wrong \notin p.steps
      /\ p.steps = {} => Wrong \notin p.on_ms /\ Wrong \notin p.off_ms
      /\ \A s \in p.steps : \A i \in DOMAIN s : StepTaken(s[i])
  BY DEF PatternTyped, Fits
<1>4. enabled \in BOOLEAN
  BY <1>2, <1>3, GivenKnown
<1>5. repeat \in Nat /\ repeat = Given(p.repeat, old.repeat)
  <2>1. Fits(p.repeat, U8)
    BY DEF PatternTyped
  <2>2. repeat = Given(p.repeat, old.repeat)
    BY <1>2, <2>1, OverlayKnown
  <2>3. Given(p.repeat, old.repeat) \in Nat
    BY <1>2, <1>3, GivenKnown
  <2>4. QED
    BY <2>2, <2>3
<1>6. /\ p.steps # {} => list \in p.steps
      /\ \A s \in p.steps : s \in Seq(Int) /\ list = s
  <2>1. \A s \in p.steps : s \in Seq(Int)
    <3>1. p.steps \in Optional(Seq(Int)) /\ Wrong \notin p.steps
      BY <1>2, <1>3
    <3>2. QED
      BY <3>1 DEF Optional
  <2>2. p.steps # {} => list \in p.steps
    BY <1>2, <1>3, GivenKnown
  <2>3. \A s \in p.steps : list = s
    BY <1>2, <1>3, GivenKnown
  <2> HIDE DEF list
  <2>4. QED
    BY <2>1, <2>2, <2>3
<1>7. ASSUME NEW s \in Seq(Int)
      PROVE  rounded(s) \in Seq(Int)
  <2>1. DOMAIN s = 1..Len(s) /\ Len(s) \in Nat
    BY LenProperties
  <2>2. \A i \in 1..Len(s) : ToUnits(s[i]) \in Int
    BY UnitsType, ElementOfSeq
  <2>3. rounded(s) = [i \in 1..Len(s) |-> ToUnits(s[i])]
    BY <2>1
  <2> HIDE DEF rounded
  <2>4. QED
    BY <2>1, <2>2, <2>3, IsASeq
<1>8. p.steps = {} => on \in Nat /\ off \in Nat
  <2>1. First(old, TRUE) \in Nat /\ First(old, FALSE) \in Nat
    BY FirstType
  <2>2. ASSUME NEW ms \in Optional(Nat), Wrong \notin ms, NEW first \in Nat
        PROVE  Given(ms, first) \in Nat
    <3>1. CASE ms = {}
      BY <2>2, <3>1, GivenKnown
    <3>2. CASE ms # {}
      BY <2>2, <3>2, GivenKnown
    <3>3. QED
      BY <3>1, <3>2
  <2>3. SUFFICES ASSUME p.steps = {}
                 PROVE  on \in Nat /\ off \in Nat
    OBVIOUS
  <2>4. on \in Nat
    BY <1>2, <1>3, <2>1, <2>2, <2>3
  <2>5. off \in Nat
    BY <1>2, <1>3, <2>1, <2>2, <2>3
  <2>6. QED
    BY <2>4, <2>5
<1> HIDE DEF enabled, repeat, list, on, off
<1>9. steps \in Seq(Int)
  <2>1. CASE p.steps # {}
    <3>1. list \in Seq(Int)
      BY <1>6, <2>1
    <3>2. steps = rounded(list)
      BY <2>1
    <3> HIDE DEF steps, rounded
    <3>3. QED
      BY <1>7, <3>1, <3>2
  <2>2. CASE p.steps = {} /\ p.on_ms \cup p.off_ms = {}
    BY <1>2, <2>2
  <2>3. CASE p.steps = {} /\ p.on_ms \cup p.off_ms # {}
    <3>1. steps = Pulses(on, off)
      BY <2>3
    <3> HIDE DEF steps
    <3>2. QED
      BY <1>8, <2>3, <3>1, PulsesKnown
  <2>4. QED
    BY <2>1, <2>2, <2>3
<1>10. ASSUME NEW s \in p.steps
       PROVE  /\ DOMAIN steps = DOMAIN s
              /\ \A i \in DOMAIN s : ToMs(steps[i]) - s[i] \in -5..5 /\ steps[i] # 0
  <2>1. steps = rounded(s)
    BY <1>6
  <2>2. s \in Seq(Int) /\ DOMAIN s = 1..Len(s)
    <3>1. s \in Seq(Int)
      BY <1>6
    <3>2. QED
      BY <3>1, LenProperties
  <2>3. \A i \in DOMAIN s : s[i] \in Int /\ ToUnits(s[i]) # 0
    BY <1>3, <2>2, ElementOfSeq DEF StepTaken
  <2>4. DOMAIN rounded(s) = DOMAIN s /\ \A i \in DOMAIN s : rounded(s)[i] = ToUnits(s[i])
    OBVIOUS
  <2> HIDE DEF steps, rounded
  <2>5. QED
    BY <2>1, <2>3, <2>4, UnitsType
<1>11. p.steps \cup p.on_ms \cup p.off_ms = {} => steps = old.steps
  OBVIOUS
<1>12. p.steps = {} /\ p.on_ms \cup p.off_ms # {} => PairKept(steps, on, off)
  <2>1. SUFFICES ASSUME p.steps = {}, p.on_ms \cup p.off_ms # {}
                 PROVE  PairKept(steps, on, off)
    OBVIOUS
  <2>2. steps = Pulses(on, off)
    BY <2>1
  <2> HIDE DEF steps
  <2>3. QED
    BY <1>8, <2>1, <2>2, PulsesKnown
<1> HIDE DEF steps
<1>13. StepsKept(p, old, steps)
  BY <1>10, <1>11, <1>12 DEF StepsKept, on, off
<1>14. PatternOf(p, old) \in PatternSet
  BY <1>1, <1>4, <1>5, <1>9 DEF PatternSet
<1>15. /\ PatternOf(p, old).enabled = enabled /\ PatternOf(p, old).repeat = repeat
       /\ PatternOf(p, old).steps = steps
  BY <1>1
<1>16. StepsKept(p, old, PatternOf(p, old).steps)
  BY <1>13, <1>15, Zenon
<1>17. QED
  BY <1>5, <1>14, <1>15, <1>16 DEF enabled

-----------------------------------------------------------------------------
(* Documents *)

NumbersFit(c) == \A f \in DOMAIN Numbers : Taken(c.num[f], f)

\* configFromJson() on a document of the right types: every field is the document's
\* own or, where it has none, that of the settings it is laid over.
LEMMA OverlaidKnown ==
  ASSUME NEW d \in Documents, Typed(d), NEW c \in AppConfigs, NumbersFit(c)
  PROVE  /\ Overlaid(d, c) \in AppConfigs
         /\ Overlaid(d, c).schema = Given(d.schema, c.schema)
         /\ Overlaid(d, c).name = Given(d.name, c.name)
         /\ \A f \in DOMAIN Numbers : Overlaid(d, c).num[f] = Given(d.num[f], c.num[f])
         /\ \A f \in Flags : Overlaid(d, c).flag[f] = Given(d.flag[f], c.flag[f])
         /\ d.locs = {} => Overlaid(d, c).locs = c.locs
         /\ \A locs \in d.locs : /\ locs \in Seq(JsonLocations) /\ LocationsTyped(locs)
                                 /\ Overlaid(d, c).locs = LocationsOf(locs)
         /\ Overlaid(d, c).interval = Given(d.interval, c.interval)
         /\ d.pattern = {} => Overlaid(d, c).pattern = c.pattern
         /\ \A p \in d.pattern : p \in JsonPatterns /\ PatternTyped(p) /\
              Overlaid(d, c).pattern = PatternOf(p, c.pattern)
<1> DEFINE num == [f \in DOMAIN Numbers |-> Overlay(d.num[f], c.num[f], Numbers[f].size)]
           flag == [f \in Flags |-> Given(d.flag[f], c.flag[f])]
           pattern == IF d.pattern = {} THEN c.pattern
                      ELSE PatternOf(Given(d.pattern, {}), c.pattern)
           locs == IF d.locs = {} THEN c.locs ELSE LocationsOf(Given(d.locs, <<>>))
           r == Overlaid(d, c)
<1>1. r = [schema |-> Overlay(d.schema, c.schema, U8), name |-> Given(d.name, c.name),
           num |-> num, flag |-> flag, locs |-> locs,
           interval |-> Given(d.interval, c.interval), pattern |-> pattern]
  BY DEF Overlaid
<1>2. /\ d.schema \in Optional(Nat) /\ d.name \in Optional(Nat)
      /\ d.locs \in Optional(Seq(JsonLocations)) /\ d.interval \in Optional(Nat)
      /\ d.pattern \in Optional(JsonPatterns)
      /\ \A f \in DOMAIN Numbers : d.num[f] \in Optional(Nat)
      /\ \A f \in Flags : d.flag[f] \in Optional(BOOLEAN)
  BY DEF Documents
<1>3. /\ c.schema \in Nat /\ c.name \in Nat /\ c.locs \in Seq(Locations)
      /\ c.interval \in 0..MaxInterval
      /\ c.pattern \in PatternSet
      /\ \A f \in DOMAIN Numbers : c.num[f] \in Nat
      /\ \A f \in Flags : c.flag[f] \in BOOLEAN
  BY DEF AppConfigs, PatternSet
<1>4. /\ Wrong \notin d.schema /\ Wrong \notin d.name /\ Wrong \notin d.locs
      /\ Wrong \notin d.interval /\ Wrong \notin d.pattern
      /\ \A f \in DOMAIN Numbers : Fits(d.num[f], Numbers[f].size)
      /\ \A f \in Flags : Wrong \notin d.flag[f]
      /\ \A p \in d.pattern : PatternTyped(p)
      /\ \A l \in d.locs : LocationsTyped(l)
      /\ \A n \in d.interval : n <= MaxInterval
      /\ Fits(d.schema, U8)
  BY DEF Typed, Fits
<1>5. /\ Given(d.schema, c.schema) \in Nat /\ Given(d.name, c.name) \in Nat
      /\ Given(d.interval, c.interval) \in 0..MaxInterval
  <2>1. Given(d.schema, c.schema) \in Nat /\ Given(d.name, c.name) \in Nat
    BY <1>2, <1>3, <1>4, GivenKnown
  <2>2. d.interval \in SUBSET (0..MaxInterval)
    <3>1. d.interval \in Optional(Nat) /\ Wrong \notin d.interval
      BY <1>2, <1>4
    <3>2. \A n \in d.interval : n \in Nat
      BY <3>1 DEF Optional
    <3>3. MaxInterval \in Nat
      BY DEF MaxInterval
    <3>4. QED
      BY <1>4, <3>2, <3>3
  <2>3. Given(d.interval, c.interval) \in 0..MaxInterval
    BY <1>3, <2>2 DEF Given
  <2>4. QED
    BY <2>1, <2>3
<1>s. Overlay(d.schema, c.schema, U8) = Given(d.schema, c.schema)
  BY <1>2, <1>4, OverlayKnown
<1>l. /\ d.locs = {} => locs = c.locs
      /\ \A l \in d.locs : /\ l \in Seq(JsonLocations) /\ LocationsTyped(l)
                           /\ locs = LocationsOf(l)
  BY <1>2, <1>4, GivenKnown
<1>6. locs \in Seq(Locations)
  <2>1. CASE d.locs = {}
    BY <1>3, <2>1
  <2>2. ASSUME NEW l \in d.locs
        PROVE  locs \in Seq(Locations)
    <3>1. l \in Seq(JsonLocations) /\ LocationsTyped(l) /\ locs = LocationsOf(l)
      BY <1>l
    <3> HIDE DEF locs
    <3>2. QED
      BY <3>1, LocationsKnown
  <2>3. QED
    BY <2>1, <2>2
<1>7. ASSUME NEW f \in DOMAIN Numbers
      PROVE  num[f] = Given(d.num[f], c.num[f]) /\ num[f] \in Nat
  <2> DEFINE n == Given(d.num[f], c.num[f])
             size == Numbers[f].size
  <2>1. size \in {U8, U16, U32} /\ Fits(d.num[f], size)
    BY <1>4, NumbersKnown DEF NumberKnown
  <2>2. d.num[f] \in Optional(Nat) /\ c.num[f] \in Nat /\ Wrong \notin d.num[f]
    BY <1>2, <1>3, <2>1 DEF Fits
  <2>3. n \in Nat
    BY <2>2, GivenKnown
  <2>4. num[f] = Overlay(d.num[f], c.num[f], size)
    OBVIOUS
  <2> HIDE DEF n, size, num
  <2>5. Overlay(d.num[f], c.num[f], size) = n
    BY <2>1, <2>2, OverlayKnown DEF n
  <2>6. QED
    BY <2>3, <2>4, <2>5 DEF n
<1>8. ASSUME NEW f \in Flags
      PROVE  flag[f] = Given(d.flag[f], c.flag[f]) /\ flag[f] \in BOOLEAN
  <2>1. d.flag[f] \in Optional(BOOLEAN) /\ c.flag[f] \in BOOLEAN /\ Wrong \notin d.flag[f]
    BY <1>2, <1>3, <1>4
  <2>2. Given(d.flag[f], c.flag[f]) \in BOOLEAN
    BY <2>1, GivenKnown
  <2>3. QED
    BY <2>2
<1>9. /\ d.pattern = {} => pattern = c.pattern
      /\ \A p \in d.pattern : /\ p \in JsonPatterns /\ PatternTyped(p)
                              /\ pattern = PatternOf(p, c.pattern)
  BY <1>2, <1>4, GivenKnown
<1>10. pattern \in PatternSet
  <2>1. CASE d.pattern = {}
    BY <1>3, <2>1
  <2>2. ASSUME NEW p \in d.pattern
        PROVE  pattern \in PatternSet
    BY <1>3, <1>9, PatternOfKnown
  <2>3. QED
    BY <2>1, <2>2
<1>11. num \in [DOMAIN Numbers -> Nat] /\ flag \in [Flags -> BOOLEAN]
  BY <1>7, <1>8
<1> HIDE DEF num, flag, pattern, locs, r
<1>12. r \in AppConfigs
  BY <1>1, <1>5, <1>6, <1>s, <1>10, <1>11 DEF AppConfigs, PatternSet
<1>13. QED
  BY <1>1, <1>7, <1>8, <1>9, <1>s, <1>l, <1>12 DEF r

-----------------------------------------------------------------------------
(* Settings the program can run on *)

Usable(c) == c \in AppConfigs /\ Valid(c) /\ c.schema = 2

LEMMA DefaultsUsable == Usable(Defaults)
<1>1. Defaults.num \in [DOMAIN Numbers -> Nat]
  BY DEF Defaults, Numbers
<1>2. Defaults.flag \in [Flags -> BOOLEAN]
  BY DEF Defaults
<1>3. Defaults.pattern \in PatternSet /\ Defaults.locs \in Seq(Locations)
  BY DEF Defaults, PatternSet
<1>4. Defaults = [schema |-> 2, name |-> 8, num |-> Defaults.num, flag |-> Defaults.flag,
                  locs |-> <<>>, interval |-> 900, pattern |-> Defaults.pattern]
  BY DEF Defaults
<1>5. \A f \in DOMAIN Numbers : Taken(Defaults.num[f], f)
  BY NumbersKnown
<1>6. PatternValid(Defaults.pattern)
  <2>1. Defaults.pattern = [enabled |-> TRUE, repeat |-> 3, steps |-> <<300, -100>>]
    BY DEF Defaults
  <2>2. \A i \in 1..2 : <<300, -100>>[i] \in {300, -100}
    OBVIOUS
  <2>3. \A k \in {300, -100} : k # 0 /\ -MaxStepMs <= ToMs(k) /\ ToMs(k) <= MaxStepMs /\ ToMs(k) \in Int
    BY DEF ToMs, MaxStepMs
  <2>4. MaxStepMs \in Int
    BY DEF MaxStepMs
  <2>5. \A k \in {300, -100} : k # 0 /\ ToMs(k) \in -MaxStepMs..MaxStepMs
    BY <2>3, <2>4
  <2> HIDE DEF Defaults
  <2>6. QED
    BY <2>1, <2>2, <2>5 DEF PatternValid, MaxSteps
<1> HIDE DEF Defaults
<1>7. Defaults \in AppConfigs
  <2>1. MaxInterval \in Nat /\ 900 <= MaxInterval
    BY DEF MaxInterval
  <2>2. 900 \in 0..MaxInterval
    BY <2>1
  <2>3. QED
    BY <1>1, <1>2, <1>3, <1>4, <2>2 DEF AppConfigs, PatternSet
<1>8. Valid(Defaults)
  BY <1>4, <1>5, <1>6 DEF Valid, Taken, NameSize, MaxSelected, Distinct
<1>9. QED
  BY <1>4, <1>7, <1>8 DEF Usable

\* The lifting of schema 1 touches two numbers, and nothing of schema 2.
LEMMA MigratedKnown ==
  ASSUME NEW c \in AppConfigs
  PROVE  /\ Migrated(c) \in AppConfigs
         /\ c.schema # 1 => Migrated(c) = c
         /\ Valid(Migrated(c)) => Migrated(c).schema = 2
         /\ Migrated(c).name = c.name /\ Migrated(c).flag = c.flag
         /\ Migrated(c).locs = c.locs /\ Migrated(c).interval = c.interval
         /\ Migrated(c).pattern = c.pattern
         /\ c.schema = 1 => \A f \in DOMAIN Numbers :
              Migrated(c).num[f] = Lifted([schema |-> {1}], f, c.num[f])
<1>1. CASE c.schema # 1
  BY <1>1 DEF Migrated, Valid
<1>2. CASE c.schema = 1
  <2> DEFINE poll == IF c.num.poll_sec = 15 THEN 20 ELSE c.num.poll_sec
             stale == IF c.num.stale_sec = 60 THEN 90 ELSE c.num.stale_sec
             num == [c.num EXCEPT !.poll_sec = poll, !.stale_sec = stale]
  <2>1. Migrated(c) = [schema |-> 2, name |-> c.name, num |-> num, flag |-> c.flag,
                       locs |-> c.locs, interval |-> c.interval, pattern |-> c.pattern]
    BY <1>2 DEF Migrated, AppConfigs
  <2>2. c.num \in [DOMAIN Numbers -> Nat]
    BY DEF AppConfigs
  <2>3. poll \in Nat /\ stale \in Nat
    <3>1. "poll_sec" \in DOMAIN Numbers /\ "stale_sec" \in DOMAIN Numbers
      BY DEF Numbers
    <3>2. c.num.poll_sec \in Nat /\ c.num.stale_sec \in Nat
      BY <2>2, <3>1
    <3>3. QED
      BY <3>2
  <2> HIDE DEF poll, stale
  <2>4. num \in [DOMAIN Numbers -> Nat]
    BY <2>2, <2>3
  <2>5. ASSUME NEW f \in DOMAIN Numbers
        PROVE  num[f] = Lifted([schema |-> {1}], f, c.num[f])
    <3>1. CASE f = "poll_sec"
      BY <2>2, <3>1 DEF Lifted, poll
    <3>2. CASE f = "stale_sec"
      BY <2>2, <3>2 DEF Lifted, stale
    <3>3. CASE f # "poll_sec" /\ f # "stale_sec"
      <4>1. num[f] = c.num[f]
        BY <2>2, <3>3
      <4>2. QED
        BY <3>3, <4>1 DEF Lifted
    <3>4. QED
      BY <3>1, <3>2, <3>3
  <2> HIDE DEF num
  <2>6. Migrated(c) \in AppConfigs
    BY <2>1, <2>4 DEF AppConfigs
  <2>7. QED
    BY <1>2, <2>1, <2>5, <2>6
<1>3. QED
  BY <1>1, <1>2

LEMMA UsableFits == ASSUME NEW c, Usable(c) PROVE c \in AppConfigs /\ NumbersFit(c)
BY DEF Usable, Valid, NumbersFit, Taken

\* What a handler accepts it can run on.
LEMMA AcceptedUsable ==
  ASSUME NEW d \in Documents, NEW c, Usable(c), Accepts(d, c)
  PROVE  Usable(ConfigFromJson(d, c))
<1> DEFINE r == Overlaid(d, c)
<1>1. Typed(d) /\ Valid(Migrated(r)) /\ ConfigFromJson(d, c) = Migrated(r)
  BY DEF Accepts, ConfigFromJson
<1>2. r \in AppConfigs
  BY <1>1, UsableFits, OverlaidKnown
<1> HIDE DEF r
<1>3. Migrated(r) \in AppConfigs /\ Migrated(r).schema = 2
  BY <1>1, <1>2, MigratedKnown
<1>4. QED
  BY <1>1, <1>3 DEF Usable

LEMMA LoadedUsable ==
  ASSUME NEW file \in Documents \cup {Absent}
  PROVE  Usable(Loaded(file))
BY DefaultsUsable, AcceptedUsable DEF Loaded

\* ... and it is the old settings with the body's fields in their place.
LEMMA AcceptedExact ==
  ASSUME NEW b \in Documents, NEW c, Usable(c), Accepts(b, c)
  PROVE  Exact(b, c, ConfigFromJson(b, c))
<1> DEFINE o == Overlaid(b, c)
           r == ConfigFromJson(b, c)
<1>1. Typed(b) /\ Valid(r) /\ r = Migrated(o)
  BY DEF Accepts, ConfigFromJson
<1>2. c \in AppConfigs /\ NumbersFit(c) /\ c.schema = 2
  BY UsableFits DEF Usable
<1>3. /\ o \in AppConfigs /\ o.schema = Given(b.schema, c.schema)
      /\ o.name = Given(b.name, c.name)
      /\ \A f \in DOMAIN Numbers : o.num[f] = Given(b.num[f], c.num[f])
      /\ \A f \in Flags : o.flag[f] = Given(b.flag[f], c.flag[f])
      /\ b.locs = {} => o.locs = c.locs
      /\ \A l \in b.locs : /\ l \in Seq(JsonLocations) /\ LocationsTyped(l)
                           /\ o.locs = LocationsOf(l)
      /\ o.interval = Given(b.interval, c.interval)
      /\ b.pattern = {} => o.pattern = c.pattern
  BY <1>1, <1>2, OverlaidKnown
<1>4. ASSUME NEW p \in b.pattern
      PROVE  p \in JsonPatterns /\ PatternTyped(p) /\ o.pattern = PatternOf(p, c.pattern)
  BY <1>1, <1>2, OverlaidKnown
<1> HIDE DEF o
<1>5. /\ r.name = o.name /\ r.flag = o.flag /\ r.locs = o.locs /\ r.interval = o.interval
      /\ r.pattern = o.pattern /\ r.schema = 2
      /\ o.schema # 1 => r = o
      /\ o.schema = 1 => \A f \in DOMAIN Numbers : r.num[f] = Lifted([schema |-> {1}], f, o.num[f])
  BY <1>1, <1>3, MigratedKnown
<1> HIDE DEF r
<1>6. /\ b.schema \in Optional(Nat) /\ b.name \in Optional(Nat)
      /\ Wrong \notin b.schema /\ Wrong \notin b.name
  BY <1>1 DEF Documents, Typed, Fits
<1>7. o.schema = 1 <=> b.schema = {1}
  <2>1. ASSUME o.schema = 1
        PROVE  b.schema = {1}
    <3>1. Given(b.schema, c.schema) = 1
      BY <1>3, <2>1
    <3>2. b.schema # {}
      BY <1>2, <3>1 DEF Given
    <3>3. 1 \in b.schema
      BY <1>6, <3>1, <3>2, GivenKnown
    <3>4. QED
      BY <1>6, <3>3 DEF Optional
  <2>2. ASSUME b.schema = {1}
        PROVE  o.schema = 1
    <3>1. Given({1}, c.schema) = 1
      BY GivenSingle
    <3>2. o.schema = Given({1}, c.schema)
      BY <1>3, <2>2, Zenon
    <3>3. QED
      BY <3>1, <3>2
  <2>3. QED
    BY <2>1, <2>2
<1>8. ASSUME NEW f \in DOMAIN Numbers
      PROVE  r.num[f] = Lifted(b, f, Given(b.num[f], c.num[f]))
  <2>1. o.num[f] = Given(b.num[f], c.num[f])
    BY <1>1, <1>3
  <2>2. CASE o.schema # 1
    <3>1. r.num[f] = o.num[f] /\ b.schema # {1}
      BY <1>5, <1>7, <2>2
    <3>2. QED
      BY <2>1, <3>1 DEF Lifted
  <2>3. CASE o.schema = 1
    <3>1. r.num[f] = Lifted([schema |-> {1}], f, o.num[f]) /\ b.schema = {1}
      BY <1>5, <1>7, <2>3
    <3>2. QED
      BY <2>1, <3>1 DEF Lifted
  <2>4. QED
    BY <2>2, <2>3
<1>9. ASSUME NEW p \in b.pattern
      PROVE  /\ r.pattern.enabled = Given(p.enabled, c.pattern.enabled)
             /\ r.pattern.repeat = Given(p.repeat, c.pattern.repeat)
             /\ StepsKept(p, c.pattern, r.pattern.steps)
  <2>1. c.pattern \in PatternSet
    BY <1>2 DEF AppConfigs, PatternSet
  <2>2. r.pattern = PatternOf(p, c.pattern) /\ p \in JsonPatterns /\ PatternTyped(p)
    BY <1>4, <1>5
  <2>3. QED
    BY <2>1, <2>2, PatternOfKnown
<1>10. ASSUME NEW l \in b.locs
       PROVE  /\ DOMAIN r.locs = DOMAIN l
              /\ \A i \in DOMAIN l : r.locs[i] =
                   [uid |-> Given(l[i].uid, 0), type |-> l[i].type,
                    oblast |-> Given(l[i].oblast, 0), raion |-> Given(l[i].raion, 0)]
  <2>1. l \in Seq(JsonLocations) /\ LocationsTyped(l) /\ r.locs = LocationsOf(l)
    BY <1>3, <1>5
  <2>2. QED
    BY <2>1, LocationsKnown
<1>11. /\ \A f \in Flags : r.flag[f] = Given(b.flag[f], c.flag[f])
       /\ r.name = Given(b.name, c.name) /\ r.interval = Given(b.interval, c.interval)
       /\ b.locs = {} => r.locs = c.locs
       /\ b.pattern = {} => r.pattern = c.pattern
  BY <1>3, <1>5
<1>12. Valid(r) /\ r.schema = 2
  BY <1>1, <1>5
<1>13. Exact(b, c, r)
  BY <1>8, <1>9, <1>10, <1>11, <1>12 DEF Exact
<1>14. QED
  BY <1>13 DEF r

-----------------------------------------------------------------------------
(* The round trip *)

\* A pattern the firmware may keep is written as a pattern it takes, and read back
\* step by step.
LEMMA PatternRoundTrip ==
  ASSUME NEW p \in PatternSet, PatternValid(p), NEW old \in PatternSet
  PROVE  /\ PatternToJson(p) \in JsonPatterns /\ PatternTyped(PatternToJson(p))
         /\ PatternOf(PatternToJson(p), old) = p
<1> DEFINE ms == [i \in DOMAIN p.steps |-> ToMs(p.steps[i])]
           j == PatternToJson(p)
<1>1. p.enabled \in BOOLEAN /\ p.repeat \in Nat /\ p.steps \in Seq(Int)
  BY DEF PatternSet
<1>2. j = [enabled |-> {p.enabled}, repeat |-> {p.repeat}, steps |-> {ms},
           on_ms |-> {}, off_ms |-> {}]
  BY DEF PatternToJson
<1>3. /\ DOMAIN p.steps = 1..Len(p.steps) /\ Len(p.steps) \in Nat
      /\ \A i \in 1..Len(p.steps) : p.steps[i] \in Int
  BY <1>1, LenProperties, ElementOfSeq
<1>4. \A i \in DOMAIN p.steps : ToMs(p.steps[i]) \in Int /\ ToUnits(ToMs(p.steps[i])) = p.steps[i]
  BY <1>3, UnitsType
<1>5. ms \in Seq(Int) /\ Len(ms) = Len(p.steps)
  <2>1. ms = [i \in 1..Len(p.steps) |-> ToMs(p.steps[i])]
    BY <1>1, <1>3
  <2>2. \A i \in 1..Len(p.steps) : ToMs(p.steps[i]) \in Int
    BY <1>3, <1>4
  <2> HIDE DEF ms
  <2>3. ms \in Seq(Int)
    BY <1>3, <2>1, <2>2, IsASeq
  <2>4. DOMAIN ms = 1..Len(p.steps)
    BY <2>1
  <2>5. QED
    BY <1>3, <2>3, <2>4, LenProperties
<1>6. DOMAIN ms = DOMAIN p.steps /\ \A i \in DOMAIN p.steps : ms[i] = ToMs(p.steps[i])
  OBVIOUS
<1>7. [i \in DOMAIN ms |-> ToUnits(ms[i])] = p.steps
  <2>1. [i \in DOMAIN ms |-> ToUnits(ms[i])] = [i \in DOMAIN p.steps |-> p.steps[i]]
    BY <1>4, <1>6
  <2>2. p.steps = [i \in DOMAIN p.steps |-> p.steps[i]]
    BY <1>1
  <2>3. QED
    BY <2>1, <2>2
<1> HIDE DEF ms, j
<1>8. j \in JsonPatterns
  <2>1. {p.enabled} \in Optional(BOOLEAN) /\ {p.repeat} \in Optional(Nat) /\ {ms} \in Optional(Seq(Int))
    BY <1>1, <1>5, SingleOptional
  <2>2. {} \in Optional(Nat)
    BY DEF Optional
  <2>3. QED
    BY <1>2, <2>1, <2>2 DEF JsonPatterns
<1>9. PatternTyped(j)
  <2>1. Wrong # p.enabled /\ Wrong # p.repeat /\ Wrong # ms
    BY <1>1, <1>5, WrongAssumption
  <2>2. p.repeat < U8 /\ Len(ms) <= MaxSteps
    BY <1>1, <1>5 DEF PatternValid, U8
  <2>3. ASSUME NEW i \in DOMAIN ms
        PROVE  StepTaken(ms[i])
    <3>1. ms[i] \in Int /\ ToUnits(ms[i]) = p.steps[i] /\ ms[i] = ToMs(p.steps[i])
      BY <1>4, <1>6
    <3>2. p.steps[i] # 0 /\ ms[i] \in -MaxStepMs..MaxStepMs
      BY <1>6, <3>1 DEF PatternValid
    <3>3. QED
      BY <3>1, <3>2, WrongAssumption DEF StepTaken
  <2>4. QED
    BY <1>2, <2>1, <2>2, <2>3 DEF PatternTyped, Fits, MaxSteps
<1>10. PatternOf(j, old) = p
  <2>1. /\ Given(j.enabled, old.enabled) = p.enabled /\ Given(j.repeat, old.repeat) = p.repeat
        /\ Given(j.steps, <<>>) = ms
    BY <1>2, GivenSingle
  <2>o. Overlay(j.repeat, old.repeat, U8) = p.repeat
    BY <1>8, <1>9, <2>1, OverlayKnown DEF JsonPatterns, PatternTyped
  <2>2. PatternOf(j, old) = [enabled |-> p.enabled, repeat |-> p.repeat,
                             steps |-> [i \in DOMAIN ms |-> ToUnits(ms[i])]]
    BY <1>2, <2>1, <2>o DEF PatternOf
  <2>3. p = [enabled |-> p.enabled, repeat |-> p.repeat, steps |-> p.steps]
    BY DEF PatternSet
  <2>4. QED
    BY <1>7, <2>2, <2>3
<1>11. QED
  BY <1>8, <1>9, <1>10 DEF j

\* What save() writes is a document ...
LEMMA WrittenKnown ==
  ASSUME NEW c, Usable(c)
  PROVE  ConfigToJson(c) \in Documents /\ Typed(ConfigToJson(c))
<1> DEFINE d == ConfigToJson(c)
           num == [f \in DOMAIN Numbers |-> {c.num[f]}]
           flag == [f \in Flags |-> {c.flag[f]}]
           j == PatternToJson(c.pattern)
           list == ListToJson(c.locs)
<1>1. d = [schema |-> {c.schema}, name |-> {c.name}, num |-> num, flag |-> flag,
           locs |-> {list}, interval |-> {c.interval}, pattern |-> {j}]
  BY DEF ConfigToJson, ListToJson
<1>2. /\ c.schema = 2 /\ c.name \in Nat /\ c.locs \in Seq(Locations)
      /\ c.interval \in 0..MaxInterval /\ c.pattern \in PatternSet
      /\ \A f \in DOMAIN Numbers : c.num[f] \in Nat
      /\ \A f \in Flags : c.flag[f] \in BOOLEAN
  BY DEF Usable, AppConfigs, PatternSet
<1>3. /\ c.name \in 1..(NameSize - 1) /\ PatternValid(c.pattern)
      /\ \A f \in DOMAIN Numbers : Taken(c.num[f], f)
      /\ Len(c.locs) <= MaxSelected /\ Distinct(c.locs)
      /\ \A i \in DOMAIN c.locs : LocationValid(c.locs[i])
  BY DEF Usable, Valid, Taken
<1>l. list \in Seq(JsonLocations) /\ LocationsTyped(list)
  BY <1>2, <1>3, LocationsRoundTrip
<1>4. c.interval \in Nat /\ c.interval <= MaxInterval
  <2>1. MaxInterval \in Nat
    BY DEF MaxInterval
  <2>2. QED
    BY <1>2, <2>1
<1>5. j \in JsonPatterns /\ PatternTyped(j)
  BY <1>2, <1>3, PatternRoundTrip
<1>6. /\ DOMAIN num = DOMAIN Numbers /\ \A f \in DOMAIN Numbers : num[f] = {c.num[f]}
      /\ num = [f \in DOMAIN Numbers |-> num[f]]
      /\ DOMAIN flag = Flags /\ \A f \in Flags : flag[f] = {c.flag[f]}
      /\ flag = [f \in Flags |-> flag[f]]
  OBVIOUS
<1> HIDE DEF d, num, flag, j, list
<1>7. d \in Documents
  <2>1. /\ {c.schema} \in Optional(Nat) /\ {c.name} \in Optional(Nat)
        /\ {c.interval} \in Optional(Nat) /\ {list} \in Optional(Seq(JsonLocations))
    BY <1>2, <1>4, <1>l, SingleOptional
  <2>2. {j} \in Optional(JsonPatterns)
    BY <1>5, SingleOptional
  <2>3. ASSUME NEW f \in DOMAIN Numbers
        PROVE  num[f] \in Optional(Nat)
    <3>1. c.num[f] \in Nat /\ num[f] = {c.num[f]}
      BY <1>2, <1>6
    <3>2. QED
      BY <3>1, SingleOptional
  <2>4. ASSUME NEW f \in Flags
        PROVE  flag[f] \in Optional(BOOLEAN)
    <3>1. c.flag[f] \in BOOLEAN /\ flag[f] = {c.flag[f]}
      BY <1>2, <1>6
    <3>2. QED
      BY <3>1, SingleOptional
  <2>5. num \in [DOMAIN Numbers -> Optional(Nat)] /\ flag \in [Flags -> Optional(BOOLEAN)]
    BY <1>6, <2>3, <2>4
  <2>6. QED
    BY <1>1, <2>1, <2>2, <2>5 DEF Documents
<1>8. Typed(d)
  <2>1. ASSUME NEW f \in DOMAIN Numbers
        PROVE  Fits(num[f], Numbers[f].size)
    <3>1. c.num[f] # Wrong /\ num[f] = {c.num[f]}
      BY <1>2, <1>6, WrongAssumption
    <3>2. Numbers[f].size # U32 => c.num[f] < Numbers[f].size
      BY <1>3, TakenFits
    <3>3. QED
      BY <3>1, <3>2 DEF Fits
  <2>2. ASSUME NEW f \in Flags
        PROVE  Wrong \notin flag[f]
    BY <1>2, <1>6, WrongAssumption
  <2>3. /\ c.name # Wrong /\ c.interval # Wrong /\ list # Wrong /\ j # Wrong /\ Wrong # 2
    BY <1>2, <1>4, <1>5, <1>l, WrongAssumption
  <2>4. Fits({c.schema}, U8)
    BY <1>2, <2>3 DEF Fits, U8
  <2>5. Fits({c.interval}, U32)
    BY <2>3 DEF Fits
  <2>6. QED
    BY <1>1, <1>3, <1>4, <1>5, <1>l, <2>1, <2>2, <2>3, <2>4, <2>5 DEF Typed
<1>9. QED
  BY <1>7, <1>8 DEF d

\* ... that load() takes, and reads as the settings it was written from.
LEMMA RoundTrip ==
  ASSUME Docs = Documents, NEW c, Usable(c)
  PROVE  Loaded(ConfigToJson(c)) = c
<1> DEFINE d == ConfigToJson(c)
           r == Overlaid(d, Defaults)
<1>1. d \in Documents /\ Typed(d)
  BY WrittenKnown
<1>2. Defaults \in AppConfigs /\ NumbersFit(Defaults)
  BY DefaultsUsable, UsableFits
<1>3. /\ d.schema = {c.schema} /\ d.name = {c.name} /\ d.locs = {ListToJson(c.locs)}
      /\ d.interval = {c.interval} /\ d.pattern = {PatternToJson(c.pattern)}
      /\ \A f \in DOMAIN Numbers : d.num[f] = {c.num[f]}
      /\ \A f \in Flags : d.flag[f] = {c.flag[f]}
  BY DEF ConfigToJson, ListToJson
<1> HIDE DEF d
<1>4. /\ r \in AppConfigs
      /\ r.schema = Given(d.schema, Defaults.schema) /\ r.name = Given(d.name, Defaults.name)
      /\ \A f \in DOMAIN Numbers : r.num[f] = Given(d.num[f], Defaults.num[f])
      /\ \A f \in Flags : r.flag[f] = Given(d.flag[f], Defaults.flag[f])
      /\ \A l \in d.locs : r.locs = LocationsOf(l)
      /\ r.interval = Given(d.interval, Defaults.interval)
      /\ \A p \in d.pattern : r.pattern = PatternOf(p, Defaults.pattern)
  BY <1>1, <1>2, OverlaidKnown
<1> HIDE DEF r
<1>5. c \in AppConfigs /\ c.schema = 2 /\ c.pattern \in PatternSet /\ PatternValid(c.pattern)
  BY DEF Usable, Valid, AppConfigs, PatternSet
<1>6. r.pattern = c.pattern
  <2>1. Defaults.pattern \in PatternSet
    BY <1>2 DEF AppConfigs, PatternSet
  <2>2. r.pattern = PatternOf(PatternToJson(c.pattern), Defaults.pattern)
    BY <1>3, <1>4
  <2>3. QED
    BY <1>5, <2>1, <2>2, PatternRoundTrip
<1>7. /\ r.schema = c.schema /\ r.name = c.name /\ r.locs = c.locs /\ r.interval = c.interval
      /\ \A f \in DOMAIN Numbers : r.num[f] = c.num[f]
      /\ \A f \in Flags : r.flag[f] = c.flag[f]
  <2>l. r.locs = c.locs
    <3>1. r.locs = LocationsOf(ListToJson(c.locs))
      BY <1>3, <1>4
    <3>2. /\ c.locs \in Seq(Locations) /\ Len(c.locs) <= MaxSelected /\ Distinct(c.locs)
          /\ \A i \in DOMAIN c.locs : LocationValid(c.locs[i])
      BY DEF Usable, Valid, AppConfigs
    <3>3. QED
      BY <3>1, <3>2, LocationsRoundTrip
  <2>1. r.schema = c.schema /\ r.name = c.name /\ r.interval = c.interval
    <3>1. /\ r.schema = Given({c.schema}, Defaults.schema)
          /\ r.name = Given({c.name}, Defaults.name)
          /\ r.interval = Given({c.interval}, Defaults.interval)
      BY <1>3, <1>4, Zenon
    <3>2. QED
      BY <3>1, GivenSingle, Zenon
  <2>2. ASSUME NEW f \in DOMAIN Numbers
        PROVE  r.num[f] = c.num[f]
    <3>1. r.num[f] = Given({c.num[f]}, Defaults.num[f])
      BY <1>3, <1>4, Zenon
    <3>2. QED
      BY <3>1, GivenSingle, Zenon
  <2>3. ASSUME NEW f \in Flags
        PROVE  r.flag[f] = c.flag[f]
    <3>1. r.flag[f] = Given({c.flag[f]}, Defaults.flag[f])
      BY <1>3, <1>4, Zenon
    <3>2. QED
      BY <3>1, GivenSingle, Zenon
  <2>4. QED
    BY <2>l, <2>1, <2>2, <2>3
<1>8. r = c
  <2>1. /\ r.num \in [DOMAIN Numbers -> Nat] /\ c.num \in [DOMAIN Numbers -> Nat]
        /\ r.flag \in [Flags -> BOOLEAN] /\ c.flag \in [Flags -> BOOLEAN]
    BY <1>4, <1>5 DEF AppConfigs
  <2>2. r.num = c.num
    BY <1>7, <2>1
  <2>3. r.flag = c.flag
    BY <1>7, <2>1
  <2>4. /\ r = [schema |-> r.schema, name |-> r.name, num |-> r.num, flag |-> r.flag,
                locs |-> r.locs, interval |-> r.interval, pattern |-> r.pattern]
        /\ c = [schema |-> c.schema, name |-> c.name, num |-> c.num, flag |-> c.flag,
                locs |-> c.locs, interval |-> c.interval, pattern |-> c.pattern]
    BY <1>4, <1>5 DEF AppConfigs
  <2>5. QED
    BY <1>6, <1>7, <2>2, <2>3, <2>4
<1>9. Migrated(r) = c
  BY <1>5, <1>8, MigratedKnown
<1>10. Accepts(d, Defaults) /\ ConfigFromJson(d, Defaults) = c
  BY <1>1, <1>9 DEF Accepts, ConfigFromJson, r, Usable
<1>11. d # Absent
  BY <1>1, ContentsAssumption
<1>12. QED
  BY <1>10, <1>11 DEF Loaded, d

-----------------------------------------------------------------------------
(* ConfigStore *)

\* What a handler knows while save() runs.
Handling ==
  pc # "Idle" =>
    /\ body \in Documents /\ Accepts(body, appCfg)
    /\ next = ConfigFromJson(body, appCfg)
    /\ doc = ConfigToJson(next)

\* The settings are valid and are those of the last document saved, or read at boot.
StoreIInv ==
  /\ IInv
  /\ Usable(appCfg) /\ Loaded(stored) = appCfg
  /\ Handling

LEMMA StoreInitInvariant ==
  ASSUME Docs = Documents, StoreInit
  PROVE  Init /\ StoreIInv
<1>1. path \in Docs \cup {Absent}
  BY BodiesAssumption DEF StoreInit
<1>2. doc \in Docs
  BY DefaultsUsable, WrittenKnown DEF StoreInit
<1>3. Init
  BY <1>1, <1>2 DEF StoreInit, Init
<1>4. Usable(appCfg) /\ Loaded(stored) = appCfg
  BY <1>1, LoadedUsable DEF StoreInit
<1>5. QED
  BY <1>3, <1>4, InitInvariant DEF StoreIInv, Handling, StoreInit

\* Only Cleanup answers 200.
LEMMA WriteMoves ==
  ASSUME Write
  PROVE  /\ pc # "Idle" /\ doc' = doc
         /\ \/ pc' # "Idle" /\ stored' = stored
            \/ pc' = "Idle" /\ pc = "Cleanup" /\ stored' = doc
            \/ pc' = "Idle" /\ pc # "Cleanup" /\ stored' = stored
<1> USE DEF Goto, Fail, Succeed
<1>1. CASE Open
  BY <1>1 DEF Open
<1>2. CASE Serialize
  BY <1>2 DEF Serialize
<1>3. CASE Check
  BY <1>3 DEF Check
<1>4. CASE DropBackup
  BY <1>4 DEF DropBackup
<1>5. CASE KeepCurrent
  BY <1>5 DEF KeepCurrent
<1>6. CASE Rename
  BY <1>6 DEF Rename
<1>7. CASE Restore
  BY <1>7 DEF Restore
<1>8. CASE Cleanup
  BY <1>8 DEF Cleanup
<1>9. QED
  BY <1>1, <1>2, <1>3, <1>4, <1>5, <1>6, <1>7, <1>8 DEF Write

\* A handler that has got to save() asks for a document.
LEMMA PutSaves ==
  ASSUME Docs = Documents, StoreIInv, NEW b \in Documents, PutConfig(b)
  PROVE  /\ \E d \in Docs : Save(d)
         /\ Usable(appCfg') /\ Loaded(stored') = appCfg' /\ Handling'
<1>1. /\ Accepts(b, appCfg) /\ next' = ConfigFromJson(b, appCfg)
      /\ Save(ConfigToJson(next')) /\ body' = b /\ appCfg' = appCfg
  BY DEF PutConfig
<1>2. Usable(appCfg) /\ Loaded(stored) = appCfg
  BY DEF StoreIInv
<1>3. Usable(next')
  BY <1>1, <1>2, AcceptedUsable
<1>4. ConfigToJson(next') \in Docs
  BY <1>3, WrittenKnown
<1>5. stored' = stored /\ doc' = ConfigToJson(next')
  BY <1>1 DEF Save, Goto
<1>6. QED
  BY <1>1, <1>2, <1>4, <1>5 DEF Handling

LEMMA StoreStep ==
  ASSUME Docs = Documents, StoreIInv, [StoreNext]_<<store, settings>>
  PROVE  /\ [Next]_vars
         /\ Usable(appCfg') /\ Loaded(stored') = appCfg' /\ Handling'
<1>1. Usable(appCfg) /\ Loaded(stored) = appCfg /\ Handling /\ IInv
  BY DEF StoreIInv
<1>2. Recovered \in Documents \cup {Absent}
  BY <1>1 DEF IInv, TypeOK, Recovered
<1>3. ASSUME NEW b \in Bodies, PutConfig(b)
      PROVE  [Next]_vars /\ Usable(appCfg') /\ Loaded(stored') = appCfg' /\ Handling'
  BY <1>3, PutSaves, BodiesAssumption DEF Next
<1>4. ASSUME NEW locs \in LocationLists, PutLocations(locs)
      PROVE  [Next]_vars /\ Usable(appCfg') /\ Loaded(stored') = appCfg' /\ Handling'
  <2> DEFINE b == [Empty EXCEPT !.locs = {locs}]
  <2>1. b \in Documents
    <3>1. locs \in Seq(JsonLocations)
      BY BodiesAssumption
    <3>2. {locs} \in Optional(Seq(JsonLocations))
      BY <3>1, SingleOptional
    <3>3. \A S : {} \in Optional(S)
      BY DEF Optional
    <3>4. /\ [f \in DOMAIN Numbers |-> {}] \in [DOMAIN Numbers -> Optional(Nat)]
          /\ [f \in Flags |-> {}] \in [Flags -> Optional(BOOLEAN)]
      BY <3>3
    <3>5. Empty \in Documents
      BY <3>3, <3>4 DEF Empty, Documents
    <3>6. QED
      BY <3>2, <3>5 DEF Documents
  <2>2. PutConfig(b)
    BY <1>4 DEF PutLocations
  <2> HIDE DEF b
  <2>3. QED
    BY <2>1, <2>2, PutSaves DEF Next
<1>5. CASE Write
  <2>1. [Next]_vars
    BY <1>5 DEF Write, Next
  <2>2. /\ pc # "Idle" /\ doc' = doc
        /\ \/ pc' # "Idle" /\ stored' = stored
           \/ pc' = "Idle" /\ pc = "Cleanup" /\ stored' = doc
           \/ pc' = "Idle" /\ pc # "Cleanup" /\ stored' = stored
    BY <1>5, WriteMoves
  <2>3. /\ pc' = "Idle" => appCfg' = (IF pc = "Cleanup" THEN next ELSE appCfg)
        /\ pc' # "Idle" => appCfg' = appCfg /\ next' = next /\ body' = body
    BY <1>5 DEF Write, Return, settings
  <2>4. /\ body \in Documents /\ Accepts(body, appCfg)
        /\ next = ConfigFromJson(body, appCfg) /\ doc = ConfigToJson(next)
    BY <1>1, <2>2 DEF Handling
  <2>5. Usable(next) /\ Loaded(doc) = next
    <3>1. Usable(next)
      BY <1>1, <2>4, AcceptedUsable
    <3>2. QED
      BY <2>4, <3>1, RoundTrip
  <2>6. CASE pc' # "Idle"
    BY <1>1, <2>1, <2>2, <2>3, <2>4, <2>6 DEF Handling
  <2>7. CASE pc' = "Idle" /\ pc = "Cleanup"
    BY <2>1, <2>2, <2>3, <2>5, <2>7 DEF Handling
  <2>8. CASE pc' = "Idle" /\ pc # "Cleanup"
    BY <1>1, <2>1, <2>2, <2>3, <2>8 DEF Handling
  <2>9. QED
    BY <2>6, <2>7, <2>8
<1>6. CASE Crash /\ Boot
  <2>1. pc' = "Idle" /\ stored' = Recovered /\ appCfg' = Loaded(Recovered)
    BY <1>6 DEF Crash, Boot
  <2>2. QED
    BY <1>2, <1>6, <2>1, LoadedUsable DEF Handling, Next
<1>7. CASE pc = "Idle" /\ Boot /\ UNCHANGED store
  <2>1. /\ pc' = "Idle" /\ stored' = stored /\ appCfg' = Loaded(Recovered) /\ UNCHANGED vars
    BY <1>7 DEF Boot, store, vars, files
  <2>2. Recovered = stored
    BY <1>1, <1>7 DEF IInv, Progress, Untouched
  <2>3. QED
    BY <1>1, <2>1, <2>2 DEF Handling
<1>8. CASE UNCHANGED <<store, settings>>
  BY <1>1, <1>8 DEF store, settings, vars, files, Handling
<1>9. QED
  BY <1>3, <1>4, <1>5, <1>6, <1>7, <1>8 DEF StoreNext

\* One fault at a time, whatever the bodies: the settings the device runs on are valid
\* and are those of the document on the disk.
THEOREM StoreInvariantHolds ==
  ASSUME MaxFaults = 1, Docs = Documents
  PROVE  StoreSpec => []StoreIInv
<1>1. StoreInit => StoreIInv
  BY StoreInitInvariant
<1>2. StoreIInv /\ [StoreNext]_<<store, settings>> => StoreIInv'
  BY StoreStep, StepType, StepProgress DEF StoreIInv, IInv
<1>3. QED
  BY <1>1, <1>2, PTL DEF StoreSpec

\* The handlers and the boots drive the file as AtomicJsonFile says, and write nothing
\* but documents: what is proved of the file holds under them.
THEOREM StoreRefinesFile ==
  ASSUME MaxFaults = 1, Docs = Documents
  PROVE  StoreSpec => Spec
<1>1. StoreInit => Init
  BY StoreInitInvariant
<1>2. StoreIInv /\ [StoreNext]_<<store, settings>> => [Next]_vars
  BY StoreStep
<1>3. QED
  BY <1>1, <1>2, StoreInvariantHolds, PTL DEF StoreSpec, Spec

\* Whatever is PUT, whatever file an older firmware left, whichever call fails and
\* wherever the power goes: between two writes RAM is what the next boot will read.
THEOREM BootFindsRamHolds ==
  ASSUME MaxFaults = 1, Docs = Documents
  PROVE  StoreSpec => []BootFindsRam
<1>1. StoreIInv => BootFindsRam
  BY DEF StoreIInv, IInv, Progress, Untouched, BootFindsRam
<1>2. QED
  BY <1>1, StoreInvariantHolds, PTL

\* A PUT that changes the settings sets every field its body gives to that value, whatever
\* its type's width, and no other, patterns and locations included.
THEOREM PutsAreExact ==
  ASSUME MaxFaults = 1, Docs = Documents
  PROVE  StoreSpec => PutIsExact
<1> DEFINE A == appCfg' # appCfg /\ body # Empty /\ ~Crash => Exact(body, appCfg, appCfg')
<1>1. ASSUME StoreIInv, [StoreNext]_<<store, settings>>, appCfg' # appCfg, ~Crash
      PROVE  Exact(body, appCfg, appCfg')
  <2>1. Usable(appCfg) /\ Loaded(stored) = appCfg /\ Handling /\ IInv
    BY <1>1 DEF StoreIInv
  <2>2. CASE Write
    <3>1. appCfg' = next /\ pc # "Idle"
      BY <1>1, <2>2, WriteMoves DEF Write, Return, settings
    <3>2. QED
      BY <2>1, <3>1, AcceptedExact DEF Handling
  <2>3. CASE pc = "Idle" /\ Boot /\ UNCHANGED store
    <3>1. Recovered = stored
      BY <2>1, <2>3 DEF IInv, Progress, Untouched
    <3>2. QED
      BY <1>1, <2>1, <2>3, <3>1 DEF Boot
  <2>4. QED
    BY <1>1, <2>2, <2>3 DEF StoreNext, PutLocations, PutConfig, settings
<1>2. StoreIInv /\ [StoreNext]_<<store, settings>> => [A]_<<store, settings>>
  BY <1>1
<1>3. QED
  BY <1>2, StoreInvariantHolds, PTL DEF StoreSpec, PutIsExact
=============================================================================
