---------------------------- MODULE AlertMatching ----------------------------
(***************************************************************************)
(* From the entries of an alerts body to the snapshot the AlertEngine is   *)
(* given: AlertsParser.h, LocationMatcher.cpp and SnapshotBuilder.h, with  *)
(* the catalogue in the device's flash.  Text and start times are left     *)
(* out.  An entry is [id, list], an alert in it [region, type, levels].    *)
(***************************************************************************)
EXTENDS Naturals, FiniteSets, FiniteSetsExt

CONSTANT Catalog  \* kLocationTable: [uid, oblast, raion], 0 for none

Coverages == <<"None", "Partial", "Full">>
MaxSelected == 16

-----------------------------------------------------------------------------
(* AlertsParser.h, Types.h *)

\* alertTypeFromApi(): a level that is not Yellow is red.
TypeFromApi(type, level) ==
  CASE type = "AIR" /\ level = "Yellow" -> "AirRaidYellow"
    [] type = "AIR" /\ level # "Yellow" -> "AirRaid"
    [] type = "ARTILLERY" -> "ArtilleryShelling"
    [] type = "URBAN_FIGHTS" -> "UrbanFights"
    [] type = "CHEMICAL" -> "Chemical"
    [] type = "NUCLEAR" -> "Nuclear"
    [] OTHER -> "Unknown"

\* An ungraded alert is red, and so is one with both levels.
Graded(a) ==
  LET yellow == {l \in a.levels : TypeFromApi(a.type, l) = "AirRaidYellow"}
  IN  IF a.levels # {} /\ yellow = a.levels THEN "AirRaidYellow"
      ELSE TypeFromApi(a.type, "Red")

\* regionToAlerts() over the whole body: messages are no threats.
Threats(entries) ==
  {[uid |-> a.region, type |-> Graded(a)] :
     a \in {b \in UNION {e.list : e \in entries} : b.region # 0 /\ b.type # "INFO"}}

-----------------------------------------------------------------------------
(* LocationCatalog, LocationMatcher *)

\* findByUid(), a binary search of a table sorted by uid
Known(uid) ==
  IF \E l \in Catalog : l.uid = uid THEN CHOOSE l \in Catalog : l.uid = uid
  ELSE [uid |-> uid, oblast |-> 0, raion |-> 0]

\* match(): 1 for none, 2 for partial, 3 for full, to be compared
Match(sel, uid) ==
  IF sel.uid = 0 \/ uid = 0 THEN 1
  ELSE IF uid \in {sel.uid, sel.oblast, sel.raion} THEN 3
  ELSE IF sel.uid \in {Known(uid).oblast, Known(uid).raion} THEN 2
  ELSE 1

-----------------------------------------------------------------------------
(* SnapshotBuilder *)

\* add(), for every alert: what a selected location is covered by ...
Cell(sel, t, threats) ==
  Max({1} \cup {Match(sel, a.uid) : a \in {b \in threats : b.type = t}})

\* ... and what the engine gets: the widest coverage, and how many are touched.
Snapshot(selected, entries) ==
  LET threats == Threats(entries)
  IN  [t \in {a.type : a \in threats} |->
         [coverage |-> Coverages[Max({1} \cup {Cell(l, t, threats) : l \in selected})],
          locs |-> Cardinality({l \in selected : Cell(l, t, threats) # 1})]]

\* The engine makes no difference between a type not in the body and one that
\* touches none of the selected locations.
Seen(snapshot) == {<<t, snapshot[t]>> : t \in {u \in DOMAIN snapshot : snapshot[u].locs > 0}}
=============================================================================
