----------------------------- MODULE ProxyProofs -----------------------------
(***************************************************************************)
(* The proxy, for any tree of regions, any types and levels, any regions   *)
(* asked for, any number of workers and any periods: the copies of an      *)
(* alert agree and a filter loses nothing; a 304 is sent only to a device  *)
(* that has what it would be sent.                                         *)
(***************************************************************************)
EXTENDS Proxy, FiniteSetTheorems, TLAPS

-----------------------------------------------------------------------------
(* Stamps *)

LEMMA MaxOfTwo ==
  ASSUME NEW a \in Nat, NEW b \in Nat
  PROVE  Max({a, b}) = IF a >= b THEN a ELSE b
<1> DEFINE m == IF a >= b THEN a ELSE b
           Largest(x) == x \in {a, b} /\ \A y \in {a, b} : x >= y
<1>1. Largest(m) /\ \A x : Largest(x) => x = m
  OBVIOUS
<1>2. Max({a, b}) = CHOOSE x \in {a, b} : \A y \in {a, b} : x >= y
  BY Zenon DEF Max
<1> HIDE DEF m
<1>3. QED
  BY <1>1, <1>2

LEMMA MaxOfOne == Max({1}) = 1
<1>1. Max({1, 1}) = 1
  BY MaxOfTwo
<1>2. QED
  BY <1>1

\* A stamp is later than the one before it, and no earlier than the change.
LEMMA StampsGrow ==
  ASSUME NEW prev \in Nat, NEW t \in Nat
  PROVE  NextStamp(prev, t) \in Nat /\ NextStamp(prev, t) > prev /\ NextStamp(prev, t) >= t
BY MaxOfTwo DEF NextStamp

LEMMA ValidatorKnown ==
  ASSUME TypeOK
  PROVE  /\ Validator \in Nat
         /\ Validator >= changedAt
         /\ Validator = changedAt \/ (catalog /\ Validator = regionsAt)
         /\ (catalog => changedAt > regionsAt) => Validator = changedAt
<1>1. changedAt \in Nat /\ regionsAt \in Nat
  BY DEF TypeOK
<1>2. Max({changedAt, regionsAt}) = IF changedAt >= regionsAt THEN changedAt ELSE regionsAt
  BY <1>1, MaxOfTwo
<1>3. QED
  BY <1>1, <1>2 DEF Validator

-----------------------------------------------------------------------------
(* Bodies *)

Announced == Begin \cup Events

Agree(entries) ==
  /\ \A e \in entries : e.list \in SUBSET Announced
  /\ \A e, f \in entries : \A a \in e.list, b \in f.list :
       /\ Same(a, b) => a = b
       /\ \E own \in entries : own.id = a.region /\ a \in own.list

\* The alerts there are: one of a region and a type.
Worldly(w) ==
  /\ w \in SUBSET Alerts /\ w \in SUBSET Announced
  /\ \A a, b \in w : Same(a, b) => a = b

LEMMA AlertsKnown ==
  /\ \A a \in Alerts : a.region \in Regions
  /\ \A ev \in Events : ev.region \in Regions /\ (ev.levels # {} => ev \in Alerts)
<1>1. \A a \in Alerts : a.region \in Regions
  BY DEF Alerts
<1>2. ASSUME NEW ev \in Events
      PROVE  ev.region \in Regions /\ (ev.levels # {} => ev \in Alerts)
  <2>1. ev \in [region : Regions, type : AlertTypes, levels : Levels \cup {{}}]
    BY ProxyAssumption
  <2>2. QED
    BY <2>1 DEF Alerts
<1>3. QED
  BY <1>1, <1>2

\* What the upstream sends.
LEMMA BodyAgrees ==
  ASSUME NEW w, Worldly(w)
  PROVE  Body(w) \in Bodies /\ Agree(Body(w).entries)
<1> DEFINE list(r) == {a \in w : a.region \in {r} \cup Ancestors(r)}
           entries == {[id |-> r, list |-> list(r)] : r \in {x \in Regions : list(x) # {}}}
<1>1. Body(w) = [by |-> "upstream", entries |-> entries]
  BY DEF Body
<1>2. w \in SUBSET Alerts /\ w \in SUBSET Announced /\ \A a, b \in w : Same(a, b) => a = b
  BY DEF Worldly
<1>3. ASSUME NEW e \in entries
      PROVE  e \in Entries /\ e.list \in SUBSET w
  <2>1. PICK r \in Regions : list(r) # {} /\ e = [id |-> r, list |-> list(r)]
    OBVIOUS
  <2>2. list(r) \in SUBSET w
    OBVIOUS
  <2> HIDE DEF list
  <2>3. QED
    BY <1>2, <2>1, <2>2 DEF Entries
<1>4. ASSUME NEW a \in w
      PROVE  \E own \in entries : own.id = a.region /\ a \in own.list
  <2>1. a.region \in Regions
    BY <1>2, AlertsKnown
  <2>2. a \in list(a.region)
    OBVIOUS
  <2>3. [id |-> a.region, list |-> list(a.region)] \in entries
    BY <2>1, <2>2
  <2> HIDE DEF list, entries
  <2>4. QED
    BY <2>2, <2>3
<1> HIDE DEF entries, list
<1>5. Agree(entries)
  BY <1>2, <1>3, <1>4 DEF Agree
<1>6. entries \in SUBSET Entries
  BY <1>3
<1>7. QED
  BY <1>1, <1>5, <1>6 DEF Bodies

\* A webhook rewrites every copy of an alert and keeps, or makes, its region's entry.
LEMMA ApplyAgrees ==
  ASSUME NEW entries \in SUBSET Entries, Agree(entries), NEW ev \in Events
  PROVE  ApplyEvent(entries, ev) \in SUBSET Entries /\ Agree(ApplyEvent(entries, ev))
<1> DEFINE rest(e) == {a \in e.list : ~Same(a, ev)}
           due(e) == ev.levels # {} /\ (rest(e) # e.list \/ e.id = ev.region)
           own(e) == e.id = ev.region
           list(e) == rest(e) \cup (IF due(e) THEN {ev} ELSE {})
           rewritten == {[e EXCEPT !.list = list(e)] : e \in entries}
           added == IF ev.levels = {} \/ \E e \in entries : own(e) THEN {}
                    ELSE {[id |-> ev.region, list |-> {ev}]}
           result == {e \in rewritten : e.list # {}} \cup added
<1>1. ApplyEvent(entries, ev) = result
  BY DEF ApplyEvent
<1>2. \A e \in entries : e = [id |-> e.id, list |-> e.list] /\ e.id \in Regions /\ e.list \in SUBSET Alerts
  BY DEF Entries
<1>3. ev.region \in Regions /\ (ev.levels # {} => ev \in Alerts) /\ ev \in Announced
  BY AlertsKnown DEF Announced
<1>4. ASSUME NEW e \in entries
      PROVE  /\ [e EXCEPT !.list = list(e)] = [id |-> e.id, list |-> list(e)]
             /\ list(e) \in SUBSET Alerts
             /\ \A a \in list(e) : \/ a \in e.list /\ ~Same(a, ev)
                                   \/ a = ev /\ ev.levels # {}
             /\ \A a \in e.list : ~Same(a, ev) => a \in list(e)
             /\ own(e) /\ ev.levels # {} => ev \in list(e)
  <2>1. [e EXCEPT !.list = list(e)] = [id |-> e.id, list |-> list(e)]
    <3> HIDE DEF list
    <3>1. QED
      BY <1>2
  <2>2. \A a \in list(e) : \/ a \in e.list /\ ~Same(a, ev)
                           \/ a = ev /\ ev.levels # {}
    OBVIOUS
  <2>3. list(e) \in SUBSET Alerts
    <3> HIDE DEF list
    <3>1. QED
      BY <1>2, <1>3, <2>2
  <2>4. \A a \in e.list : ~Same(a, ev) => a \in list(e)
    OBVIOUS
  <2>5. own(e) /\ ev.levels # {} => ev \in list(e)
    OBVIOUS
  <2>6. QED
    BY <2>1, <2>2, <2>3, <2>4, <2>5
<1>5. ASSUME NEW x \in result
      PROVE  /\ x \in Entries
             /\ \A a \in x.list : \/ ~Same(a, ev) /\ \E e \in entries : a \in e.list
                                  \/ a = ev /\ ev.levels # {}
  <2>1. CASE x \in rewritten /\ x.list # {}
    <3>1. PICK e \in entries : x = [id |-> e.id, list |-> list(e)]
      BY <1>4, <2>1
    <3>2. /\ list(e) \in SUBSET Alerts /\ e.id \in Regions
          /\ \A a \in list(e) : \/ a \in e.list /\ ~Same(a, ev)
                                \/ a = ev /\ ev.levels # {}
      BY <1>2, <1>4
    <3> HIDE DEF list
    <3>3. x.list = list(e) /\ list(e) # {}
      BY <2>1, <3>1
    <3>4. x \in Entries
      BY <3>1, <3>2, <3>3 DEF Entries
    <3>5. QED
      BY <3>2, <3>3, <3>4
  <2>2. CASE x \in added
    <3>1. x = [id |-> ev.region, list |-> {ev}] /\ ev.levels # {}
      BY <2>2
    <3>2. x.list = {ev} /\ {ev} \in (SUBSET Alerts) \ {{}}
      BY <1>3, <3>1
    <3>3. x \in Entries
      BY <1>3, <3>1, <3>2 DEF Entries
    <3>4. QED
      BY <3>1, <3>2, <3>3
  <2>3. QED
    BY <2>1, <2>2
<1>6. ASSUME NEW e \in entries, NEW a \in list(e)
      PROVE  \E x \in result : x.id = e.id /\ a \in x.list
  <2>1. [id |-> e.id, list |-> list(e)] \in result
    BY <1>4, <1>6
  <2> HIDE DEF list, result
  <2>2. QED
    BY <1>6, <2>1
<1>7. ASSUME NEW x \in result, NEW a \in x.list
      PROVE  \E y \in result : y.id = a.region /\ a \in y.list
  <2>1. CASE ~Same(a, ev) /\ \E e \in entries : a \in e.list
    <3>1. PICK e \in entries : e.id = a.region /\ a \in e.list
      BY <2>1 DEF Agree
    <3>2. a \in list(e)
      BY <1>4, <2>1, <3>1
    <3> HIDE DEF list, result
    <3>3. QED
      BY <1>6, <3>1, <3>2
  <2>2. CASE a = ev /\ ev.levels # {}
    <3>1. CASE \E e \in entries : own(e)
      <4>1. PICK e \in entries : own(e)
        BY <3>1
      <4>2. ev \in list(e)
        BY <1>4, <2>2, <4>1
      <4> HIDE DEF list, result
      <4>3. QED
        BY <1>3, <1>6, <2>2, <4>1, <4>2
    <3>2. CASE ~\E e \in entries : own(e)
      <4>1. [id |-> ev.region, list |-> {ev}] \in result
        BY <2>2, <3>2
      <4> HIDE DEF result
      <4>2. QED
        BY <1>3, <2>2, <4>1
    <3>3. QED
      BY <3>1, <3>2
  <2> HIDE DEF result, list
  <2>3. QED
    BY <1>5, <2>1, <2>2
<1>8. ASSUME NEW x \in result, NEW y \in result, NEW a \in x.list, NEW b \in y.list, Same(a, b)
      PROVE  a = b
  <2> HIDE DEF result, list
  <2>1. CASE ~Same(a, ev)
    <3>1. ~Same(b, ev)
      BY <1>8, <2>1 DEF Same
    <3>2. (\E e \in entries : a \in e.list) /\ (\E f \in entries : b \in f.list)
      BY <1>5, <2>1, <3>1 DEF Same
    <3>3. QED
      BY <1>8, <3>2 DEF Agree
  <2>2. CASE Same(a, ev)
    <3>1. Same(b, ev)
      BY <1>8, <2>2 DEF Same
    <3>2. QED
      BY <1>5, <2>2, <3>1
  <2>3. QED
    BY <2>1, <2>2
<1>9. ASSUME NEW x \in result
      PROVE  x.list \in SUBSET Announced
  <2> HIDE DEF result
  <2>1. QED
    BY <1>3, <1>5 DEF Agree
<1> HIDE DEF result
<1>10. QED
  BY <1>1, <1>5, <1>7, <1>8, <1>9 DEF Agree

-----------------------------------------------------------------------------
(* The filter *)

LEMMA KnownUid == \A r : Known(r).uid = r
BY DEF Known

\* A region whose alert touches a selected one is that one, one it is in, or one in it.
LEMMA MatchRelates ==
  ASSUME NEW r \in Regions, NEW s \in Regions, Match(Known(r), s) # 1
  PROVE  s = r \/ s \in Ancestors(r) \/ r \in Ancestors(s)
<1>1. r # 0 /\ s # 0
  BY KnownUid DEF Match
<1>2. \/ s \in {r, Known(r).oblast, Known(r).raion}
      \/ r \in {Known(s).oblast, Known(s).raion}
  BY KnownUid DEF Match
<1>3. QED
  BY <1>1, <1>2, CatalogAssumption

\* Filtering loses nothing.
LEMMA SelectKeeps ==
  ASSUME NEW entries \in SUBSET Entries, Agree(entries), NEW wanted \in SUBSET Regions
  PROVE  Picture(wanted, Select(entries, wanted)) = Picture(wanted, entries)
<1> DEFINE some == Select(entries, wanted)
           selected == {Known(r) : r \in wanted}
           few == Threats(some)
           all == Threats(entries)
<1>1. some \in SUBSET entries
  BY DEF Select
<1>2. few \in SUBSET all
  BY <1>1 DEF Threats
<1>3. ASSUME NEW sel \in selected, NEW a \in all, Match(sel, a.uid) # 1
      PROVE  a \in few
  <2>1. PICK r \in wanted : sel = Known(r)
    OBVIOUS
  <2>2. PICK e \in entries : \E b \in e.list :
               b.region # 0 /\ b.type # "INFO" /\ a = [uid |-> b.region, type |-> Graded(b)]
    BY DEF Threats
  <2>3. PICK b \in e.list :
               b.region # 0 /\ b.type # "INFO" /\ a = [uid |-> b.region, type |-> Graded(b)]
    BY <2>2
  <2>4. PICK own \in entries : own.id = b.region /\ b \in own.list
    BY <2>2, <2>3 DEF Agree
  <2>5. b.region \in Regions
    BY <2>4 DEF Entries
  <2>6. b.region = r \/ b.region \in Ancestors(r) \/ r \in Ancestors(b.region)
    BY <1>3, <2>1, <2>3, <2>5, MatchRelates
  <2>7. own \in some
    BY <2>4, <2>6 DEF Select
  <2> HIDE DEF some
  <2>8. QED
    BY <2>3, <2>4, <2>7 DEF Threats
<1> HIDE DEF some, few, all, selected
<1> DEFINE Of(threats, t) == {a \in threats : a.type = t}
           Matches(sel, t, threats) == {1} \cup {Match(sel, a.uid) : a \in Of(threats, t)}
<1>4. ASSUME NEW sel \in selected, NEW t
      PROVE  Cell(sel, t, few) = Cell(sel, t, all)
  <2>1. Matches(sel, t, few) = Matches(sel, t, all)
    BY <1>2, <1>3
  <2>2. /\ Cell(sel, t, few) = Max(Matches(sel, t, few))
        /\ Cell(sel, t, all) = Max(Matches(sel, t, all))
    BY Zenon DEF Cell
  <2> HIDE DEF Matches
  <2>3. QED
    BY <2>1, <2>2
<1> DEFINE Types(threats) == {a.type : a \in threats}
           Touched(t, threats) == {l \in selected : Cell(l, t, threats) # 1}
           View(t, threats) ==
             [coverage |-> Coverages[Max({1} \cup {Cell(l, t, threats) : l \in selected})],
              locs |-> Cardinality(Touched(t, threats))]
           Snap(threats) == [t \in Types(threats) |-> View(t, threats)]
<1>5. ASSUME NEW t
      PROVE  View(t, few) = View(t, all)
  <2>1. {Cell(l, t, few) : l \in selected} = {Cell(l, t, all) : l \in selected}
    BY <1>4
  <2>2. Touched(t, few) = Touched(t, all)
    BY <1>4
  <2> HIDE DEF Touched
  <2>3. QED
    BY <2>1, <2>2, Zenon
<1>6. Types(few) \in SUBSET Types(all)
  BY <1>2
<1>7. ASSUME NEW t \in Types(all), t \notin Types(few)
      PROVE  View(t, all).locs = 0
  <2>1. ASSUME NEW l \in selected
        PROVE  Cell(l, t, few) = 1
    <3>1. Matches(l, t, few) = {1}
      BY <1>7
    <3>2. Cell(l, t, few) = Max(Matches(l, t, few))
      BY Zenon DEF Cell
    <3> HIDE DEF Matches
    <3>3. QED
      BY <3>1, <3>2, MaxOfOne
  <2>2. Touched(t, all) = {}
    BY <1>4, <2>1
  <2>3. View(t, all).locs = Cardinality(Touched(t, all))
    OBVIOUS
  <2> HIDE DEF Touched, View
  <2>4. QED
    BY <2>2, <2>3, FS_EmptySet
<1>8. /\ Picture(wanted, some) = Seen(Snap(few))
      /\ Picture(wanted, entries) = Seen(Snap(all))
  BY Zenon DEF Picture, Snapshot, few, all, selected, some
<1> DEFINE Sights(threats) == {<<t, View(t, threats)>> : t \in {u \in Types(threats) : View(u, threats).locs > 0}}
<1>9. Seen(Snap(few)) = Sights(few) /\ Seen(Snap(all)) = Sights(all)
  <2> HIDE DEF View, Types
  <2>1. QED
    BY DEF Seen
<1>10. Sights(few) = Sights(all)
  <2> HIDE DEF View, Types
  <2>1. \A t : t \in Types(few) /\ View(t, few).locs > 0 <=> t \in Types(all) /\ View(t, all).locs > 0
    BY <1>5, <1>6, <1>7
  <2>2. QED
    BY <1>5, <2>1
<1>11. QED
  BY <1>8, <1>9, <1>10, Zenon DEF some

-----------------------------------------------------------------------------
(* The proxy *)

AlertsAgree == alerts # NoBody => Agree(alerts.entries)

FlightsAgree == \A f \in flights : f.body # NoBody => Agree(f.body.entries)

\* What the device has, or is about to be sent, is no later than what the dictionary
\* says; and there is a stamp only where there is a body.
Stamped ==
  /\ writing # 0 \/ changedAt # 0 => alerts # NoBody
  /\ serving # NoRequest =>
       changedAt # 0 /\ (serving.stamp <= changedAt \/ (catalog /\ serving.stamp <= regionsAt))
  /\ lm <= changedAt \/ (catalog /\ lm <= regionsAt)

\* A worker's body is one there was; when nobody writes, that of the stamp it goes by.
CacheAgrees ==
  \A w \in Workers :
    /\ cache[w].at <= changedAt
    /\ cache[w].at # 0 => cache[w].body \in Bodies /\ Agree(cache[w].body.entries)
    /\ cache[w].at # 0 /\ cache[w].at = changedAt /\ writing = 0 => cache[w].body = alerts

IInv ==
  /\ TypeOK /\ Worldly(world) /\ AlertsAgree /\ FlightsAgree
  /\ Stamped /\ CacheAgrees /\ NotModifiedIsTrue

LEMMA InitInvariant == Init => IInv
<1> SUFFICES ASSUME Init
             PROVE  IInv
  OBVIOUS
<1>1. Start \in Nat \ {0} /\ Seeded \in BOOLEAN
  BY ProxyAssumption
<1>2. regionsAt \in Nat /\ catalog \in BOOLEAN
  BY <1>1 DEF Init
<1>3. Worldly(world)
  BY ProxyAssumption DEF Init, Worldly, Announced
<1>4. cache \in [Workers -> [at : Nat, body : Bodies \cup {NoBody}]]
  BY DEF Init
<1>5. TypeOK
  BY <1>1, <1>2, <1>3, <1>4 DEF Init, TypeOK, Worldly
<1>6. AlertsAgree /\ FlightsAgree /\ NotModifiedIsTrue
  BY DEF Init, AlertsAgree, FlightsAgree, NotModifiedIsTrue
<1>7. Stamped /\ CacheAgrees
  BY DEF Init, Stamped, CacheAgrees
<1>8. QED
  BY <1>3, <1>5, <1>6, <1>7 DEF IInv

\* The parts of the invariant that look at what a device is served.
Served == AlertsAgree /\ Stamped /\ CacheAgrees /\ NotModifiedIsTrue

serves == <<alerts, changedAt, catalog, regionsAt, writing, cache, serving, lm, got>>

LEMMA ServedKept ==
  ASSUME Served, UNCHANGED serves
  PROVE  Served'
<1>1. AlertsAgree'
  BY DEF Served, serves, AlertsAgree
<1>2. Stamped'
  BY DEF Served, serves, Stamped
<1>3. CacheAgrees'
  BY DEF Served, serves, CacheAgrees
<1>4. NotModifiedIsTrue'
  BY DEF Served, serves, NotModifiedIsTrue, Validator
<1>5. QED
  BY <1>1, <1>2, <1>3, <1>4 DEF Served

\* A body that is stored is not yet stamped: whatever a device has, its next question
\* is answered with it.
LEMMA StoreKeeps ==
  ASSUME TypeOK, Served, NEW body \in Bodies, Agree(body.entries), NEW t \in Nat \ {0},
         Store(body, t), UNCHANGED <<catalog, regionsAt, cache, device>>
  PROVE  /\ alerts' \in Bodies \cup {NoBody} /\ writing' \in Nat /\ changedAt' = changedAt
         /\ Served'
<1>1. CASE body = alerts
  <2>1. UNCHANGED serves
    BY <1>1 DEF Store, serves, device
  <2>2. QED
    BY <2>1, ServedKept DEF serves, TypeOK
<1>2. CASE body # alerts
  <2>1. alerts' = body /\ writing' = t /\ changedAt' = changedAt /\ alerts' # NoBody
    BY <1>2, ProxyAssumption DEF Store
  <2>2. AlertsAgree'
    BY <2>1 DEF AlertsAgree
  <2>3. Stamped'
    BY <2>1 DEF Served, Stamped, device
  <2>4. CacheAgrees'
    BY <2>1 DEF Served, CacheAgrees
  <2>5. NotModifiedIsTrue'
    BY <2>1 DEF NotModifiedIsTrue
  <2>6. QED
    BY <2>1, <2>2, <2>3, <2>4, <2>5 DEF Served
<1>3. QED
  BY <1>1, <1>2

-----------------------------------------------------------------------------
(* The steps *)

Kept == TypeOK /\ Worldly(world) /\ Served /\ FlightsAgree

LEMMA ChangeKeeps ==
  ASSUME Kept, NEW ev \in Events, Change(ev)
  PROVE  Kept'
<1> DEFINE kept == {a \in world : ~Same(a, ev)}
<1>1. /\ world' = kept \cup (IF ev.levels = {} THEN {} ELSE {ev})
      /\ events' = events \cup {ev}
      /\ UNCHANGED <<flights, dict, cache, device, now>>
  BY DEF Change
<1>2. Worldly(world)'
  <2>1. Worldly(world) /\ (ev.levels # {} => ev \in Alerts) /\ ev \in Announced
    BY AlertsKnown DEF Kept, Announced
  <2>2. ASSUME NEW a \in world'
        PROVE  \/ a \in world /\ ~Same(a, ev)
               \/ a = ev /\ ev.levels # {}
    BY <1>1
  <2>3. ASSUME NEW a \in world', NEW b \in world', Same(a, b)
        PROVE  a = b
    BY <2>1, <2>2, <2>3 DEF Worldly, Same
  <2>4. world' \in SUBSET Alerts /\ world' \in SUBSET Announced
    BY <2>1, <2>2 DEF Worldly
  <2>5. QED
    BY <2>3, <2>4 DEF Worldly
<1>3. TypeOK'
  BY <1>1, <1>2 DEF Kept, TypeOK, dict, device, Worldly
<1>4. Served'
  BY <1>1, ServedKept DEF Kept, dict, device, serves
<1>5. QED
  BY <1>1, <1>2, <1>3, <1>4 DEF Kept, FlightsAgree

LEMMA TickKeeps ==
  ASSUME Kept, Tick
  PROVE  Kept'
<1>1. PICK body \in {NoBody, Body(world)} : flights' = flights \cup {[at |-> now, body |-> body]}
  BY DEF Tick
<1>2. Body(world) \in Bodies /\ Agree(Body(world).entries)
  BY BodyAgrees DEF Kept
<1>3. regionsTry' \in Nat
  BY DEF Kept, TypeOK, Tick
<1>4. flights' \subseteq [at : Nat \ {0}, body : Bodies \cup {NoBody}]
  BY <1>1, <1>2 DEF Kept, TypeOK
<1>5. FlightsAgree'
  BY <1>1, <1>2 DEF Kept, FlightsAgree
<1>6. TypeOK'
  BY <1>3, <1>4 DEF Kept, TypeOK, Tick, upstream, device
<1>7. Served' /\ Worldly(world)'
  BY ServedKept DEF Kept, Tick, device, serves, upstream
<1>8. QED
  BY <1>5, <1>6, <1>7 DEF Kept

\* The stamp is later than any a device has been given, or a worker goes by.
LEMMA StampKeeps ==
  ASSUME Kept, Stamp
  PROVE  Kept'
<1>1. /\ writing # 0 /\ writing' = 0 /\ changedAt' = NextStamp(changedAt, writing)
      /\ UNCHANGED <<upstream, alerts, catalog, regionsAt, cache, device>>
  BY DEF Stamp
<1>2. /\ changedAt \in Nat /\ writing \in Nat /\ regionsAt \in Nat /\ lm \in Nat
      /\ serving # NoRequest => serving.stamp \in Nat
      /\ \A w \in Workers : cache[w].at \in Nat
  BY DEF Kept, TypeOK, Requests
<1>3. changedAt' \in Nat /\ changedAt' > changedAt
  BY <1>1, <1>2, StampsGrow
<1>4. TypeOK'
  BY <1>1, <1>3 DEF Kept, TypeOK, Stamp, upstream, device
<1>5. AlertsAgree' /\ FlightsAgree' /\ Worldly(world)'
  BY <1>1 DEF Kept, Served, AlertsAgree, FlightsAgree, Stamp, upstream
<1>6. Stamped'
  BY <1>1, <1>2, <1>3 DEF Kept, Served, Stamped, device
<1>7. CacheAgrees'
  BY <1>1, <1>2, <1>3 DEF Kept, Served, CacheAgrees
<1>8. NotModifiedIsTrue'
  <2>1. SUFFICES ASSUME lm' = Validator', catalog' => changedAt' > regionsAt'
                 PROVE  FALSE
    BY DEF NotModifiedIsTrue
  <2>2. Validator' = changedAt'
    <3>1. Max({changedAt', regionsAt'}) = IF changedAt' >= regionsAt' THEN changedAt' ELSE regionsAt'
      BY <1>1, <1>2, <1>3, MaxOfTwo
    <3>2. QED
      BY <1>1, <1>2, <1>3, <2>1, <3>1 DEF Validator
  <2>3. lm <= changedAt \/ (catalog /\ lm <= regionsAt)
    BY DEF Kept, Served, Stamped
  <2>4. QED
    BY <1>1, <1>2, <1>3, <2>1, <2>2, <2>3 DEF device
<1>9. QED
  BY <1>4, <1>5, <1>6, <1>7, <1>8 DEF Kept, Served

LEMMA ArriveAlertsKeeps ==
  ASSUME Kept, ArriveAlerts
  PROVE  Kept'
<1>1. PICK f \in flights :
        /\ f.body # NoBody /\ Store(f.body, f.at) /\ alertsAt' = f.at /\ flights' = flights \ {f}
        /\ UNCHANGED <<upstream, catalog, regionsAt, regionsTry, cache, device, now>>
  BY DEF ArriveAlerts, Reconcile
<1>2. f.body \in Bodies /\ f.at \in Nat \ {0} /\ Agree(f.body.entries)
  BY <1>1 DEF Kept, TypeOK, FlightsAgree
<1>3. /\ alerts' \in Bodies \cup {NoBody} /\ writing' \in Nat /\ changedAt' = changedAt
      /\ Served'
  BY <1>1, <1>2, StoreKeeps DEF Kept
<1>4. TypeOK' /\ FlightsAgree' /\ Worldly(world)'
  BY <1>1, <1>2, <1>3 DEF Kept, TypeOK, FlightsAgree, upstream, device
<1>5. QED
  BY <1>3, <1>4 DEF Kept

\* A catalogue's stamp is later than the last one's, so that it is not behind now
\* where it was not before.
LEMMA ArriveRegionsKeeps ==
  ASSUME Kept, ArriveRegions
  PROVE  Kept'
<1>1. PICK f \in flights :
        /\ catalog' = TRUE /\ regionsAt' = NextStamp(regionsAt, f.at) /\ flights' = flights \ {f}
        /\ UNCHANGED <<upstream, alerts, changedAt, alertsAt, regionsTry, writing, cache, device, now>>
  BY DEF ArriveRegions
<1>2. /\ changedAt \in Nat /\ regionsAt \in Nat /\ lm \in Nat /\ f.at \in Nat
      /\ serving # NoRequest => serving.stamp \in Nat
  BY DEF Kept, TypeOK, Requests
<1>3. regionsAt' \in Nat /\ regionsAt' > regionsAt
  BY <1>1, <1>2, StampsGrow
<1>4. TypeOK' /\ FlightsAgree' /\ Worldly(world)'
  BY <1>1, <1>3 DEF Kept, TypeOK, FlightsAgree, upstream, device
<1>5. AlertsAgree' /\ CacheAgrees'
  BY <1>1 DEF Kept, Served, AlertsAgree, CacheAgrees
<1>6. Stamped'
  BY <1>1, <1>2, <1>3 DEF Kept, Served, Stamped, device
<1>7. NotModifiedIsTrue'
  <2>1. SUFFICES ASSUME lm # 0, lm = Validator', writing = 0, changedAt > regionsAt'
                 PROVE  got = Picture(Ids, alerts.entries)
    BY <1>1 DEF NotModifiedIsTrue, device
  <2>2. Max({changedAt, regionsAt'}) = IF changedAt >= regionsAt' THEN changedAt ELSE regionsAt'
    BY <1>2, <1>3, MaxOfTwo
  <2>3. lm = changedAt
    BY <1>1, <1>2, <1>3, <2>1, <2>2 DEF Validator
  <2>4. changedAt > regionsAt
    BY <1>2, <1>3, <2>1
  <2>5. Validator = changedAt
    BY <2>4, ValidatorKnown DEF Kept
  <2>6. QED
    BY <2>1, <2>3, <2>4, <2>5 DEF Kept, Served, NotModifiedIsTrue
<1>8. QED
  BY <1>4, <1>5, <1>6, <1>7 DEF Kept, Served

LEMMA WebhookKeeps ==
  ASSUME Kept, NEW ev \in events, Webhook(ev)
  PROVE  Kept'
<1> DEFINE body == [by |-> "proxy", entries |-> ApplyEvent(alerts.entries, ev)]
<1>1. /\ events' = events \ {ev} /\ alertsAt' = alertsAt /\ flights' = flights
      /\ UNCHANGED <<world, catalog, regionsAt, regionsTry, cache, device, now>>
  BY DEF Webhook
<1>2. /\ alerts' \in Bodies \cup {NoBody} /\ writing' \in Nat /\ changedAt' = changedAt
      /\ Served'
  <2>1. CASE alerts = NoBody
    <3>1. UNCHANGED serves
      BY <1>1, <2>1 DEF Webhook, serves, device
    <3>2. QED
      BY <3>1, ServedKept DEF Kept, TypeOK, serves
  <2>2. CASE alerts # NoBody
    <3>1. alerts.entries \in SUBSET Entries /\ Agree(alerts.entries)
      BY <2>2 DEF Kept, Served, TypeOK, Bodies, AlertsAgree
    <3>2. ev \in Events
      BY DEF Kept, TypeOK
    <3>3. body \in Bodies /\ Agree(body.entries)
      BY <3>1, <3>2, ApplyAgrees DEF Bodies
    <3>4. Store(body, now)
      BY <2>2 DEF Webhook
    <3>5. now \in Nat \ {0}
      BY DEF Kept, TypeOK
    <3> HIDE DEF body
    <3>6. QED
      BY <1>1, <3>3, <3>4, <3>5, StoreKeeps DEF Kept
  <2>3. QED
    BY <2>1, <2>2
<1>3. TypeOK' /\ FlightsAgree' /\ Worldly(world)'
  BY <1>1, <1>2 DEF Kept, TypeOK, FlightsAgree, device
<1>4. QED
  BY <1>2, <1>3 DEF Kept

LEMMA ServeStampKeeps ==
  ASSUME Kept, NEW w \in Workers, ServeStamp(w)
  PROVE  Kept'
<1>1. /\ changedAt # 0 /\ serving' = [worker |-> w, stamp |-> Validator, parents |-> catalog]
      /\ UNCHANGED <<upstream, flights, dict, cache, lm, got, now>>
  BY DEF ServeStamp
<1>2. /\ Validator \in Nat /\ Validator >= changedAt
      /\ Validator = changedAt \/ (catalog /\ Validator = regionsAt)
  BY ValidatorKnown DEF Kept
<1>3. changedAt \in Nat /\ regionsAt \in Nat /\ catalog \in BOOLEAN
  BY DEF Kept, TypeOK
<1>4. serving' \in Requests /\ serving'.stamp = Validator
  BY <1>1, <1>2, <1>3 DEF Requests
<1>5. TypeOK' /\ FlightsAgree' /\ Worldly(world)'
  BY <1>1, <1>4 DEF Kept, TypeOK, FlightsAgree, upstream, dict
<1>6. AlertsAgree' /\ CacheAgrees'
  BY <1>1 DEF Kept, Served, AlertsAgree, CacheAgrees, dict
<1>7. Stamped'
  <2>1. UNCHANGED <<writing, changedAt, alerts, catalog, regionsAt, lm>>
    BY <1>1 DEF dict
  <2>2. QED
    BY <1>1, <1>2, <1>3, <1>4, <2>1 DEF Kept, Served, Stamped
<1>8. NotModifiedIsTrue'
  BY <1>1 DEF Kept, Served, NotModifiedIsTrue, Validator, dict
<1>9. QED
  BY <1>5, <1>6, <1>7, <1>8 DEF Kept, Served

\* An answer with the body there is: the stamp is the one that was read before it.
LEMMA AnswerKeeps ==
  ASSUME Kept, serving # NoRequest, NEW entries, Answer(entries),
         UNCHANGED <<upstream, flights, dict, now>>,
         writing = 0 => Picture(Ids, entries) = Picture(Ids, alerts.entries)
  PROVE  /\ {lm'} \subseteq Nat /\ serving' = NoRequest
         /\ AlertsAgree' /\ FlightsAgree' /\ Worldly(world)' /\ Stamped' /\ NotModifiedIsTrue'
<1>1. lm' = serving.stamp /\ got' = Picture(Ids, entries) /\ serving' = NoRequest
  BY DEF Answer
<1>2. serving.stamp \in Nat
  BY DEF Kept, TypeOK, Requests
<1>3. AlertsAgree' /\ FlightsAgree' /\ Worldly(world)'
  BY DEF Kept, Served, AlertsAgree, FlightsAgree, upstream, dict
<1>4. Stamped'
  BY <1>1 DEF Kept, Served, Stamped, dict
<1>5. NotModifiedIsTrue'
  <2>1. SUFFICES ASSUME writing' = 0
                 PROVE  got' = Picture(Ids, alerts'.entries)
    BY DEF NotModifiedIsTrue
  <2>2. writing = 0 /\ alerts' = alerts
    BY <2>1 DEF dict
  <2>3. QED
    BY <1>1, <2>2
<1>6. QED
  BY <1>1, <1>2, <1>3, <1>4, <1>5

\* What has been decoded by the last stamp is the body there is, unless it is about to
\* get a new stamp.
LEMMA ServeBodyKeeps ==
  ASSUME Kept, ServeBody
  PROVE  Kept'
<1> DEFINE mine == cache[serving.worker]
<1>1. serving # NoRequest /\ UNCHANGED <<upstream, flights, dict, cache, now>>
  BY DEF ServeBody
<1>2. changedAt # 0 /\ serving.worker \in Workers
  BY <1>1 DEF Kept, Served, Stamped, TypeOK, Requests
<1>3. PICK entries :
        Answer(entries) /\ (writing = 0 => Picture(Ids, entries) = Picture(Ids, alerts.entries))
  <2>1. CASE ~serving.parents /\ Answer(alerts.entries)
    BY <2>1
  <2>2. CASE mine.at = changedAt /\ Answer(Select(mine.body.entries, Ids))
    <3>1. mine.body \in Bodies /\ Agree(mine.body.entries) /\ (writing = 0 => mine.body = alerts)
      BY <1>2, <2>2 DEF Kept, Served, CacheAgrees
    <3> HIDE DEF mine
    <3>2. mine.body.entries \in SUBSET Entries
      BY <3>1 DEF Bodies
    <3>3. Picture(Ids, Select(mine.body.entries, Ids)) = Picture(Ids, mine.body.entries)
      BY <3>1, <3>2, SelectKeeps, ProxyAssumption
    <3>4. QED
      BY <2>2, <3>1, <3>3
  <2>3. QED
    BY <2>1, <2>2 DEF ServeBody
<1>4. /\ {lm'} \subseteq Nat /\ serving' = NoRequest
      /\ AlertsAgree' /\ FlightsAgree' /\ Worldly(world)' /\ Stamped' /\ NotModifiedIsTrue'
  BY <1>1, <1>3, AnswerKeeps
<1>5. TypeOK'
  BY <1>1, <1>4 DEF Kept, TypeOK, upstream, dict
<1>6. CacheAgrees'
  BY <1>1 DEF Kept, Served, CacheAgrees, dict
<1>7. QED
  BY <1>4, <1>5, <1>6 DEF Kept, Served

\* A worker decodes the body there is, by the stamp there is.
LEMMA CacheKeeps ==
  ASSUME Kept, NEW w \in Workers, changedAt # 0, UNCHANGED dict,
         cache' = [cache EXCEPT ![w] = [at |-> changedAt, body |-> alerts]]
  PROVE  cache' \in [Workers -> [at : Nat, body : Bodies \cup {NoBody}]] /\ CacheAgrees'
<1>1. alerts \in Bodies /\ Agree(alerts.entries) /\ changedAt \in Nat
  BY DEF Kept, Served, Stamped, AlertsAgree, TypeOK
<1>2. cache' \in [Workers -> [at : Nat, body : Bodies \cup {NoBody}]]
  BY <1>1 DEF Kept, TypeOK
<1>3. \A v \in Workers : cache'[v] = IF v = w THEN [at |-> changedAt, body |-> alerts] ELSE cache[v]
  BY DEF Kept, TypeOK
<1>4. UNCHANGED <<changedAt, writing, alerts>>
  BY DEF dict
<1>5. CacheAgrees'
  BY <1>1, <1>3, <1>4 DEF Kept, Served, CacheAgrees
<1>6. QED
  BY <1>2, <1>5

LEMMA ServeDecodedKeeps ==
  ASSUME Kept, ServeDecoded
  PROVE  Kept'
<1>1. /\ serving # NoRequest /\ Answer(Select(alerts.entries, Ids))
      /\ cache' = [cache EXCEPT ![serving.worker] = [at |-> changedAt, body |-> alerts]]
      /\ UNCHANGED <<upstream, flights, dict, now>>
  BY DEF ServeDecoded
<1>2. changedAt # 0 /\ serving.worker \in Workers
  BY <1>1 DEF Kept, Served, Stamped, TypeOK, Requests
<1>3. alerts.entries \in SUBSET Entries /\ Agree(alerts.entries)
  BY <1>2 DEF Kept, Served, Stamped, TypeOK, Bodies, AlertsAgree
<1>4. Picture(Ids, Select(alerts.entries, Ids)) = Picture(Ids, alerts.entries)
  BY <1>3, SelectKeeps, ProxyAssumption
<1>5. /\ {lm'} \subseteq Nat /\ serving' = NoRequest
      /\ AlertsAgree' /\ FlightsAgree' /\ Worldly(world)' /\ Stamped' /\ NotModifiedIsTrue'
  BY <1>1, <1>4, AnswerKeeps
<1>6. cache' \in [Workers -> [at : Nat, body : Bodies \cup {NoBody}]] /\ CacheAgrees'
  BY <1>1, <1>2, CacheKeeps
<1>7. TypeOK'
  BY <1>1, <1>5, <1>6 DEF Kept, TypeOK, upstream, dict
<1>8. QED
  BY <1>5, <1>6, <1>7 DEF Kept, Served

LEMMA ServeOtherKeeps ==
  ASSUME Kept, NEW w \in Workers, ServeOther(w)
  PROVE  Kept'
<1>1. /\ changedAt # 0 /\ UNCHANGED <<upstream, flights, dict, device, now>>
      /\ cache' = [cache EXCEPT ![w] = [at |-> changedAt, body |-> alerts]]
  BY DEF ServeOther
<1>2. cache' \in [Workers -> [at : Nat, body : Bodies \cup {NoBody}]] /\ CacheAgrees'
  BY <1>1, CacheKeeps
<1>3. TypeOK' /\ FlightsAgree' /\ Worldly(world)'
  BY <1>1, <1>2 DEF Kept, TypeOK, FlightsAgree, upstream, dict, device
<1>4. AlertsAgree' /\ Stamped'
  BY <1>1 DEF Kept, Served, AlertsAgree, Stamped, dict, device
<1>5. NotModifiedIsTrue'
  BY <1>1 DEF Kept, Served, NotModifiedIsTrue, Validator, dict, device
<1>6. QED
  BY <1>2, <1>3, <1>4, <1>5 DEF Kept, Served

LEMMA StepInvariant == IInv /\ [Next]_vars => IInv'
<1> SUFFICES ASSUME Kept, [Next]_vars
             PROVE  Kept'
  BY DEF IInv, Kept, Served
<1>1. ASSUME NEW ev \in Events, Change(ev)
      PROVE  Kept'
  BY <1>1, ChangeKeeps
<1>2. CASE Tick
  BY <1>2, TickKeeps
<1>3. CASE Stamp
  BY <1>3, StampKeeps
<1>4. CASE ArriveAlerts
  BY <1>4, ArriveAlertsKeeps
<1>5. CASE ArriveRegions
  BY <1>5, ArriveRegionsKeeps
<1>6. CASE Fail
  <2>1. Served'
    BY <1>6, ServedKept DEF Fail, Kept, dict, device, serves
  <2>2. TypeOK' /\ FlightsAgree' /\ Worldly(world)'
    BY <1>6 DEF Fail, Kept, TypeOK, FlightsAgree, upstream, dict, device
  <2>3. QED
    BY <2>1, <2>2 DEF Kept
<1>7. ASSUME NEW ev \in events, Webhook(ev)
      PROVE  Kept'
  BY <1>7, WebhookKeeps
<1>8. ASSUME NEW ev \in events, LoseEvent(ev)
      PROVE  Kept'
  <2>1. Served'
    BY <1>8, ServedKept DEF LoseEvent, Kept, dict, device, serves
  <2>2. TypeOK' /\ FlightsAgree' /\ Worldly(world)'
    BY <1>8 DEF LoseEvent, Kept, TypeOK, FlightsAgree, dict, device
  <2>3. QED
    BY <2>1, <2>2 DEF Kept
<1>9. ASSUME NEW w \in Workers, ServeStamp(w) \/ ServeOther(w)
      PROVE  Kept'
  BY <1>9, ServeStampKeeps, ServeOtherKeeps
<1>10. CASE ServeBody
  BY <1>10, ServeBodyKeeps
<1>11. CASE ServeDecoded
  BY <1>11, ServeDecodedKeeps
<1>12. CASE Elapse
  <2>1. Served'
    BY <1>12, ServedKept DEF Elapse, Kept, dict, device, serves
  <2>2. TypeOK' /\ FlightsAgree' /\ Worldly(world)'
    BY <1>12 DEF Elapse, Kept, TypeOK, FlightsAgree, upstream, dict, device
  <2>3. QED
    BY <2>1, <2>2 DEF Kept
<1>13. CASE UNCHANGED vars
  <2>1. Served'
    BY <1>13, ServedKept DEF vars, Kept, dict, device, serves
  <2>2. TypeOK' /\ FlightsAgree' /\ Worldly(world)'
    BY <1>13 DEF vars, Kept, TypeOK, FlightsAgree, upstream, dict, device
  <2>3. QED
    BY <2>1, <2>2 DEF Kept
<1>14. QED
  BY <1>1, <1>2, <1>3, <1>4, <1>5, <1>6, <1>7, <1>8, <1>9, <1>10, <1>11, <1>12, <1>13 DEF Next

-----------------------------------------------------------------------------

LEMMA IInvHolds == Spec => []IInv
BY InitInvariant, StepInvariant, PTL DEF Spec

\* Whatever alternates - webhooks, snapshots, their loss and overtaking -, nothing is in
\* the list that was not announced, all copies of an alert say the same, its region has
\* its own entry, and a device that asks for its part of the list sees what it would
\* see in the whole.
THEOREM InvariantHolds == Spec => []Inv
<1>1. ASSUME IInv, alerts # NoBody
      PROVE  alerts.entries \in SUBSET Entries /\ Agree(alerts.entries)
  BY <1>1 DEF IInv, TypeOK, Bodies, AlertsAgree
<1>2. IInv => FilterLosesNothing
  BY <1>1, SelectKeeps DEF FilterLosesNothing
<1>3. IInv => CopiesAgree
  BY <1>1 DEF CopiesAgree, Agree
<1>4. IInv => NothingInvented
  BY <1>1 DEF NothingInvented, Agree, Announced
<1>5. IInv => Inv
  BY <1>2, <1>3, <1>4 DEF IInv, Inv
<1>6. QED
  BY <1>5, IInvHolds, PTL

\* However close two changes are, and whoever reads between the body and its stamp, from
\* the dictionary or from what a worker has decoded: a device is answered 304 only if it
\* has what it would be sent, as long as the stamp of the catalogue is behind.
THEOREM NotModifiedHolds == Spec => []NotModifiedIsTrue
<1>1. IInv => NotModifiedIsTrue
  BY DEF IInv
<1>2. QED
  BY <1>1, IInvHolds, PTL
=============================================================================
