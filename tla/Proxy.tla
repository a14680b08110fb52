------------------------------- MODULE Proxy -------------------------------
(***************************************************************************)
(* proxy.lua and state.lua: the LAN proxy that polls ukrainealarm, takes   *)
(* its webhooks, and serves a device its part of the alerts.               *)
(*                                                                         *)
(* Every worker of nginx reads and writes one shared dictionary, whose     *)
(* single operations are atomic; writers hold a lock, readers do not.      *)
(* Time is in seconds, the resolution of Last-Modified.                    *)
(*                                                                         *)
(* A fetch may fail, for want of budget or of an answer, and its answer    *)
(* may be overtaken; an event may be lost, late or repeated - the          *)
(* signature's digest and max_skew make sure that it is applied once, or   *)
(* never.  Left out: tokens, signatures, statistics, a restart of nginx.   *)
(***************************************************************************)
EXTENDS AlertMatching

CONSTANTS
  Parent,        \* region |-> the region it is in, or 0: the catalogue
  AlertTypes,    \* "AIR", "ARTILLERY" ...
  Levels,        \* the level sets an alert can have
  Begin,         \* the alerts there are when nginx is started
  Events,        \* what can happen to an alert: [region, type, levels]
  Workers,       \* nginx's workers
  Ids,           \* ?regions= of the device
  PollEvery, RegionsEvery, RegionsRetry, StaleAfter,
  Start,         \* the time nginx is started
  Seeded,        \* is a seed catalogue configured?
  MaxTime, MaxChanges, MaxFlights,
  NoBody, NoRequest

Regions == DOMAIN Parent

\* What a region is in, however deep the catalogue is
Ancestors(r) ==
  LET above[x \in Regions] ==
        IF Parent[x] \in Regions THEN {Parent[x]} \cup above[Parent[x]] ELSE {}
  IN  above[r]

Alerts == [region : Regions, type : AlertTypes, levels : Levels]

Same(a, b) == a.region = b.region /\ a.type = b.type

Entries == [id : Regions, list : (SUBSET Alerts) \ {{}}]
Bodies == [by : {"upstream", "proxy"}, entries : SUBSET Entries]

ASSUME ProxyAssumption ==
  /\ {PollEvery, RegionsEvery, RegionsRetry, Start} \subseteq Nat \ {0} /\ StaleAfter \in Nat
  /\ Seeded \in BOOLEAN
  /\ {} \notin Levels /\ Ids \subseteq Regions /\ NoBody \notin Bodies
  /\ Begin \subseteq Alerts /\ \A a, b \in Begin : Same(a, b) => a = b
  /\ Events \subseteq [region : Regions, type : AlertTypes, levels : Levels \cup {{}}]

\* The catalogue in the device's flash does not contradict the proxy's: both come
\* from the regions of the upstream.
ASSUME CatalogAssumption ==
  \A r \in Regions : {Known(r).oblast, Known(r).raion} \subseteq Ancestors(r) \cup {0}

VARIABLES
  world,     \* the alerts there are
  changes,   \* how often the world has changed
  events,    \* webhooks on their way
  flights,   \* upstream requests whose answer is on its way
  alerts,    \* dict "alerts"
  changedAt, alertsAt,               \* dict, 0 if not set
  catalog, regionsAt, regionsTry,    \* dict "regions" is set, and its times
  writing,   \* the lock's holder has yet to write "changed_at", not before this time
  cache,     \* worker |-> the body it has decoded, and the "changed_at" it goes by
  serving,   \* the device's request, or NoRequest: who answers, and what has been read
  lm, got,   \* the device: its last 200's Last-Modified and snapshot
  now

upstream == <<world, changes, events>>
dict == <<alerts, changedAt, alertsAt, catalog, regionsAt, regionsTry, writing>>
device == <<serving, lm, got>>
vars == <<upstream, flights, dict, cache, device, now>>

\* stamp: the answer's Last-Modified; parents: does its worker have the catalogue
Requests == [worker : Workers, stamp : Nat \ {0}, parents : BOOLEAN]

TypeOK ==
  /\ world \subseteq Alerts /\ events \subseteq Events
  /\ flights \subseteq [at : Nat \ {0}, body : Bodies \cup {NoBody}]
  /\ alerts \in Bodies \cup {NoBody}
  /\ {changedAt, alertsAt, regionsAt, regionsTry, writing, lm} \subseteq Nat
  /\ cache \in [Workers -> [at : Nat, body : Bodies \cup {NoBody}]]
  /\ serving \in Requests \cup {NoRequest}
  /\ now \in Nat \ {0} /\ catalog \in BOOLEAN

Init ==
  /\ world = Begin /\ changes = 0
  /\ events = {} /\ flights = {}
  /\ alerts = NoBody /\ changedAt = 0 /\ alertsAt = 0
  /\ catalog = Seeded /\ regionsAt = (IF Seeded THEN Start ELSE 0) /\ regionsTry = 0
  /\ writing = 0
  /\ cache = [w \in Workers |-> [at |-> 0, body |-> NoBody]]
  /\ serving = NoRequest /\ lm = 0 /\ got = NoBody
  /\ now = Start

-----------------------------------------------------------------------------
(* state.lua *)

\* Mutant: whatever alert the region has is rewritten.
ApplyEvent_AnyType(entries, ev) ==
  LET rest(e) == {a \in e.list : a.region # ev.region}
      new(e) == IF ev.levels = {} THEN {}
                ELSE IF rest(e) = e.list /\ e.id = ev.region THEN {ev}
                ELSE {[a EXCEPT !.levels = ev.levels] : a \in e.list \ rest(e)}
      rewritten == {[e EXCEPT !.list = rest(e) \cup new(e)] : e \in entries}
  IN  {e \in rewritten : e.list # {}}
        \cup (IF ev.levels = {} \/ \E e \in entries : e.id = ev.region THEN {}
              ELSE {[id |-> ev.region, list |-> {ev}]})

\* apply_event(): every copy of the alert is rewritten, entries left with nothing go,
\* and an active alert is in its region's own entry.
ApplyEvent(entries, ev) ==
  LET rest(e) == {a \in e.list : ~Same(a, ev)}
      due(e) == ev.levels # {} /\ (rest(e) # e.list \/ e.id = ev.region)
      rewritten == {[e EXCEPT !.list = rest(e) \cup (IF due(e) THEN {ev} ELSE {})] : e \in entries}
  IN  {e \in rewritten : e.list # {}}
        \cup (IF ev.levels = {} \/ \E e \in entries : e.id = ev.region THEN {}
              ELSE {[id |-> ev.region, list |-> {ev}]})

\* select(): the regions asked for, what they are in, and what is in them
Select(entries, wanted) ==
  {e \in entries : \/ ({e.id} \cup Ancestors(e.id)) \cap wanted # {}
                   \/ \E r \in wanted : e.id \in Ancestors(r)}

\* Mutant: the time of the change, whatever the stamp was.
NextStamp_Now(prev, t) == t

\* next_stamp()
NextStamp(prev, t) == Max({t, prev + 1})

-----------------------------------------------------------------------------
(* Upstream *)

\* The body repeats a region's alerts in the entries of what is in it.
Body(w) ==
  [by |-> "upstream",
   entries |->
     LET list(r) == {a \in w : a.region \in {r} \cup Ancestors(r)}
     IN  {[id |-> r, list |-> list(r)] : r \in {x \in Regions : list(x) # {}}}]

Change(ev) ==
  /\ changes < MaxChanges /\ changes' = changes + 1
  /\ world' = {a \in world : ~Same(a, ev)} \cup (IF ev.levels = {} THEN {} ELSE {ev})
  /\ world' # world
  /\ events' = events \cup {ev}
  /\ UNCHANGED <<flights, dict, cache, device, now>>

-----------------------------------------------------------------------------
(* refresh(), in worker 0 *)

RegionsDue ==
  /\ now - regionsAt > RegionsEvery
  /\ now - regionsTry > RegionsRetry
  /\ now - alertsAt < 2 * PollEvery

\* The request goes out; the upstream answers it at once, but the way back is long.
Tick ==
  /\ Cardinality(flights) < MaxFlights
  /\ \/ /\ RegionsDue /\ regionsTry' = now
        /\ flights' = flights \cup {[at |-> now, body |-> NoBody]}
     \/ /\ ~RegionsDue /\ UNCHANGED regionsTry
        /\ flights' = flights \cup {[at |-> now, body |-> Body(world)]}
  /\ UNCHANGED <<upstream, alerts, changedAt, alertsAt, catalog, regionsAt, writing, cache, device, now>>

\* locked(store): another writer waits.  The body first, then the stamp.
Store(body, t) ==
  /\ writing = 0
  /\ \/ body = alerts /\ UNCHANGED <<alerts, writing>>
     \/ body # alerts /\ alerts' = body /\ writing' = t
  /\ UNCHANGED changedAt

Stamp ==
  /\ writing # 0
  /\ changedAt' = NextStamp(changedAt, writing)
  /\ writing' = 0
  /\ UNCHANGED <<upstream, flights, alerts, alertsAt, catalog, regionsAt, regionsTry, cache, device, now>>

\* Mutant: a body fetched before the last change is thrown away.
Reconcile_Newest(f) == IF changedAt > f.at THEN UNCHANGED <<alerts, changedAt, writing>> ELSE Store(f.body, f.at)

\* The snapshot wins over whatever webhooks have applied meanwhile.
Reconcile(f) == Store(f.body, f.at)

\* alerts_at is written when the lock is free again, and is merged with the
\* body: till the stamp is there, a device is answered with the old one.
ArriveAlerts ==
  \E f \in flights :
    /\ f.body # NoBody
    /\ Reconcile(f)
    /\ alertsAt' = f.at
    /\ flights' = flights \ {f}
    /\ UNCHANGED <<upstream, catalog, regionsAt, regionsTry, cache, device, now>>

ArriveRegions ==
  \E f \in flights :
    /\ f.body = NoBody
    /\ catalog' = TRUE /\ regionsAt' = NextStamp(regionsAt, f.at)
    /\ flights' = flights \ {f}
    /\ UNCHANGED <<upstream, alerts, changedAt, alertsAt, regionsTry, writing, cache, device, now>>

\* No budget, no answer, not a 200, or not what was asked for
Fail ==
  /\ \E f \in flights : flights' = flights \ {f}
  /\ UNCHANGED <<upstream, dict, cache, device, now>>

-----------------------------------------------------------------------------
(* serve_webhook() *)

\* Without a snapshot the event is dropped: the first one will carry it.
Webhook(ev) ==
  /\ writing = 0
  /\ events' = events \ {ev}
  /\ \/ /\ alerts = NoBody
        /\ UNCHANGED <<alerts, writing>>
     \/ /\ alerts # NoBody
        /\ Store([by |-> "proxy", entries |-> ApplyEvent(alerts.entries, ev)], now)
  /\ UNCHANGED <<world, changes, flights, changedAt, alertsAt, catalog, regionsAt, regionsTry, cache, device, now>>

\* Never sent, or answered 200 and dropped: too old
LoseEvent(ev) ==
  /\ events' = events \ {ev}
  /\ UNCHANGED <<world, changes, flights, dict, cache, device, now>>

-----------------------------------------------------------------------------
(* serve_alerts() *)

\* The validator: the later of the alerts' and the catalogue's.
Validator == IF catalog THEN Max({changedAt, regionsAt}) ELSE changedAt

\* Not with an old picture (503), and with nothing new a 304.  The parents are kept
\* for the answer, whether or not a catalogue arrives meanwhile.
ServeStamp(w) ==
  /\ serving = NoRequest
  /\ alertsAt # 0 /\ now - alertsAt <= StaleAfter
  /\ changedAt # 0 /\ lm # Validator
  /\ serving' = [worker |-> w, stamp |-> Validator, parents |-> catalog]
  /\ UNCHANGED <<upstream, flights, dict, cache, lm, got, now>>

\* What the device makes of the answer.
Picture(wanted, entries) == Seen(Snapshot({Known(r) : r \in wanted}, entries))

Answer(entries) ==
  /\ lm' = serving.stamp /\ got' = Picture(Ids, entries)
  /\ serving' = NoRequest

\* Without a catalogue the body goes out as it is; with one, what the worker has
\* decoded is filtered, if "changed_at" is what it was then.
ServeBody ==
  /\ serving # NoRequest
  /\ \/ ~serving.parents /\ Answer(alerts.entries)
     \/ /\ serving.parents /\ cache[serving.worker].at = changedAt
        /\ Answer(Select(cache[serving.worker].body.entries, Ids))
  /\ UNCHANGED <<upstream, flights, dict, cache, now>>

\* decoded(): the worker goes by the body it reads from now on.  A "changed_at" read
\* before the last one is never read again: reading it and the body may be one step.
ServeDecoded ==
  /\ serving # NoRequest /\ serving.parents
  /\ cache[serving.worker].at # changedAt
  /\ cache' = [cache EXCEPT ![serving.worker] = [at |-> changedAt, body |-> alerts]]
  /\ Answer(Select(alerts.entries, Ids))
  /\ UNCHANGED <<upstream, flights, dict, now>>

\* The same for another device
ServeOther(w) ==
  /\ ~(serving # NoRequest /\ serving.worker = w)
  /\ alertsAt # 0 /\ now - alertsAt <= StaleAfter
  /\ changedAt # 0 /\ catalog /\ cache[w].at # changedAt
  /\ cache' = [cache EXCEPT ![w] = [at |-> changedAt, body |-> alerts]]
  /\ UNCHANGED <<upstream, flights, dict, device, now>>

Elapse ==
  /\ now < Start + MaxTime /\ now' = now + 1
  /\ UNCHANGED <<upstream, flights, dict, cache, device>>

-----------------------------------------------------------------------------
Next ==
  \/ \E ev \in Events : Change(ev)
  \/ Tick
  \/ Stamp
  \/ ArriveAlerts
  \/ ArriveRegions
  \/ Fail
  \/ \E ev \in events : Webhook(ev)
  \/ \E ev \in events : LoseEvent(ev)
  \/ \E w \in Workers : ServeStamp(w) \/ ServeOther(w)
  \/ ServeBody
  \/ ServeDecoded
  \/ Elapse

Spec == Init /\ [][Next]_vars

\* The timer of worker 0 goes on and its requests end; some of them, again and
\* again, with the alerts.
FairSpec ==
  /\ Spec
  /\ WF_vars(Tick) /\ WF_vars(Stamp) /\ WF_vars(Fail \/ ArriveAlerts \/ ArriveRegions)
  /\ SF_vars(ArriveAlerts)

-----------------------------------------------------------------------------
(* Properties *)

\* Whatever is in the list was announced as it is there: an event about one alert
\* does not rewrite another of its region.
NothingInvented ==
  alerts # NoBody => \A e \in alerts.entries : e.list \subseteq Begin \cup Events

\* All copies of an alert say the same, whatever its levels were before, and its
\* region has its own entry, by which a filter finds it, however webhooks and
\* snapshots alternate.
CopiesAgree ==
  alerts # NoBody =>
    \A e, f \in alerts.entries : \A a \in e.list, b \in f.list :
      /\ Same(a, b) => a = b
      /\ \E own \in alerts.entries : own.id = a.region /\ a \in own.list

\* Filtering loses nothing: whatever regions a device asks for, it sees in
\* its part of the list what it would see in the whole.
FilterLosesNothing ==
  alerts # NoBody =>
    \A wanted \in SUBSET Regions :
      Picture(wanted, Select(alerts.entries, wanted)) = Picture(wanted, alerts.entries)

Inv == TypeOK /\ NothingInvented /\ CopiesAgree /\ FilterLosesNothing

\* A device is told 304 only if it has what it would be sent: no two changes share
\* a stamp, however close, nor does a body go out under a later one's - as long as
\* the stamp of the catalogue is behind (see README).
NotModifiedIsTrue ==
  lm # 0 /\ lm = Validator /\ writing = 0 /\ (catalog => changedAt > regionsAt) =>
    got = Picture(Ids, alerts.entries)

\* A lost, late or overtaken event, or answer, does no lasting harm: when the alerts
\* have come to rest, the proxy gets to serve them as they are.
Reconciles ==
  <>[][world' = world]_vars => <>[](alerts # NoBody /\ alerts.entries = Body(world).entries)
=============================================================================
