----------------------------- MODULE PollCycle -----------------------------
(***************************************************************************)
(* The poll cycle: main.cpp doPoll() with AlertsClient, ApiSnapshotCache,  *)
(* SnapshotBuilder, the health flag and the streak of 401 answers, and the *)
(* handlers that change what is polled.  A poll is synchronous, so it is   *)
(* one step; the server's document may change between any two.             *)
(*                                                                         *)
(* A document is known by its source and version.  The version is also its *)
(* Last-Modified stamp: the stamps of two sources may coincide, and a      *)
(* stamp does not depend on the locations asked for.  How long the next    *)
(* poll is put off (BackoffPolicy) is abstracted to "for a while".         *)
(***************************************************************************)
EXTENDS Naturals

CONSTANTS
  Sources,     \* API addresses: the official one, LAN proxies
  Selections,  \* lists of selected locations
  MaxVersion,  \* bound on the changes of a source's document
  BadKey,      \* kBadKeyStreak
  StreakCap,   \* 255, where auth401Streak saturates
  Empty,       \* a builder after reset(), an engine that has seen nothing
  Half,        \* a builder whose body broke off
  NoStamp      \* an empty lastModified_

ASSUME VersionAssumption == MaxVersion \in Nat
\* Were the two equal, every 401 of a saturated streak would be journalled.
ASSUME StreakAssumption == BadKey \in Nat \ {0} /\ StreakCap \in Nat /\ BadKey < StreakCap
ASSUME MarkAssumption ==
  /\ NoStamp \notin Nat
  /\ Half # Empty
  /\ Half \notin [source : Sources, version : Nat, sel : Selections]

VARIABLES
  version,    \* the sources' present documents
  source,     \* mockUrl_, or the official API
  sel,        \* appCfg.selected
  validator,  \* lastModified_
  cached,     \* cache_.valid_
  built,      \* what the SnapshotBuilder holds
  applied,    \* history: the last snapshot the AlertEngine was given
  view,       \* activeView, the dashboard's list
  due,        \* nextPollAt has come
  online,     \* health.online_
  streak,     \* auth401Streak
  noted       \* history: Api401 entries in the journal for this streak

client == <<validator, cached, built>>
picture == <<applied, view>>
wiring == <<source, sel>>
health == <<online, streak, noted>>
vars == <<version, client, picture, wiring, due, health>>

Versions == 0..MaxVersion
Snapshots == [source : Sources, version : Versions, sel : Selections]

\* The document the server would send for this device now.
Current == [source |-> source, version |-> version[source], sel |-> sel]

TypeOK ==
  /\ version \in [Sources -> Versions]
  /\ source \in Sources /\ sel \in Selections
  /\ validator \in Versions \cup {NoStamp}
  /\ cached \in BOOLEAN
  /\ built \in Snapshots \cup {Empty, Half}
  /\ applied \in Snapshots \cup {Empty}
  /\ view \in Snapshots \cup {Empty}
  /\ due \in BOOLEAN /\ online \in BOOLEAN
  /\ streak \in 0..StreakCap
  /\ noted \in {0, 1}

Init ==
  /\ version = [s \in Sources |-> 0]
  /\ source \in Sources /\ sel \in Selections
  /\ validator = NoStamp /\ cached = FALSE /\ built = Empty
  /\ applied = Empty /\ view = Empty
  /\ due = TRUE
  /\ online = FALSE /\ streak = 0 /\ noted = 0

-----------------------------------------------------------------------------
(* Answers of the server *)

\* invalidateCache()
Invalidate == validator' = NoStamp /\ cached' = FALSE

\* A 200 or a 304 that counts: the streak is over, the API is online.
Contact == streak' = 0 /\ noted' = 0 /\ online' = TRUE

Failure == online' = FALSE /\ UNCHANGED <<streak, noted>>

\* doPoll() has run; the backoff puts the next poll off.
Polling == due /\ due' = FALSE /\ UNCHANGED <<version, wiring>>

\* 200 with a whole body, with or without a Last-Modified
PollOk ==
  /\ Polling
  /\ built' = Current
  /\ validator' \in {version[source], NoStamp}
  /\ cached' = TRUE
  /\ Contact
  /\ view' = built'
  /\ applied' = built'

\* Mutant: a broken body leaves the validator and the cache alone.
PollBroken_KeepsCache ==
  /\ Polling
  /\ built' \in {built, Half}
  /\ UNCHANGED <<validator, cached>>
  /\ Failure
  /\ UNCHANGED picture

\* 200 whose body is no array, or breaks off, or does not parse
PollBroken ==
  /\ Polling
  /\ built' \in {built, Half}
  /\ Invalidate
  /\ Failure
  /\ UNCHANGED picture

\* A 304 counts as a sample of the snapshot held, if one is held.
AcceptNotModified ==
  \/ /\ cached
     /\ Contact
     /\ applied' = built
     /\ UNCHANGED <<client, view>>
  \/ /\ ~cached
     /\ validator' = NoStamp
     /\ Failure
     /\ UNCHANGED <<cached, built, picture>>

\* 304: the document is the one the validator names.
PollNotModified ==
  /\ Polling
  /\ validator = version[source]
  /\ AcceptNotModified

\* 304 to a request that stated no condition: the server misbehaves.
PollStrayNotModified ==
  /\ Polling
  /\ validator = NoStamp
  /\ AcceptNotModified

\* Mutant: uint8_t wraps.
Bump_Wraps == IF streak < StreakCap THEN streak + 1 ELSE 0

Bump == IF streak < StreakCap THEN streak + 1 ELSE streak

\* 401: rate limiting, until the streak is so long that the key must be bad
PollUnauthorized ==
  /\ Polling
  /\ streak' = Bump
  /\ online' = (online /\ streak' < BadKey)
  /\ noted' = IF streak' = BadKey THEN noted + 1 ELSE noted
  /\ UNCHANGED <<client, picture>>

\* 403, 429, any other code, no connection, or not enough heap for one
PollFailed ==
  /\ Polling
  /\ Failure
  /\ UNCHANGED <<client, picture>>

-----------------------------------------------------------------------------
(* Handlers *)

\* Mutant: refreshLocations() and setRegions() leave the 304 validator alone.
ChangeLocations_KeepsValidator(new) ==
  /\ sel' = new
  /\ view' = Empty
  /\ applied' = Empty
  /\ built' = Empty
  /\ due' = TRUE
  /\ UNCHANGED <<version, source, validator, cached, health>>

\* Mutant: the dashboard keeps the rows of the old locations.
ChangeLocations_KeepsView(new) ==
  /\ sel' = new
  /\ applied' = Empty
  /\ built' = Empty
  /\ Invalidate
  /\ due' = TRUE
  /\ UNCHANGED <<version, source, view, health>>

\* applyConfig(), refreshLocations(): everything learnt is forgotten.
ChangeLocations(new) ==
  /\ sel' = new
  /\ view' = Empty
  /\ applied' = Empty
  /\ built' = Empty
  /\ Invalidate
  /\ due' = TRUE
  /\ UNCHANGED <<version, source, health>>

\* PUT /token: client.begin() with the same key or another one
SetToken ==
  /\ Invalidate \/ UNCHANGED <<validator, cached>>
  /\ streak' = 0 /\ noted' = 0
  /\ due' = TRUE
  /\ UNCHANGED <<version, built, picture, wiring, online>>

\* Mutant: the validator of one source is sent to another.
SetUrl_KeepsCache(new) ==
  /\ source' = new
  /\ due' = TRUE
  /\ UNCHANGED <<version, client, picture, sel, health>>

\* PUT /api-url: setMockUrl()
SetUrl(new) ==
  /\ source' = new
  /\ IF new # source THEN Invalidate ELSE UNCHANGED <<validator, cached>>
  /\ due' = TRUE
  /\ UNCHANGED <<version, built, picture, sel, health>>

\* The address and the locations come back from flash, nothing else does.
Restart ==
  /\ Invalidate /\ built' = Empty
  /\ applied' = Empty /\ view' = Empty
  /\ due' = TRUE
  /\ online' = FALSE /\ streak' = 0 /\ noted' = 0
  /\ UNCHANGED <<version, wiring>>

\* The alerts of source s change.
Change(s) ==
  /\ version[s] < MaxVersion
  /\ version' = [version EXCEPT ![s] = @ + 1]
  /\ UNCHANGED <<client, picture, wiring, due, health>>

Elapse == ~due /\ due' = TRUE /\ UNCHANGED <<version, client, picture, wiring, health>>

HealthyPoll == PollOk \/ PollNotModified

Next ==
  \/ PollOk
  \/ PollBroken
  \/ PollNotModified
  \/ PollStrayNotModified
  \/ PollUnauthorized
  \/ PollFailed
  \/ \E new \in Selections : ChangeLocations(new)
  \/ SetToken
  \/ \E new \in Sources : SetUrl(new)
  \/ Restart
  \/ \E s \in Sources : Change(s)
  \/ Elapse

Spec == Init /\ [][Next]_vars

\* Time passes, and loop() comes round to a poll that is due.
FairSpec == Spec /\ WF_vars(Elapse) /\ WF_vars(HealthyPoll)

-----------------------------------------------------------------------------
(* Properties *)

\* Invariant 6: what the engine was last given was a whole body, and one that
\* was built for the locations now selected.
AppliedIsOurs == applied # Empty => applied # Half /\ applied.sel = sel

\* After a 200, or a 304 to our condition, the engine has been given the
\* document the server has now: a 304 never confirms an older snapshot, one of
\* other locations, or one of another source with the same stamp.
PollsAreFresh == [][HealthyPoll => applied' = Current]_vars

\* The dashboard shows what the engine was given, though it is not refilled on
\* a 304 and the builder may meanwhile have held half a body.
ViewMatchesEngine == view = applied

\* A snapshot that may be confirmed by a 304 is the one the engine has, built
\* for this source and these locations.
CacheIsOurs ==
  cached => /\ built \in Snapshots
            /\ built.source = source
            /\ built.sel = sel
            /\ built = applied

\* A condition is sent only with such a snapshot at hand, and names its version.
ValidatorIsOurs == validator # NoStamp => cached /\ built.version = validator

\* What each 304 can rely on; no property here is inductive without it.
Trust == CacheIsOurs /\ ValidatorIsOurs

Inv == TypeOK /\ Trust /\ ViewMatchesEngine

\* A key is called bad, and journalled as bad, exactly once per streak, however
\* long the streak lasts: uint8_t auth401Streak saturates.
BadKeyNotedOnce == noted = (IF streak >= BadKey THEN 1 ELSE 0)

\* When the failures, the user and the document have come to rest, the engine
\* gets the document, whatever broke or was invalidated before.
CatchesUp ==
  <>[][Elapse \/ HealthyPoll]_vars => <>[](applied = Current)
=============================================================================
