-------------------------- MODULE PollCycleProofs --------------------------
(***************************************************************************)
(* Proofs about PollCycle for any sources, selections and number of        *)
(* versions, and any length of a bad key's streak.                         *)
(***************************************************************************)
EXTENDS PollCycle, TLAPS

\* Inv and what the other two invariants say.
IInv == TypeOK /\ Trust /\ AppliedIsOurs /\ ViewMatchesEngine /\ BadKeyNotedOnce

LEMMA Constants ==
  /\ MaxVersion \in Nat /\ BadKey \in Nat /\ BadKey > 0 /\ StreakCap \in Nat
  /\ BadKey < StreakCap
  /\ NoStamp \notin Versions
  /\ Half \notin Snapshots \cup {Empty}
BY VersionAssumption, StreakAssumption, MarkAssumption DEF Versions, Snapshots

\* A streak may start afresh, an interval of versions too.
LEMMA ZeroInRange == 0 \in 0..StreakCap /\ 0 \in 0..MaxVersion
BY VersionAssumption, StreakAssumption

\* The document of the present moment is a snapshot like any other.
LEMMA CurrentType ==
  ASSUME TypeOK
  PROVE  Current \in Snapshots /\ Current.source = source /\ Current.sel = sel
         /\ Current.version = version[source] /\ version[source] \in Versions
BY DEF TypeOK, Current, Snapshots, Versions

\* A 304 to our own condition confirms the document of the present moment.
LEMMA NotModifiedMeansCurrent ==
  ASSUME TypeOK, Trust, validator = version[source]
  PROVE  cached /\ built = Current
<1>1. version[source] \in Versions
  BY CurrentType
<1>2. cached /\ built.version = validator
  BY <1>1, Constants DEF Trust, ValidatorIsOurs
<1>3. built \in Snapshots /\ built.source = source /\ built.sel = sel
  BY <1>2 DEF Trust, CacheIsOurs
<1>4. QED
  BY <1>2, <1>3 DEF Snapshots, Current

LEMMA InitInvariant == Init => IInv
<1> SUFFICES ASSUME Init
             PROVE  IInv
  OBVIOUS
<1>1. TypeOK
  BY ZeroInRange DEF Init, TypeOK, Versions
<1>2. Trust
  <2>1. ~cached /\ validator = NoStamp
    BY DEF Init
  <2>2. QED
    BY <2>1 DEF Trust, CacheIsOurs, ValidatorIsOurs
<1>3. AppliedIsOurs /\ ViewMatchesEngine /\ BadKeyNotedOnce
  BY Constants DEF Init, AppliedIsOurs, ViewMatchesEngine, BadKeyNotedOnce
<1>4. QED
  BY <1>1, <1>2, <1>3 DEF IInv

LEMMA StepInvariant == IInv /\ [Next]_vars => IInv'
<1> SUFFICES ASSUME IInv, [Next]_vars
             PROVE  IInv'
  OBVIOUS
<1> USE DEF IInv
<1>1. CASE PollOk
  <2>1. /\ built' = Current /\ applied' = Current /\ view' = Current
        /\ validator' \in {version[source], NoStamp} /\ cached' = TRUE
        /\ online' = TRUE /\ streak' = 0 /\ noted' = 0 /\ due' = FALSE
        /\ version' = version /\ source' = source /\ sel' = sel
    BY <1>1 DEF PollOk, Polling, Contact, wiring
  <2>2. Current \in Snapshots /\ Current.source = source /\ Current.sel = sel
        /\ Current.version = version[source] /\ version[source] \in Versions
    BY CurrentType
  <2>3. TypeOK'
    BY <2>1, <2>2, ZeroInRange DEF TypeOK, Versions, Snapshots
  <2>4. Trust'
    <3>1. CacheIsOurs'
      BY <2>1, <2>2 DEF CacheIsOurs, Snapshots, Versions
    <3>2. cached'
      BY <2>1
    <3>3. validator' # NoStamp => built'.version = validator'
      BY <2>1, <2>2
    <3>4. QED
      BY <3>1, <3>2, <3>3 DEF Trust, ValidatorIsOurs
  <2>5. (AppliedIsOurs /\ ViewMatchesEngine /\ BadKeyNotedOnce)'
    BY <2>1, <2>2, Constants DEF AppliedIsOurs, ViewMatchesEngine, BadKeyNotedOnce
  <2>6. QED
    BY <2>3, <2>4, <2>5
<1>2. CASE PollBroken
  <2>1. TypeOK'
    BY <1>2 DEF TypeOK, PollBroken, Polling, Invalidate, Failure, picture, wiring, Versions, Snapshots
  <2>2. Trust'
    BY <1>2 DEF Trust, CacheIsOurs, ValidatorIsOurs, PollBroken, Invalidate
  <2>3. QED
    BY <1>2, <2>1, <2>2 DEF AppliedIsOurs, ViewMatchesEngine, BadKeyNotedOnce,
       PollBroken, Polling, Failure, picture, wiring
<1>3. CASE Polling /\ AcceptNotModified
  <2>1. CASE cached /\ Contact /\ applied' = built /\ UNCHANGED <<client, view>>
    <3>1. applied' = applied /\ built' = built /\ cached' = cached /\ validator' = validator
          /\ view' = view /\ online' = TRUE /\ streak' = 0 /\ noted' = 0 /\ due' = FALSE
          /\ version' = version /\ source' = source /\ sel' = sel
      BY <1>3, <2>1 DEF Contact, client, Polling, wiring, Trust, CacheIsOurs
    <3>2. TypeOK'
      BY <3>1, ZeroInRange DEF TypeOK, Versions, Snapshots
    <3>3. Trust'
      BY <3>1, Zenon DEF Trust, CacheIsOurs, ValidatorIsOurs, Snapshots, Versions
    <3>4. QED
      BY <3>1, <3>2, <3>3, Constants DEF AppliedIsOurs, ViewMatchesEngine, BadKeyNotedOnce
  <2>2. CASE /\ ~cached /\ validator' = NoStamp
             /\ Failure /\ UNCHANGED <<cached, built, picture>>
    <3>1. TypeOK'
      BY <1>3, <2>2 DEF TypeOK, Polling, Failure, picture, wiring, Versions, Snapshots
    <3>2. Trust'
      BY <2>2 DEF Trust, CacheIsOurs, ValidatorIsOurs
    <3>3. QED
      BY <1>3, <2>2, <3>1, <3>2 DEF AppliedIsOurs, ViewMatchesEngine, BadKeyNotedOnce,
         Polling, Failure, picture, wiring
  <2>3. QED
    BY <1>3, <2>1, <2>2 DEF AcceptNotModified
<1>4. CASE PollUnauthorized
  <2>1. /\ streak' = Bump /\ noted' = (IF streak' = BadKey THEN noted + 1 ELSE noted)
        /\ online' = (online /\ streak' < BadKey) /\ due' = FALSE
        /\ UNCHANGED <<version, source, sel, validator, cached, built, applied, view>>
    BY <1>4 DEF PollUnauthorized, Polling, client, picture, wiring
  <2>2. streak' \in 0..StreakCap /\ streak' >= streak
        /\ (streak' = BadKey => streak < BadKey \/ streak = StreakCap)
    BY <2>1, Constants DEF TypeOK, Bump
  <2>3. BadKeyNotedOnce'
    <3>1. streak \in Nat /\ BadKey \in Nat /\ StreakCap \in Nat /\ BadKey < StreakCap
          /\ streak <= StreakCap
      BY Constants DEF TypeOK
    <3>2. CASE streak < StreakCap
      <4>1. streak' = streak + 1
        BY <2>1, <3>2 DEF Bump
      <4>2. CASE streak >= BadKey
        <5>1. noted = 1 /\ streak' # BadKey /\ streak' >= BadKey
          BY <3>1, <4>1, <4>2 DEF BadKeyNotedOnce
        <5>2. QED
          BY <2>1, <5>1 DEF BadKeyNotedOnce
      <4>3. CASE streak < BadKey
        <5>1. noted = 0 /\ (streak' >= BadKey <=> streak' = BadKey)
          BY <3>1, <4>1, <4>3 DEF BadKeyNotedOnce
        <5>2. QED
          BY <2>1, <5>1 DEF BadKeyNotedOnce
      <4>4. QED
        BY <3>1, <4>2, <4>3
    <3>3. CASE ~(streak < StreakCap)
      BY <2>1, <3>1, <3>3 DEF BadKeyNotedOnce, Bump
    <3>4. QED
      BY <3>2, <3>3
  <2>4. noted' \in {0, 1}
    BY <2>3 DEF BadKeyNotedOnce
  <2>5. online' \in BOOLEAN
    BY <2>1, Zenon
  <2>6. TypeOK'
    BY <2>1, <2>2, <2>4, <2>5 DEF TypeOK, Versions, Snapshots
  <2>7. (Trust /\ AppliedIsOurs /\ ViewMatchesEngine)'
    BY <2>1, Zenon DEF Trust, CacheIsOurs, ValidatorIsOurs, AppliedIsOurs, ViewMatchesEngine,
       Snapshots, Versions
  <2>8. QED
    BY <2>3, <2>6, <2>7
<1>5. CASE PollFailed
  BY <1>5 DEF PollFailed, Polling, Failure, client, picture, wiring, TypeOK, Versions, Snapshots,
     Trust, CacheIsOurs, ValidatorIsOurs, AppliedIsOurs, ViewMatchesEngine, BadKeyNotedOnce
<1>6. ASSUME NEW new \in Selections, ChangeLocations(new)
      PROVE  IInv'
  BY <1>6 DEF ChangeLocations, Invalidate, health, TypeOK, Versions, Snapshots,
     Trust, CacheIsOurs, ValidatorIsOurs, AppliedIsOurs, ViewMatchesEngine, BadKeyNotedOnce
<1>7. CASE SetToken
  <2>1. cached' \in BOOLEAN
    BY <1>7, Zenon DEF SetToken, Invalidate, TypeOK
  <2>2. TypeOK'
    BY <1>7, <2>1, ZeroInRange DEF SetToken, Invalidate, picture, wiring, TypeOK, Versions, Snapshots
  <2>3. Trust'
    BY <1>7, SMT DEF SetToken, Invalidate, picture, wiring, Trust, CacheIsOurs, ValidatorIsOurs,
       Snapshots, Versions
  <2>4. QED
    BY <1>7, <2>2, <2>3, Constants DEF SetToken, picture, wiring, AppliedIsOurs, ViewMatchesEngine, BadKeyNotedOnce
<1>8. ASSUME NEW new \in Sources, SetUrl(new)
      PROVE  IInv'
  <2>1. TypeOK'
    BY <1>8 DEF SetUrl, Invalidate, picture, health, TypeOK, Versions, Snapshots
  <2>2. Trust'
    BY <1>8 DEF SetUrl, Invalidate, picture, Trust, CacheIsOurs, ValidatorIsOurs, Snapshots, Versions
  <2>3. QED
    BY <1>8, <2>1, <2>2 DEF SetUrl, picture, health, AppliedIsOurs, ViewMatchesEngine, BadKeyNotedOnce
<1>9. CASE Restart
  <2>1. TypeOK'
    BY <1>9, ZeroInRange DEF Restart, Invalidate, wiring, TypeOK, Versions, Snapshots
  <2>2. Trust'
    BY <1>9, Zenon DEF Restart, Invalidate, Trust, CacheIsOurs, ValidatorIsOurs
  <2>3. QED
    BY <1>9, <2>1, <2>2, Constants DEF Restart, AppliedIsOurs, ViewMatchesEngine, BadKeyNotedOnce
<1>10. ASSUME NEW s \in Sources, Change(s)
       PROVE  IInv'
  <2>1. version' \in [Sources -> Versions]
    BY <1>10, Constants DEF Change, TypeOK, Versions
  <2>2. QED
    BY <1>10, <2>1 DEF Change, client, picture, wiring, health, TypeOK, Snapshots,
       Trust, CacheIsOurs, ValidatorIsOurs, AppliedIsOurs, ViewMatchesEngine, BadKeyNotedOnce, Versions
<1>11. CASE Elapse
  BY <1>11 DEF Elapse, client, picture, wiring, health, TypeOK, Versions, Snapshots,
     Trust, CacheIsOurs, ValidatorIsOurs, AppliedIsOurs, ViewMatchesEngine, BadKeyNotedOnce
<1>12. CASE UNCHANGED vars
  BY <1>12 DEF vars, client, picture, wiring, health, TypeOK, Versions, Snapshots,
     Trust, CacheIsOurs, ValidatorIsOurs, AppliedIsOurs, ViewMatchesEngine, BadKeyNotedOnce
<1>13. CASE PollNotModified
  BY <1>3, <1>13 DEF PollNotModified
<1>14. CASE PollStrayNotModified
  BY <1>3, <1>14 DEF PollStrayNotModified
<1>15. QED
  BY <1>1, <1>2, <1>4, <1>5, <1>6, <1>7, <1>8, <1>9, <1>10, <1>11, <1>12, <1>13, <1>14 DEF Next

\* IInv holds in every reachable state.
THEOREM InvariantHolds == Spec => []IInv
<1>1. QED
  BY InitInvariant, StepInvariant, PTL DEF Spec

\* What a 304 relies on is there whenever one can come, the dashboard shows what
\* the engine works on, and auth401Streak never wraps.
THEOREM TrustHolds == Spec => []Inv
<1>1. IInv => Inv
  BY DEF IInv, Inv
<1>2. QED
  BY <1>1, InvariantHolds, PTL

\* Invariant 6: the engine is never given half a body, nor one of other locations.
THEOREM EngineSeesOurs == Spec => []AppliedIsOurs
<1>1. IInv => AppliedIsOurs
  BY DEF IInv
<1>2. QED
  BY <1>1, InvariantHolds, PTL

\* The dashboard always shows the snapshot the engine works on.
THEOREM DashboardAgrees == Spec => []ViewMatchesEngine
<1>1. IInv => ViewMatchesEngine
  BY DEF IInv
<1>2. QED
  BY <1>1, InvariantHolds, PTL

\* A bad key is journalled once per streak, however long the streak.
THEOREM BadKeyOnce == Spec => []BadKeyNotedOnce
<1>1. IInv => BadKeyNotedOnce
  BY DEF IInv
<1>2. QED
  BY <1>1, InvariantHolds, PTL

\* Every 200, and every 304 to our condition, leaves the engine with the
\* server's present document for this source and these locations.
THEOREM EngineIsFresh == Spec => PollsAreFresh
<1>1. IInv /\ HealthyPoll => applied' = Current
  <2> SUFFICES ASSUME IInv, HealthyPoll
               PROVE  applied' = Current
    OBVIOUS
  <2>1. CASE PollOk
    BY <2>1 DEF PollOk
  <2>2. CASE PollNotModified
    <3>1. cached /\ built = Current
      BY <2>2, NotModifiedMeansCurrent DEF PollNotModified, IInv
    <3>2. QED
      BY <2>2, <3>1 DEF PollNotModified, AcceptNotModified
  <2>3. QED
    BY <2>1, <2>2 DEF HealthyPoll
<1>2. QED
  BY <1>1, InvariantHolds, PTL DEF PollsAreFresh
=============================================================================
