--------------------------- MODULE OtaUpdateProofs ---------------------------
(***************************************************************************)
(* For every deadline of the watchdog and every delay of the restart: an   *)
(* update is watched as long as it lasts, none is left open behind its     *)
(* request, and a restart installs a damaged image only if an update has   *)
(* been begun over one that was waiting.                                   *)
(*                                                                         *)
(* The last does not follow from Inv: the end of an upload stages what has *)
(* been written, so as long as an update is open no block of it may have   *)
(* been lost; and what is written to an open update destroys what waits,   *)
(* so the update must have been begun over it.                             *)
(***************************************************************************)
EXTENDS OtaUpdate, TLAPS

OpenIsWhole == updater = "open" => image = "whole"

OpenIsOver == updater = "open" /\ staged # "none" => over

DownloadIsOta == at = "download" => ota

IInv == Inv /\ OpenIsWhole /\ OpenIsOver /\ DownloadIsOta /\ StagedIsWhole

\* The deadlines and delays are numbers, and no timer value is Off by chance.
LEMMA TimersTyped ==
  /\ OtaDeadline \in Timer(OtaDeadline) /\ OtaDeadline # Off
  /\ RebootDelay \in Timer(RebootDelay)
  /\ Off \in Timer(OtaDeadline) /\ Off \in Timer(RebootDelay)
BY OtaAssumption, OffAssumption DEF Timer

\* Time keeps a timer in its range and does not switch it off.
LEMMA CountdownTyped ==
  ASSUME NEW n \in Nat \ {0}, NEW t \in Timer(n)
  PROVE  Countdown(t) \in Timer(n) /\ (t # Off => Countdown(t) # Off)
BY OffAssumption DEF Timer, Countdown

LEMMA InitEstablishes == Init => IInv
BY TimersTyped, OffAssumption
   DEF Init, IInv, Inv, TypeOK, OtaIsWatched, NoUpdateLeftOpen, OpenIsWhole,
       OpenIsOver, DownloadIsOta, StagedIsWhole, Images

\* After any restart nothing of an update is left.
LEMMA RestartEstablishes == Restart => IInv'
BY TimersTyped, OffAssumption
   DEF Restart, IInv, Inv, TypeOK, OtaIsWatched, NoUpdateLeftOpen, OpenIsWhole,
       OpenIsOver, DownloadIsOta, StagedIsWhole, Images

-----------------------------------------------------------------------------
LEMMA StepPreserves == IInv /\ [Next]_vars => IInv'
<1> SUFFICES ASSUME IInv, [Next]_vars
             PROVE  IInv'
  OBVIOUS
<1> USE TimersTyped
<1> USE DEF IInv, Inv, TypeOK, OtaIsWatched, NoUpdateLeftOpen, OpenIsWhole,
       OpenIsOver, DownloadIsOta, StagedIsWhole, Images
<1>1. CASE StartUpload
  <2>1. TypeOK'
    BY <1>1 DEF StartUpload, PrepareOta, UpdateBegins, UpdateRefuses
  <2>2. OtaIsWatched' /\ NoUpdateLeftOpen' /\ DownloadIsOta'
    BY <1>1 DEF StartUpload, PrepareOta, UpdateBegins, UpdateRefuses
  <2>3. OpenIsWhole' /\ OpenIsOver' /\ StagedIsWhole'
    <3>1. updater = "closed" /\ UNCHANGED staged
      BY <1>1 DEF StartUpload
    <3>2. CASE UpdateBegins
      BY <3>1, <3>2 DEF UpdateBegins
    <3>3. CASE UpdateRefuses
      BY <3>1, <3>3 DEF UpdateRefuses
    <3> QED
      BY <1>1, <3>2, <3>3 DEF StartUpload
  <2> QED
    BY <2>1, <2>2, <2>3
<1>2. CASE RefuseUpload
  BY <1>2 DEF RefuseUpload, guard, update, flash
<1>3. CASE \E fits \in BOOLEAN : UploadWrite(fits)
  <2>1. TypeOK'
    BY <1>3 DEF UploadWrite, Overwrite, guard, flags, update
  <2>2. OtaIsWatched' /\ NoUpdateLeftOpen' /\ DownloadIsOta'
    BY <1>3 DEF UploadWrite, Overwrite, guard, flags, update
  <2>3. OpenIsWhole' /\ OpenIsOver' /\ StagedIsWhole'
    BY <1>3 DEF UploadWrite, Overwrite, guard, flags, update
  <2> QED
    BY <2>1, <2>2, <2>3
<1>4. CASE UploadEnd
  BY <1>4 DEF UploadEnd, Go, Take, guard, flash
<1>5. CASE UploadAbort
  BY <1>5 DEF UploadAbort, Go, FinishFailedOta, flash
<1>6. CASE UploadAnswer
  <2>1. UNCHANGED <<accepted, succeeded, error, image, staged, over>> /\ at' = "loop" /\ updater # "open"
    BY <1>6 DEF UploadAnswer, flags, flash
  <2>2. CASE UNCHANGED <<guard, updater, reboot>> \/ (reboot' = RebootDelay /\ UNCHANGED <<guard, updater>>)
    <3>1. UNCHANGED <<ota, dog, updater>>
      BY <2>2 DEF guard
    <3> QED
      BY <2>1, <2>2, <3>1
  <2>3. CASE updater' = "closed" /\ FinishFailedOta /\ UNCHANGED reboot
    BY <2>1, <2>3 DEF FinishFailedOta
  <2> QED
    BY <1>6, <2>2, <2>3 DEF UploadAnswer
<1>7. CASE UploadLost
  BY <1>7 DEF UploadLost, Go, guard, flags, update, flash
<1>8. CASE StartDownload
  BY <1>8 DEF StartDownload, Go, PrepareOta, flags, update, flash
<1>9. CASE DownloadRefused
  BY <1>9 DEF DownloadRefused, UpdateRefuses, Go, FinishFailedOta, flags
<1>9a. CASE DownloadBegin
  <2>1. TypeOK'
    BY <1>9a DEF DownloadBegin, UpdateBegins, Overwrite, guard, flags
  <2>2. OtaIsWatched' /\ NoUpdateLeftOpen' /\ DownloadIsOta'
    BY <1>9a DEF DownloadBegin, UpdateBegins, Overwrite, guard, flags
  <2>3. OpenIsWhole' /\ OpenIsOver' /\ StagedIsWhole'
    BY <1>9a DEF DownloadBegin, UpdateBegins, Overwrite, guard, flags
  <2> QED
    BY <2>1, <2>2, <2>3
<1>10. CASE \E whole, match, takes \in BOOLEAN : DownloadEnd(whole, match, takes)
  <2>1. PICK whole, match, takes \in BOOLEAN : DownloadEnd(whole, match, takes)
    BY <1>10
  <2>2. /\ updater = "open" /\ at' = "loop" /\ updater' = "closed"
        /\ UNCHANGED <<accepted, succeeded>>
        /\ image' = Downloaded(whole, match)
    BY <2>1 DEF DownloadEnd, Go, flags
  <2>3. image' \in Images /\ (whole => image' # "damaged")
    BY <2>2 DEF Downloaded
  <2>4. CASE Verified(whole, match) /\ takes
    <3>1. staged' = image' /\ over' = FALSE /\ reboot' = RebootDelay /\ UNCHANGED <<ota, dog, error>>
      BY <2>1, <2>4 DEF DownloadEnd, Take, guard
    <3> QED
      BY <2>2, <2>3, <2>4, <3>1 DEF Verified
  <2>5. CASE ~(Verified(whole, match) /\ takes)
    <3>1. FinishFailedOta /\ error' \in BOOLEAN /\ UNCHANGED reboot
      BY <2>1, <2>5 DEF DownloadEnd
    <3>2. (whole /\ staged' = image' /\ over' = FALSE) \/ UNCHANGED <<staged, over>>
      BY <2>1, <2>5 DEF DownloadEnd, Take, flash
    <3> QED
      BY <2>2, <2>3, <3>1, <3>2 DEF FinishFailedOta
  <2> QED
    BY <2>4, <2>5
<1>11. CASE RebootTick
  BY <1>11, RestartEstablishes DEF RebootTick
<1>12. CASE Elapse
  BY <1>12, CountdownTyped, OtaAssumption DEF Elapse, flags, update, flash
<1>13. CASE Watchdog
  BY <1>13, RestartEstablishes DEF Watchdog
<1>14. CASE PowerLoss
  BY <1>14, RestartEstablishes DEF PowerLoss
<1>15. CASE UNCHANGED vars
  BY <1>15 DEF vars, guard, flags, update, flash
<1> QED
  BY <1>1, <1>2, <1>3, <1>4, <1>5, <1>6, <1>7, <1>8, <1>9, <1>9a, <1>10, <1>11, <1>12,
     <1>13, <1>14, <1>15 DEF Next

\* The inductive invariant holds of every behaviour.
THEOREM Inductive == Spec => []IInv
BY InitEstablishes, StepPreserves, PTL DEF Spec

\* An update is watched as long as it lasts and is closed with its request: no path
\* through the handlers calls the watchdog off and leaves the siren silenced.
THEOREM UpdatesAreWatched == Spec => []Inv
BY Inductive, PTL DEF IInv

\* A restart installs only what has come whole, or else an update has been begun
\* while the image of an earlier one was waiting for its restart.
THEOREM OnlyWholeImages == Spec => []StagedIsWhole
BY Inductive, PTL DEF IInv
=============================================================================
