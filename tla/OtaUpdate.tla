----------------------------- MODULE OtaUpdate -----------------------------
(***************************************************************************)
(* Firmware updates: WebUi's upload callback and final handler, the        *)
(* download by URL, prepareOta(), finishFailedOta(), their watchdog and    *)
(* the restart that installs an image.  The siren's side of an update is   *)
(* in RelayController.                                                     *)
(*                                                                         *)
(* handleClient() serves one client at a time and stays inside a request   *)
(* until its body has been read; the upload callback yields, so the SYS    *)
(* context's watchdog may fire between any two of its calls.               *)
(***************************************************************************)
EXTENDS Timers

CONSTANTS
  OtaDeadline,  \* kOtaDeadlineMs
  RebootDelay   \* the 500 ms before the restart

ASSUME OtaAssumption == {OtaDeadline, RebootDelay} \subseteq Nat \ {0}

VARIABLES
  at,         \* where loop() is: outside a request, or in which part of one
  ota,        \* otaInProgress
  dog,        \* time left of otaWatchdog, or Off
  accepted,   \* otaUploadAuthorized_
  succeeded,  \* otaUploadSucceeded_
  updater,    \* Update, and otaUploadStarted_: an image is being written
  error,      \* Update.hasError()
  image,      \* history: what the image being written is, as far as it has come
  staged,     \* what the next boot will install, if anything
  over,       \* history: an update has begun over an image that was waiting
              \* to be installed, and none has succeeded since
  reboot      \* time left till rebootAt_, or Off

guard == <<ota, dog>>
flags == <<accepted, succeeded>>
update == <<updater, error, image>>
flash == <<staged, over>>
vars == <<at, guard, flags, update, flash, reboot>>

Images == {"whole", "damaged", "unverified"}

TypeOK ==
  /\ at \in {"loop", "upload", "answer", "download"}
  /\ ota \in BOOLEAN
  /\ dog \in Timer(OtaDeadline)
  /\ accepted \in BOOLEAN /\ succeeded \in BOOLEAN
  /\ updater \in {"closed", "open"}
  /\ error \in BOOLEAN
  /\ image \in Images
  /\ staged \in Images \cup {"none"}
  /\ over \in BOOLEAN
  /\ reboot \in Timer(RebootDelay)

Init ==
  /\ at = "loop"
  /\ ota = FALSE /\ dog = Off
  /\ accepted = FALSE /\ succeeded = FALSE
  /\ updater = "closed" /\ error = FALSE /\ image = "whole"
  /\ staged = "none" /\ over = FALSE
  /\ reboot = Off

\* A restart installs what is staged.
Restart ==
  /\ at' = "loop"
  /\ ota' = FALSE /\ dog' = Off
  /\ accepted' = FALSE /\ succeeded' = FALSE
  /\ updater' = "closed" /\ error' = FALSE /\ image' = "whole"
  /\ staged' = "none" /\ over' = FALSE
  /\ reboot' = Off

\* Mutant: no watchdog.
PrepareOta_NoWatchdog == ota' = TRUE /\ UNCHANGED dog

PrepareOta == ota' = TRUE /\ dog' = OtaDeadline

\* Mutant: the watchdog is called off and the flag forgotten.
FinishFailedOta_KeepsFlag == dog' = Off /\ UNCHANGED ota

FinishFailedOta == ota' = FALSE /\ dog' = Off

Go(from, to) == at = from /\ at' = to

-----------------------------------------------------------------------------
(* The library's Update object.  There is one staging area: what is written *)
(* by an update destroys the image an earlier one left there to be installed. *)

\* Update.begin(): fails if an update was left open, or for lack of room.
UpdateBegins ==
  /\ updater = "closed" /\ updater' = "open"
  /\ error' = FALSE /\ image' = "whole"
  /\ over' = (over \/ staged # "none")

UpdateRefuses ==
  /\ \/ updater = "open" /\ UNCHANGED error
     \/ updater = "closed" /\ error' = TRUE
  /\ UNCHANGED <<updater, image, over>>

\* Update.write()
Overwrite == staged' = IF staged = "none" THEN "none" ELSE "damaged"

\* An end() that takes the image: the next boot will install it.
Take(it) == staged' = it /\ over' = FALSE

-----------------------------------------------------------------------------
(* An upload: start, blocks of data, end or abort, and the final answer *)

\* UPLOAD_FILE_START with a session that is still good.  A request may bring
\* several files.
StartUpload ==
  /\ at \in {"loop", "answer"} /\ at' = "upload"
  /\ accepted' = TRUE /\ succeeded' = FALSE
  /\ PrepareOta
  /\ UpdateBegins \/ UpdateRefuses
  /\ UNCHANGED <<staged, reboot>>

\* The same with a session that has expired: the body is read all the same.
RefuseUpload ==
  /\ at \in {"loop", "answer"} /\ at' = "upload"
  /\ accepted' = FALSE /\ succeeded' = FALSE
  /\ UNCHANGED <<guard, update, flash, reboot>>

\* Mutant: a block that cannot be written is passed over.
UploadWrite_Unchecked(fits) ==
  /\ at = "upload" /\ updater = "open"
  /\ Overwrite
  /\ image' = IF fits THEN image ELSE "damaged"
  /\ UNCHANGED <<at, guard, flags, updater, error, over, reboot>>

\* UPLOAD_FILE_WRITE with a block that can be written or not; one of an update
\* that has not started changes nothing.
UploadWrite(fits) ==
  /\ at = "upload" /\ updater = "open"
  /\ Overwrite
  /\ \/ fits /\ UNCHANGED update
     \/ ~fits /\ updater' = "closed" /\ error' = TRUE /\ image' = "damaged"
  /\ UNCHANGED <<at, guard, flags, over, reboot>>

\* UPLOAD_FILE_END.  Update.end(true) may find the image invalid.
UploadEnd ==
  /\ Go("upload", "answer")
  /\ updater' = "closed"
  /\ \/ updater = "open" /\ succeeded' = TRUE /\ Take(image) /\ UNCHANGED error
     \/ updater = "open" /\ succeeded' = FALSE /\ error' = TRUE /\ UNCHANGED flash
     \/ updater = "closed" /\ succeeded' = FALSE /\ UNCHANGED <<error, flash>>
  /\ UNCHANGED <<guard, accepted, image, reboot>>

\* UPLOAD_FILE_ABORTED, of a refused upload as well; no final handler follows.
\* Update.end() discards an update that is not complete.
UploadAbort ==
  /\ Go("upload", "loop")
  /\ updater' = "closed" /\ succeeded' = FALSE
  /\ FinishFailedOta
  /\ UNCHANGED <<accepted, error, image, flash, reboot>>

\* The final handler.  It judges by the flags the last upload left and by the last
\* error of Update, also when the request brought no file.
UploadAnswer ==
  /\ at \in {"answer", "loop"} /\ at' = "loop"
  /\ UNCHANGED <<flags, error, image, flash>>
  /\ \/ ~accepted /\ UNCHANGED <<guard, updater, reboot>>
     \/ accepted /\ (~succeeded \/ error)
        /\ updater' = "closed" /\ FinishFailedOta /\ UNCHANGED reboot
     \/ accepted /\ succeeded /\ ~error
        /\ reboot' = RebootDelay /\ UNCHANGED <<guard, updater>>

\* The client has gone before its answer: the final handler is not called.
UploadLost ==
  /\ Go("answer", "loop")
  /\ UNCHANGED <<guard, flags, update, flash, reboot>>

-----------------------------------------------------------------------------
(* A download: one call of handleOtaUrl(), which yields while it reads *)

StartDownload ==
  /\ Go("loop", "download")
  /\ PrepareOta
  /\ UNCHANGED <<flags, update, flash, reboot>>

\* No connection, no image, one that does not fit, or Update.begin() fails
DownloadRefused ==
  /\ updater = "closed" /\ Go("download", "loop")
  /\ UpdateRefuses \/ UNCHANGED <<updater, error, image, over>>
  /\ FinishFailedOta
  /\ UNCHANGED <<flags, staged, reboot>>

\* Update.begin(len) and the first blocks; those that follow change nothing more.
DownloadBegin ==
  /\ at = "download"
  /\ UpdateBegins /\ Overwrite
  /\ UNCHANGED <<at, guard, flags, reboot>>

\* The whole length has been read, and its digest is the one that was asked for.
Verified(whole, match) == whole /\ match

Downloaded(whole, match) ==
  IF ~whole THEN "damaged" ELSE IF match THEN "whole" ELSE "unverified"

\* The reading loop has ended.  Update.end(true) takes a verified image or not.
\* Of another, Update.end() discards what is not complete; a complete image it
\* may take, whatever its digest: only the restart is not asked for.
DownloadEnd(whole, match, takes) ==
  /\ updater = "open" /\ Go("download", "loop")
  /\ updater' = "closed"
  /\ image' = Downloaded(whole, match)
  /\ \/ Verified(whole, match) /\ takes
        /\ Take(image') /\ reboot' = RebootDelay /\ UNCHANGED <<guard, error>>
     \/ Verified(whole, match) /\ ~takes
        /\ FinishFailedOta /\ error' = TRUE /\ UNCHANGED <<flash, reboot>>
     \/ ~Verified(whole, match)
        /\ (IF whole /\ takes THEN Take(image') ELSE UNCHANGED flash)
        /\ FinishFailedOta /\ error' \in BOOLEAN /\ UNCHANGED reboot
  /\ UNCHANGED flags

-----------------------------------------------------------------------------
(* Between requests, in the SYS context, and power *)

RebootTick == at = "loop" /\ reboot = 0 /\ Restart

\* Time does not pass a due watchdog: loop() does not hold it up.
Elapse ==
  /\ dog # 0
  /\ dog' = Countdown(dog) /\ reboot' = Countdown(reboot)
  /\ UNCHANGED <<at, ota, flags, update, flash>>

Watchdog == dog = 0 /\ Restart

PowerLoss == Restart

Next ==
  \/ StartUpload
  \/ RefuseUpload
  \/ \E fits \in BOOLEAN : UploadWrite(fits)
  \/ UploadEnd
  \/ UploadAbort
  \/ UploadAnswer
  \/ UploadLost
  \/ StartDownload
  \/ DownloadRefused
  \/ DownloadBegin
  \/ \E whole, match, takes \in BOOLEAN : DownloadEnd(whole, match, takes)
  \/ RebootTick
  \/ Elapse
  \/ Watchdog
  \/ PowerLoss

Spec == Init /\ [][Next]_vars

\* Time, the two restarts and the server's own end of a request.  Nothing is
\* assumed of a client or of the server of an image: each may go silent for ever.
FairSpec ==
  /\ Spec
  /\ WF_vars(Elapse) /\ WF_vars(Watchdog) /\ WF_vars(RebootTick)
  /\ WF_vars(UploadAnswer \/ UploadLost)

-----------------------------------------------------------------------------
(* Properties *)

\* What a restart would install has come whole, whatever uploads failed, were
\* refused, aborted or never answered and whatever downloads broke off; unless an
\* update has been begun while the image of an earlier one was waiting.
StagedIsWhole == staged = "damaged" => over

\* While the siren is held silent for an update, and while a download or an
\* accepted upload may hold loop() up, the watchdog that ends it is running: no
\* path calls it off and leaves the flag or stays in the request.
OtaIsWatched ==
  ota \/ at = "download" \/ (accepted /\ at \in {"upload", "answer"}) => dog # Off

\* No update is left open behind its request: the next one could not begin.
NoUpdateLeftOpen ==
  updater = "open" => ota /\ (at = "download" \/ (at = "upload" /\ accepted))

Inv == TypeOK /\ OtaIsWatched /\ NoUpdateLeftOpen

HeldByRefused == at \in {"upload", "answer"} /\ ~accepted

\* An update that stalls does not stop the device: loop() comes round again, by the
\* watchdog's restart if need be; unless a client sends files without end in one
\* request (each arms the watchdog afresh), or one whose upload was refused stays
\* connected (a refused START arms none).  When nobody starts another update, the
\* siren may sound again, whatever any client does.
OtaEnds ==
  /\ []<>(at = "loop") \/ []<><<StartUpload>>_vars \/ <>[]HeldByRefused
  /\ <>[][~(StartDownload \/ StartUpload)]_vars => []<>~ota
=============================================================================
