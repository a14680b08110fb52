-------------------------- MODULE DeviceLifecycle --------------------------
(***************************************************************************)
(* What the device goes through from boot to boot: passes of loop() with   *)
(* the serial console, WifiService and the handlers that save, the first-  *)
(* run set-up with its two files, the copies in RAM, and every restart but *)
(* that of an update (OtaUpdate).                                          *)
(*                                                                         *)
(* A pass is console commands, wifi.tick(), at most one request, and the   *)
(* check of rebootAt_.  The set-up takes a step for each file, so that     *)
(* power may go between them.  One save is atomic: AtomicJsonFile shows    *)
(* it.  A save that fails is a handler that changes nothing.               *)
(***************************************************************************)
EXTENDS WifiService

CONSTANTS
  RebootDelay,  \* the 300 to 800 ms before a restart that was asked for
  Names,        \* device names, for the rest of config.json
  Keys,         \* API tokens and addresses, for the rest of secrets.json
  NoDraft       \* no set-up is being saved

ASSUME RebootAssumption == RebootDelay \in Nat \ {0}

VARIABLES
  secrets,      \* secrets: credentials, key, whether a web password is set
  name,         \* appCfg.deviceName
  diskSecrets,  \* what the next boot reads from secrets.json
  diskName,     \* ... and from config.json
  clientKey,    \* the key AlertsClient uses
  reboot,       \* time left till rebootAt_, or Off
  at,           \* where loop() is
  draft,        \* nextSecrets and nextConfig of a set-up being saved
  torn,         \* history: a set-up left the new name with the old secrets
  wasOnline,    \* wasOnline
  ntp           \* ntpStarted, the clock set by SNTP, ntpSynced

files == <<diskSecrets, diskName, torn>>
memory == <<secrets, name, clientKey>>
clock == <<wasOnline, ntp>>
vars == <<wifi, memory, files, reboot, at, draft, clock>>

Secrets == [cred : Credentials, key : Keys, web : BOOLEAN]
Places == {"console", "web", "rest", "secrets", "restore"}

TypeOK ==
  /\ WifiTypes
  /\ secrets \in Secrets /\ diskSecrets \in Secrets
  /\ name \in Names /\ diskName \in Names
  /\ clientKey \in Keys
  /\ reboot \in Timer(RebootDelay)
  /\ at \in Places
  /\ draft \in [secrets : Secrets, name : Names] \cup {NoDraft}
  /\ torn \in BOOLEAN /\ wasOnline \in BOOLEAN
  /\ ntp \in {"off", "asked", "answered", "synced"}

-----------------------------------------------------------------------------
(* Boot and restart *)

\* setup() on an empty file system
Init ==
  /\ \E k \in Keys, n \in Names :
       /\ secrets = [cred |-> "none", key |-> k, web |-> FALSE]
       /\ name = n /\ clientKey = k
  /\ diskSecrets = secrets /\ diskName = name
  /\ draft = NoDraft
  /\ torn = FALSE
  /\ state = "Provisioning" /\ mode = "AP" /\ tried = "none" /\ up = FALSE
  /\ wait = RetryInterval /\ provision = Off
  /\ reboot = Off /\ at = "console"
  /\ wasOnline = FALSE /\ ntp = "off"

\* setup(): the files are read, the client gets its key, the radio starts.
Boot(s, n) ==
  /\ secrets' = s /\ diskSecrets' = s
  /\ name' = n /\ diskName' = n
  /\ clientKey' = s.key
  /\ draft' = NoDraft
  /\ WifiBegin(s.cred)
  /\ reboot' = Off /\ at' = "console" /\ torn' = FALSE
  /\ wasOnline' = FALSE /\ ntp' = "off"

Restart == Boot(diskSecrets, diskName)

-----------------------------------------------------------------------------
(* The serial console, before wifi.tick().  A save may fail. *)

AtConsole == at = "console"

\* setwifi: the new credentials are tried after the restart.
ConsoleWifi(cred) ==
  /\ AtConsole
  /\ Boot([secrets EXCEPT !.cred = cred], diskName)

\* settoken, setapi
ConsoleKey(key) ==
  /\ AtConsole
  /\ Boot([secrets EXCEPT !.key = key], diskName)

\* Secrets are replaced in RAM once they are on the disk.
SaveSecrets(s) ==
  /\ secrets' = s /\ diskSecrets' = s
  /\ UNCHANGED <<name, diskName, torn>>

ConsolePassword ==
  /\ AtConsole
  /\ SaveSecrets([secrets EXCEPT !.web = TRUE])
  /\ UNCHANGED <<wifi, clientKey, reboot, at, draft, clock>>

ConsoleRestart == AtConsole /\ Restart

\* Mutant: a clearing that could not be saved stays in RAM.
Forget_KeepsCleared ==
  /\ secrets' = [secrets EXCEPT !.cred = "none"]
  /\ \/ diskSecrets' = secrets' /\ provision' = ForgetDelay
     \/ UNCHANGED <<diskSecrets, provision>>
  /\ UNCHANGED <<name, diskName, torn>>

\* forget(): cleared on the disk and in RAM, or neither.
Forget ==
  \/ SaveSecrets([secrets EXCEPT !.cred = "none"]) /\ provision' = ForgetDelay
  \/ UNCHANGED <<secrets, name, files, provision>>

ForgetWifi ==
  /\ \/ AtConsole /\ UNCHANGED at
     \/ at = "web" /\ secrets.web /\ at' = "rest"
  /\ Forget
  /\ UNCHANGED <<state, mode, tried, up, wait, clientKey, reboot, draft, clock>>

-----------------------------------------------------------------------------
(* Requests *)

\* A handler that needs a session ends the web server's turn.
Handle == at = "web" /\ at' = "rest" /\ secrets.web

Unmoved == UNCHANGED <<wifi, draft, clock>>

\* PUT secrets/api-token, secrets/api-url: saved, then used at once.
PutKey(key) ==
  /\ Handle
  /\ SaveSecrets([secrets EXCEPT !.key = key])
  /\ clientKey' = key
  /\ UNCHANGED reboot /\ Unmoved

\* PUT config: saved, then applied.
PutName(n) ==
  /\ Handle
  /\ diskName' = n /\ name' = n /\ torn' = FALSE
  /\ UNCHANGED <<secrets, diskSecrets, clientKey, reboot>> /\ Unmoved

PostReboot ==
  /\ Handle
  /\ reboot' = RebootDelay
  /\ UNCHANGED <<memory, files>> /\ Unmoved

\* A request that changes nothing, a save that failed, or no request at all
NoChange ==
  /\ at = "web" /\ at' = "rest"
  /\ UNCHANGED <<memory, files, reboot>> /\ Unmoved

\* POST setup, by the portal's key or a session.  Credentials and, if there is
\* none yet, a password are mandatory.  The name is saved first.
SetupConfig(cred, key, n) ==
  /\ at = "web"
  /\ state = "Provisioning" \/ secrets.web
  /\ draft' = [secrets |-> [cred |-> cred, key |-> key, web |-> TRUE], name |-> n]
  /\ diskName' = n /\ at' = "secrets"
  /\ UNCHANGED <<wifi, memory, diskSecrets, torn, reboot, clock>>

\* The second file: both are answered for, or the first has to go back.
SetupSecrets ==
  /\ at = "secrets"
  /\ \/ /\ diskSecrets' = draft.secrets
        /\ secrets' = draft.secrets /\ name' = draft.name /\ torn' = FALSE
        /\ reboot' = RebootDelay /\ at' = "rest"
     \/ /\ at' = "restore"
        /\ UNCHANGED <<diskSecrets, secrets, name, torn, reboot>>
  /\ draft' = NoDraft
  /\ UNCHANGED <<wifi, clientKey, diskName, clock>>

\* The old name goes back; should that fail too, only the console says so.
SetupRestore ==
  /\ at = "restore" /\ at' = "rest"
  /\ \/ diskName' = name /\ torn' = FALSE
     \/ torn' = (diskName # name) /\ UNCHANGED diskName
  /\ UNCHANGED <<wifi, memory, diskSecrets, reboot, draft, clock>>

-----------------------------------------------------------------------------
(* The rest of a pass, time, and power *)

TickWifi ==
  /\ AtConsole /\ at' = "web"
  /\ WifiTick(secrets.cred)
  /\ UNCHANGED <<memory, files, reboot, draft, clock>>

\* Wi-Fi came or went: the first connection asks for the time.
Transitions ==
  LET online == state = "Connected" IN
  /\ wasOnline' = online
  /\ ntp' = CASE online /\ ~wasOnline /\ ntp = "off" -> "asked"
              [] ntp = "answered" -> "synced"
              [] OTHER -> ntp

EndPass ==
  /\ at = "rest"
  /\ \/ reboot = 0 /\ Restart
     \/ /\ reboot # 0 /\ at' = "console"
        /\ Transitions
        /\ UNCHANGED <<wifi, memory, files, reboot, draft>>

\* SNTP answers in the background.
SyncClock ==
  /\ ntp = "asked" /\ up /\ ntp' = "answered"
  /\ UNCHANGED <<wifi, memory, files, reboot, at, draft, wasOnline>>

Elapse ==
  /\ WifiElapse
  /\ reboot' = Countdown(reboot)
  /\ UNCHANGED <<memory, files, at, draft, clock>>

PowerLoss == Restart

Radio(A) == A /\ UNCHANGED <<memory, files, reboot, at, draft, clock>>

-----------------------------------------------------------------------------
Console ==
  \/ \E cred \in Networks : ConsoleWifi(cred)
  \/ \E key \in Keys : ConsoleKey(key)
  \/ ConsolePassword
  \/ ConsoleRestart

Request ==
  \/ \E key \in Keys : PutKey(key)
  \/ \E n \in Names : PutName(n)
  \/ PostReboot
  \/ \E cred \in Networks, key \in Keys, n \in Names : SetupConfig(cred, key, n)

Save == SetupSecrets \/ SetupRestore
Join == Radio(Associate)

\* What happens when nobody touches the device and the router stays.
Calm ==
  \/ TickWifi
  \/ NoChange
  \/ EndPass
  \/ Save
  \/ Join
  \/ SyncClock
  \/ Elapse

Next ==
  \/ Calm
  \/ Console
  \/ Request
  \/ ForgetWifi
  \/ PowerLoss
  \/ Radio(LoseLink)

Spec == Init /\ [][Next]_vars

\* loop() and time go on; the router and the time server answer a station that
\* has the right credentials.
FairSpec ==
  /\ Spec
  /\ WF_vars(TickWifi) /\ WF_vars(NoChange) /\ WF_vars(EndPass) /\ WF_vars(Save)
  /\ WF_vars(Elapse) /\ WF_vars(Join) /\ WF_vars(SyncClock)

-----------------------------------------------------------------------------
(* Properties *)

Inv == TypeOK /\ ApIffPortal

\* What the device runs on is what it will find after the next boot: an answer
\* "ok" is durable, after any other nothing has changed, and only a set-up whose
\* repair failed as well leaves a name the device does not yet use.
\* The client polls with the key that is saved, unless a restart is on its way.
NextBootIsThisOne ==
  /\ diskSecrets = secrets
  /\ at \notin {"secrets", "restore"} /\ ~torn => diskName = name
  /\ clientKey # secrets.key => reboot # Off

\* The portal is no trap: with the right credentials saved, the device gets back to
\* the router without the user's help, however long the router was away, and
\* knows the time, without which it does not poll.
Reconnects ==
  <>[][Calm]_vars /\ <>[](secrets.cred = "home") =>
    <>[](state = "Connected" /\ ntp = "synced")

\* Forgotten credentials open the portal, whatever happens in the 500 ms between;
\* only forgetting them again and again puts it off.
ForgetOpensPortal ==
  <>[][~ForgetWifi]_vars =>
    (secrets.cred = "none" ~> state = "Provisioning" \/ secrets.cred # "none")
=============================================================================
