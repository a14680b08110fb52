---------------------------- MODULE WifiService ----------------------------
(***************************************************************************)
(* network/WifiService.h: the station with its timeout, the provisioning   *)
(* portal (AP) that keeps trying the router in the background, and the     *)
(* radio both share.  A component in state plus operators; DeviceLifecycle *)
(* runs it.                                                                *)
(*                                                                         *)
(* staDeadline_ and nextRetryAt_ are each set when the state that reads    *)
(* them is entered, so one variable stands for both.  Left out: the AP's   *)
(* own password, made and saved at the first boot.                         *)
(***************************************************************************)
EXTENDS Timers

CONSTANTS
  StaTimeout,     \* kStaTimeoutMs
  RetryInterval,  \* kRetryIntervalMs
  ForgetDelay     \* the 500 ms between forget() and the portal

ASSUME WifiAssumption == {StaTimeout, RetryInterval, ForgetDelay} \subseteq Nat \ {0}

VARIABLES
  state,      \* state_
  mode,       \* WiFi.getMode()
  tried,      \* the credentials of the last WiFi.begin()
  up,         \* WiFi.status() = WL_CONNECTED
  wait,       \* time left till staDeadline_ or nextRetryAt_, whichever state reads
  provision   \* time left till provisionAt_

wifi == <<state, mode, tried, up, wait, provision>>

\* The router takes the credentials "home"; "wrong" ones were mistyped.
Networks == {"home", "wrong"}
Credentials == Networks \cup {"none"}

WifiTypes ==
  /\ state \in {"Connecting", "Connected", "Provisioning"}
  /\ mode \in {"STA", "AP", "AP_STA"}
  /\ tried \in Credentials
  /\ up \in BOOLEAN
  /\ wait \in Timer(StaTimeout + RetryInterval)
  /\ provision \in Timer(ForgetDelay)

-----------------------------------------------------------------------------
(* Operations.  cred is secrets_->wifiSsid and wifiPass. *)

StartSta(cred) ==
  /\ state' = "Connecting" /\ mode' = "STA"
  /\ tried' = cred /\ up' = FALSE
  /\ wait' = StaTimeout

\* AP_STA leaves the station as it is; AP alone switches it off.
StartProvisioning(cred) ==
  /\ state' = "Provisioning"
  /\ mode' = (IF cred = "none" THEN "AP" ELSE "AP_STA")
  /\ up' = (up /\ cred # "none")
  /\ tried' = (IF cred = "none" THEN "none" ELSE tried)
  /\ wait' = RetryInterval

\* Mutant: the recovery AP stays when the station works again.
BecomeConnected_KeepsAp ==
  /\ state' = "Connected" /\ wait' = Off
  /\ UNCHANGED <<mode, tried, up>>

BecomeConnected ==
  /\ state' = "Connected" /\ mode' = "STA" /\ wait' = Off
  /\ UNCHANGED <<tried, up>>

\* Mutant: only a restart ends the portal.
Recover_StaysOpen(cred) ==
  \/ /\ cred # "none" /\ ~up /\ wait = 0
     /\ wait' = RetryInterval /\ tried' = cred
     /\ mode' = "AP_STA"
     /\ UNCHANGED <<state, up>>
  \/ /\ cred = "none" \/ up \/ wait # 0
     /\ UNCHANGED <<state, mode, tried, up, wait>>

\* In the portal: has the router come back, or is it time to try it again?
\* WiFi.begin() switches the station on beside a lone AP.
Recover(cred) ==
  \/ cred # "none" /\ up /\ BecomeConnected
  \/ /\ cred # "none" /\ ~up /\ wait = 0
     /\ wait' = RetryInterval /\ tried' = cred
     /\ mode' = "AP_STA"
     /\ UNCHANGED <<state, up>>
  \/ /\ cred = "none" \/ (~up /\ wait # 0)
     /\ UNCHANGED <<state, mode, tried, up, wait>>

\* provisionAt_ has come: the portal opens, and the same tick goes on in it.
Forgotten(cred) ==
  IF cred # "none" /\ up THEN BecomeConnected ELSE StartProvisioning(cred)

Connect(cred) ==
  \/ up /\ BecomeConnected
  \/ ~up /\ wait = 0 /\ StartProvisioning(cred)
  \/ ~up /\ wait # 0 /\ UNCHANGED <<state, mode, tried, up, wait>>

\* The router is lost: lwIP reconnects by itself, only the state is kept.
Watch ==
  /\ UNCHANGED <<mode, tried, up>>
  /\ IF up THEN UNCHANGED <<state, wait>>
     ELSE state' = "Connecting" /\ wait' = StaTimeout

\* Mutant: the first tick clears provisionAt_, due or not.
WifiTick_ClearsTimer(cred) ==
  /\ provision' = Off
  /\ \/ provision = 0 /\ Forgotten(cred)
     \/ provision # 0 /\ state = "Provisioning" /\ Recover(cred)
     \/ provision # 0 /\ state = "Connecting" /\ Connect(cred)
     \/ provision # 0 /\ state = "Connected" /\ Watch

WifiTick(cred) ==
  /\ provision' = (IF provision = 0 THEN Off ELSE provision)
  /\ \/ provision = 0 /\ Forgotten(cred)
     \/ provision # 0 /\ state = "Provisioning" /\ Recover(cred)
     \/ provision # 0 /\ state = "Connecting" /\ Connect(cred)
     \/ provision # 0 /\ state = "Connected" /\ Watch

\* begin(): the station if there are credentials, the portal if not.  The chip
\* comes out of reset with the radio idle.
WifiBegin(cred) ==
  /\ provision' = Off
  /\ IF cred # "none" THEN StartSta(cred)
     ELSE /\ state' = "Provisioning" /\ mode' = "AP"
          /\ tried' = "none" /\ up' = FALSE /\ wait' = RetryInterval

WifiElapse ==
  /\ wait' = Countdown(wait) /\ provision' = Countdown(provision)
  /\ UNCHANGED <<state, mode, tried, up>>

-----------------------------------------------------------------------------
(* The radio and the router *)

Associate ==
  /\ ~up /\ tried = "home" /\ mode # "AP"
  /\ up' = TRUE
  /\ UNCHANGED <<state, mode, tried, wait, provision>>

LoseLink ==
  /\ up /\ up' = FALSE
  /\ UNCHANGED <<state, mode, tried, wait, provision>>

-----------------------------------------------------------------------------
(* Properties *)

\* The AP and its captive DNS are up exactly while the state says so: no handler,
\* retry or late timer leaves the AP open behind a working station, or leaves the
\* user without a portal in the state that answers with redirects to it.
ApIffPortal == (mode # "STA") <=> (state = "Provisioning")
=============================================================================
