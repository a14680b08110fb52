------------------------ MODULE DeviceLifecycleProofs ------------------------
(***************************************************************************)
(* For all delays, names and keys: the AP is up exactly while the state    *)
(* says so, and what the device runs on is what its next boot will read.   *)
(*                                                                         *)
(* The second needs to know what a set-up between its two files has done   *)
(* already: the draft it will answer for is the one whose name is saved.   *)
(***************************************************************************)
EXTENDS DeviceLifecycle, TLAPS

Drafts == [secrets : Secrets, name : Names]

DraftIsSaved == at = "secrets" => draft \in Drafts /\ diskName = draft.name

IInv == Inv /\ NextBootIsThisOne /\ DraftIsSaved

\* The radio's part of the invariant
Radios == WifiTypes /\ ApIffPortal

\* What is neither the radio nor the files
Places_OK ==
  /\ clientKey \in Keys
  /\ reboot \in Timer(RebootDelay)
  /\ at \in Places
  /\ draft \in Drafts \cup {NoDraft}
  /\ torn \in BOOLEAN /\ wasOnline \in BOOLEAN
  /\ ntp \in {"off", "asked", "answered", "synced"}

\* Every timer that is set is in its range and runs.
LEMMA TimersTyped ==
  /\ Off \in Timer(ForgetDelay) /\ ForgetDelay \in Timer(ForgetDelay)
  /\ Off \in Timer(RebootDelay) /\ RebootDelay \in Timer(RebootDelay)
  /\ RebootDelay # Off
  /\ {Off, StaTimeout, RetryInterval} \subseteq Timer(StaTimeout + RetryInterval)
BY RebootAssumption, WifiAssumption, OffAssumption DEF Timer

\* Time keeps a timer in its range and does not switch it off.
LEMMA CountdownTyped ==
  ASSUME NEW n \in Nat, NEW t \in Timer(n)
  PROVE  Countdown(t) \in Timer(n) /\ (t # Off => Countdown(t) # Off)
BY OffAssumption DEF Timer, Countdown

-----------------------------------------------------------------------------
(* The radio *)

\* The station or the portal, as begin() chooses
LEMMA BeginKeepsRadio ==
  ASSUME NEW cred \in Credentials, WifiBegin(cred)
  PROVE  Radios'
BY TimersTyped
   DEF WifiBegin, StartSta, Radios, WifiTypes, ApIffPortal, Credentials

\* A tick keeps the AP in step with the state, whatever credentials it finds.
LEMMA TickKeepsRadio ==
  ASSUME Radios, NEW cred \in Credentials, WifiTick(cred)
  PROVE  Radios'
<1> USE TimersTyped
<1> USE DEF Radios, WifiTypes, ApIffPortal
<1>1. provision' \in Timer(ForgetDelay)
  BY DEF WifiTick
<1>2. CASE provision = 0 /\ Forgotten(cred)
  BY <1>1, <1>2 DEF Forgotten, BecomeConnected, StartProvisioning
<1>3. CASE state = "Provisioning" /\ Recover(cred)
  BY <1>1, <1>3 DEF Recover, BecomeConnected
<1>4. CASE state = "Connecting" /\ Connect(cred)
  BY <1>1, <1>4 DEF Connect, BecomeConnected, StartProvisioning
<1>5. CASE state = "Connected" /\ Watch
  BY <1>1, <1>5 DEF Watch
<1> QED
  BY <1>2, <1>3, <1>4, <1>5 DEF WifiTick

\* What is not the radio's own leaves it as it was.
LEMMA IdleKeepsRadio ==
  ASSUME Radios, UNCHANGED wifi
  PROVE  Radios'
BY DEF Radios, WifiTypes, ApIffPortal, wifi

-----------------------------------------------------------------------------
(* Boots *)

\* A boot begins with everything in step, whatever it reads.
LEMMA BootEstablishes ==
  ASSUME NEW s \in Secrets, NEW n \in Names, Boot(s, n)
  PROVE  IInv'
<1>1. s.cred \in Credentials /\ s.key \in Keys
  BY DEF Secrets
<1>2. Radios'
  BY <1>1, BeginKeepsRadio DEF Boot
<1>3. Places_OK'
  BY <1>1, TimersTyped DEF Boot, Places_OK, Places
<1>4. (secrets \in Secrets /\ diskSecrets \in Secrets /\ name \in Names /\ diskName \in Names)'
  BY DEF Boot
<1>5. NextBootIsThisOne' /\ DraftIsSaved'
  BY DEF Boot, NextBootIsThisOne, DraftIsSaved
<1> QED
  BY <1>2, <1>3, <1>4, <1>5 DEF IInv, Inv, TypeOK, Radios, Places_OK, Drafts

LEMMA InitEstablishes == Init => IInv
<1> SUFFICES ASSUME Init PROVE IInv
  OBVIOUS
<1>1. secrets \in Secrets /\ diskSecrets = secrets /\ name \in Names /\ diskName = name
  BY DEF Init, Secrets, Credentials
<1>2. Radios
  BY TimersTyped DEF Init, Radios, WifiTypes, ApIffPortal, Credentials
<1>3. Places_OK
  BY TimersTyped DEF Init, Places_OK, Places
<1>4. NextBootIsThisOne /\ DraftIsSaved
  BY <1>1 DEF Init, NextBootIsThisOne, DraftIsSaved
<1> QED
  BY <1>1, <1>2, <1>3, <1>4 DEF IInv, Inv, TypeOK, Radios, Places_OK, Drafts

-----------------------------------------------------------------------------
(* Steps *)

\* The files and their copies in RAM
Copies ==
  /\ secrets \in Secrets /\ diskSecrets \in Secrets
  /\ name \in Names /\ diskName \in Names

Agree == NextBootIsThisOne /\ DraftIsSaved

\* The invariant by its parts
LEMMA Parts == IInv <=> Radios /\ Copies /\ Places_OK /\ Agree
BY DEF IInv, Inv, TypeOK, Radios, Copies, Places_OK, Agree, Drafts

LEMMA PartsNext == IInv' <=> Radios' /\ Copies' /\ Places_OK' /\ Agree'
BY DEF IInv, Inv, TypeOK, Radios, Copies, Places_OK, Agree, Drafts

\* Saved credentials, keys or passwords are in RAM as well, and the key in use
\* is still the saved one or a restart is on its way.
LEMMA SaveKeepsFiles ==
  ASSUME IInv, NEW s \in Secrets, SaveSecrets(s), at' \notin {"secrets", "restore"},
         at \notin {"secrets", "restore"}, UNCHANGED <<draft, reboot>>,
         clientKey' = s.key \/ (UNCHANGED clientKey /\ s.key = secrets.key)
  PROVE  Copies' /\ Agree'
BY Parts DEF SaveSecrets, Copies, Agree, NextBootIsThisOne, DraftIsSaved

\* A step of the console
LEMMA ConsoleKeeps ==
  ASSUME IInv, Console \/ ForgetWifi
  PROVE  IInv'
<1> USE Parts, PartsNext
<1>0. secrets \in Secrets /\ diskName \in Names
  BY DEF Copies
<1>1. CASE \E cred \in Networks : ConsoleWifi(cred)
  <2> PICK cred \in Networks : ConsoleWifi(cred)
    BY <1>1
  <2>1. [secrets EXCEPT !.cred = cred] \in Secrets
    BY <1>0 DEF Secrets, Credentials
  <2> QED
    BY <1>0, <2>1, BootEstablishes DEF ConsoleWifi
<1>2. CASE \E key \in Keys : ConsoleKey(key)
  <2> PICK key \in Keys : ConsoleKey(key)
    BY <1>2
  <2>1. [secrets EXCEPT !.key = key] \in Secrets
    BY <1>0 DEF Secrets
  <2> QED
    BY <1>0, <2>1, BootEstablishes DEF ConsoleKey
<1>3. CASE ConsolePassword
  <2> DEFINE s == [secrets EXCEPT !.web = TRUE]
  <2>1. s \in Secrets /\ s.key = secrets.key
    BY <1>0 DEF Secrets
  <2>2. SaveSecrets(s) /\ at = "console" /\ UNCHANGED <<wifi, clientKey, reboot, at, draft, clock>>
    BY <1>3 DEF ConsolePassword, AtConsole
  <2>3. torn' = torn
    BY <2>2 DEF SaveSecrets
  <2>4. Copies' /\ Agree'
    <3> HIDE DEF s
    <3> QED
      BY <2>1, <2>2, SaveKeepsFiles
  <2>5. Radios'
    BY <2>2, IdleKeepsRadio
  <2>6. Places_OK'
    BY <2>2, <2>3 DEF Places_OK, clock
  <2> QED
    BY <2>4, <2>5, <2>6
<1>4. CASE ConsoleRestart
  BY <1>4, BootEstablishes DEF ConsoleRestart, Restart, Copies
<1>5. CASE ForgetWifi
  <2> DEFINE s == [secrets EXCEPT !.cred = "none"]
  <2>1. s \in Secrets /\ s.key = secrets.key
    BY <1>0 DEF Secrets, Credentials
  <2>2. /\ at \in {"console", "web"} /\ at' \in {"console", "rest"}
        /\ UNCHANGED <<state, mode, tried, up, wait>>
        /\ UNCHANGED <<clientKey, reboot, draft>>
        /\ UNCHANGED clock
    BY <1>5 DEF ForgetWifi, AtConsole
  <2>3. \/ SaveSecrets(s) /\ provision' = ForgetDelay
        \/ UNCHANGED <<secrets, name, files, provision>>
    BY <1>5 DEF ForgetWifi, Forget
  <2>4. torn' = torn
    BY <2>3 DEF SaveSecrets, files
  <2>5. Copies' /\ Agree'
    <3>1. CASE SaveSecrets(s)
      <4> HIDE DEF s
      <4> QED
        BY <2>1, <2>2, <3>1, SaveKeepsFiles
    <3>2. CASE UNCHANGED <<secrets, name, files>>
      BY <2>2, <3>2 DEF files, Copies, Agree, NextBootIsThisOne, DraftIsSaved
    <3> QED
      BY <2>3, <3>1, <3>2
  <2>6. Radios'
    BY <2>2, <2>3, TimersTyped DEF Radios, WifiTypes, ApIffPortal
  <2>7. Places_OK'
    BY <2>2, <2>4 DEF Places_OK, Places, clock
  <2> QED
    BY <2>5, <2>6, <2>7
<1> QED
  BY <1>1, <1>2, <1>3, <1>4, <1>5 DEF Console

\* A request, up to the answer or to the first file of a set-up
LEMMA RequestKeeps ==
  ASSUME IInv, Request
  PROVE  IInv'
<1> USE Parts, PartsNext
<1>0. secrets \in Secrets /\ Radios
  BY DEF Copies
<1>1. CASE \E key \in Keys : PutKey(key)
  <2> PICK key \in Keys : PutKey(key)
    BY <1>1
  <2> DEFINE s == [secrets EXCEPT !.key = key]
  <2>1. s \in Secrets /\ s.key = key
    BY <1>0 DEF Secrets, Copies
  <2>2. /\ SaveSecrets(s) /\ clientKey' = key /\ at = "web" /\ at' = "rest"
        /\ UNCHANGED <<wifi, draft, clock>> /\ UNCHANGED reboot
    BY DEF PutKey, Handle, Unmoved
  <2>3. torn' = torn
    BY <2>2 DEF SaveSecrets
  <2>4. Copies' /\ Agree'
    <3> HIDE DEF s
    <3> QED
      BY <2>1, <2>2, SaveKeepsFiles
  <2>5. Radios'
    BY <2>2, IdleKeepsRadio
  <2>6. Places_OK'
    BY <2>2, <2>3 DEF Places_OK, Places, clock
  <2> QED
    BY <2>4, <2>5, <2>6
<1>2. CASE \E n \in Names : PutName(n)
  <2> PICK n \in Names : PutName(n)
    BY <1>2
  <2>1. Radios'
    BY <1>0, IdleKeepsRadio DEF PutName, Unmoved
  <2>2. Copies'
    BY DEF PutName, Copies
  <2>3. Places_OK'
    BY DEF PutName, Handle, Unmoved, Places_OK, Places, clock
  <2>4. Agree'
    BY DEF PutName, Handle, Agree, NextBootIsThisOne, DraftIsSaved
  <2> QED
    BY <2>1, <2>2, <2>3, <2>4
<1>3. CASE PostReboot
  <2>1. Radios'
    BY <1>0, <1>3, IdleKeepsRadio DEF PostReboot, Unmoved
  <2>2. Copies'
    BY <1>3 DEF PostReboot, memory, files, Copies
  <2>3. Places_OK'
    BY <1>3, TimersTyped
       DEF PostReboot, Handle, Unmoved, memory, files, Places_OK, Places, clock
  <2>4. Agree'
    BY <1>3, TimersTyped
       DEF PostReboot, Handle, memory, files, Agree, NextBootIsThisOne, DraftIsSaved
  <2> QED
    BY <2>1, <2>2, <2>3, <2>4
<1>4. CASE \E cred \in Networks, key \in Keys, n \in Names : SetupConfig(cred, key, n)
  <2> PICK cred \in Networks, key \in Keys, n \in Names : SetupConfig(cred, key, n)
    BY <1>4
  <2>1. Radios'
    BY <1>0, IdleKeepsRadio DEF SetupConfig
  <2>2. Copies'
    BY DEF SetupConfig, memory, Copies
  <2>3. draft' \in Drafts /\ draft'.name = n
    BY DEF SetupConfig, Drafts, Secrets, Credentials
  <2>4. Places_OK'
    BY <2>3 DEF SetupConfig, memory, Places_OK, Places, clock
  <2>5. Agree'
    BY <2>3 DEF SetupConfig, memory, Agree, NextBootIsThisOne, DraftIsSaved
  <2> QED
    BY <2>1, <2>2, <2>4, <2>5
<1> QED
  BY <1>1, <1>2, <1>3, <1>4 DEF Request

\* The second file of a set-up, and what becomes of the first when it fails
LEMMA SaveKeeps ==
  ASSUME IInv, Save
  PROVE  IInv'
<1> USE Parts, PartsNext
<1>1. Radios'
  BY IdleKeepsRadio DEF Save, SetupSecrets, SetupRestore
<1>2. CASE SetupSecrets
  <2>1. draft \in Drafts /\ diskName = draft.name
    BY <1>2 DEF SetupSecrets, Agree, DraftIsSaved
  <2>2. draft.secrets \in Secrets /\ draft.name \in Names
    BY <2>1 DEF Drafts
  <2>3. Copies'
    BY <1>2, <2>2 DEF SetupSecrets, Copies
  <2>4. Places_OK'
    BY <1>2, TimersTyped DEF SetupSecrets, Places_OK, Places, clock
  <2>5. Agree'
    BY <1>2, <2>1, TimersTyped DEF SetupSecrets, Agree, NextBootIsThisOne, DraftIsSaved
  <2> QED
    BY <1>1, <2>3, <2>4, <2>5
<1>3. CASE SetupRestore
  <2>1. Copies'
    BY <1>3 DEF SetupRestore, memory, Copies
  <2>2. Places_OK'
    BY <1>3 DEF SetupRestore, memory, Places_OK, Places, clock
  <2>3. Agree'
    BY <1>3 DEF SetupRestore, memory, Agree, NextBootIsThisOne, DraftIsSaved
  <2> QED
    BY <1>1, <2>1, <2>2, <2>3
<1> QED
  BY <1>2, <1>3 DEF Save

\* What moves neither the files nor their copies, and stays out of a set-up
LEMMA FilesStill ==
  ASSUME IInv, UNCHANGED <<memory, files, draft>>,
         reboot # Off => reboot' # Off,
         at' = at \/ (at \in {"console", "web", "rest"} /\ at' \in {"console", "web", "rest"})
  PROVE  Copies' /\ Agree'
BY Parts DEF memory, files, Copies, Agree, NextBootIsThisOne, DraftIsSaved

\* A pass of loop(), time and the radio
LEMMA PassKeeps ==
  ASSUME IInv, TickWifi \/ NoChange \/ EndPass \/ Elapse \/ SyncClock
               \/ Radio(Associate) \/ Radio(LoseLink)
  PROVE  IInv'
<1> USE Parts, PartsNext
<1>1. CASE TickWifi
  <2>1. Radios'
    BY <1>1, TickKeepsRadio DEF TickWifi, Copies, Secrets
  <2>2. Copies' /\ Agree'
    BY <1>1, FilesStill DEF TickWifi, AtConsole
  <2>3. Places_OK'
    BY <1>1 DEF TickWifi, memory, files, Places_OK, Places, clock
  <2> QED
    BY <2>1, <2>2, <2>3
<1>2. CASE NoChange
  <2>1. Radios'
    BY <1>2, IdleKeepsRadio DEF NoChange, Unmoved
  <2>2. Copies' /\ Agree'
    BY <1>2, FilesStill DEF NoChange, Unmoved
  <2>3. Places_OK'
    BY <1>2 DEF NoChange, Unmoved, memory, files, Places_OK, Places, clock
  <2> QED
    BY <2>1, <2>2, <2>3
<1>3. CASE EndPass
  <2>1. CASE Restart
    BY <2>1, BootEstablishes DEF Restart, Copies
  <2>2. CASE /\ at = "rest" /\ at' = "console" /\ Transitions
             /\ UNCHANGED <<wifi, memory, files, reboot, draft>>
    <3>1. Radios'
      BY <2>2, IdleKeepsRadio
    <3>2. Copies' /\ Agree'
      BY <2>2, FilesStill
    <3>3. wasOnline' \in BOOLEAN
      BY <2>2 DEF Transitions
    <3>4. Places_OK'
      BY <2>2, <3>3 DEF Transitions, memory, files, Places_OK, Places
    <3> QED
      BY <3>1, <3>2, <3>4
  <2> QED
    BY <1>3, <2>1, <2>2 DEF EndPass
<1>4. CASE Elapse
  <2>1. reboot' \in Timer(RebootDelay) /\ (reboot # Off => reboot' # Off)
    BY <1>4, CountdownTyped, RebootAssumption DEF Elapse, Places_OK
  <2>2. wait' \in Timer(StaTimeout + RetryInterval) /\ provision' \in Timer(ForgetDelay)
    BY <1>4, CountdownTyped, WifiAssumption DEF Elapse, WifiElapse, Radios, WifiTypes
  <2>3. Radios'
    BY <1>4, <2>2 DEF Elapse, WifiElapse, Radios, WifiTypes, ApIffPortal
  <2>4. Copies' /\ Agree'
    BY <1>4, <2>1, FilesStill DEF Elapse
  <2>5. Places_OK'
    BY <1>4, <2>1 DEF Elapse, memory, files, Places_OK, clock
  <2> QED
    BY <2>3, <2>4, <2>5
<1>5. CASE SyncClock
  <2>1. Radios'
    BY <1>5, IdleKeepsRadio DEF SyncClock
  <2>2. Copies' /\ Agree'
    BY <1>5, FilesStill DEF SyncClock
  <2>3. Places_OK'
    BY <1>5 DEF SyncClock, memory, files, Places_OK
  <2> QED
    BY <2>1, <2>2, <2>3
<1>6. CASE Radio(Associate) \/ Radio(LoseLink)
  <2>1. Radios'
    BY <1>6 DEF Radio, Associate, LoseLink, Radios, WifiTypes, ApIffPortal
  <2>2. Copies' /\ Agree'
    BY <1>6, FilesStill DEF Radio
  <2>3. Places_OK'
    BY <1>6 DEF Radio, memory, files, Places_OK, clock
  <2> QED
    BY <2>1, <2>2, <2>3
<1> QED
  BY <1>1, <1>2, <1>3, <1>4, <1>5, <1>6

LEMMA StepPreserves == IInv /\ [Next]_vars => IInv'
<1> SUFFICES ASSUME IInv, [Next]_vars
             PROVE  IInv'
  OBVIOUS
<1>1. CASE Calm
  BY <1>1, PassKeeps, SaveKeeps DEF Calm, Join
<1>2. CASE Console \/ ForgetWifi
  BY <1>2, ConsoleKeeps
<1>3. CASE Request
  BY <1>3, RequestKeeps
<1>4. CASE PowerLoss
  BY <1>4, Parts, BootEstablishes DEF PowerLoss, Restart, Copies
<1>5. CASE Radio(LoseLink)
  BY <1>5, PassKeeps
<1>6. CASE UNCHANGED vars
  <2>1. UNCHANGED <<wifi, memory, files>> /\ UNCHANGED <<reboot, at, draft, clock>>
    BY <1>6 DEF vars
  <2>2. Radios'
    BY <2>1, Parts, IdleKeepsRadio
  <2>3. Copies' /\ Agree'
    BY <2>1, FilesStill
  <2>4. Places_OK'
    BY <2>1, Parts DEF memory, files, clock, Places_OK
  <2> QED
    BY <2>2, <2>3, <2>4, PartsNext
<1> QED
  BY <1>1, <1>2, <1>3, <1>4, <1>5, <1>6 DEF Next

-----------------------------------------------------------------------------
LEMMA Inductive == Spec => []IInv
<1>1. Init => IInv
  BY InitEstablishes
<1>2. IInv /\ [Next]_vars => IInv'
  BY StepPreserves
<1> QED
  BY <1>1, <1>2, PTL DEF Spec

\* The AP and its captive DNS are up exactly while the state says so, through
\* every tick, forgetting, restart and late timer.
THEOREM ApFollowsState == Spec => []Inv
<1>1. IInv => Inv
  BY DEF IInv
<1> QED
  BY <1>1, Inductive, PTL

\* What the device runs on is what its next boot reads, whatever saves fail and
\* wherever power goes, but for a set-up whose repair failed as well.
THEOREM RamIsOnDisk == Spec => []NextBootIsThisOne
<1>1. IInv => NextBootIsThisOne
  BY DEF IInv
<1> QED
  BY <1>1, Inductive, PTL
=============================================================================
