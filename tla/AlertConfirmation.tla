------------------------- MODULE AlertConfirmation -------------------------
(***************************************************************************)
(* What the AlertEngine promises, told with the history of its snapshots:  *)
(* for how many snapshots in a row each type has been present or absent.   *)
(* Its names are its own, so that one module can speak of it and of        *)
(* AlertPipeline.                                                          *)
(***************************************************************************)
EXTENDS AlertEngine

VARIABLES
  present,  \* history: consecutive snapshots that contained the type ...
  absent    \* ... and that did not, since boot or reset(), up to MaxConf

confirmVars == <<engineVars, present, absent>>

ConfirmTypeOK ==
  /\ EngineTypeOK
  /\ present \in [Types -> 0..MaxConf]
  /\ absent \in [Types -> 0..MaxConf]

NoHistory == [t \in Types |-> 0]

ConfirmInit ==
  /\ EngineInit
  /\ present = NoHistory
  /\ absent = NoHistory

Count(n) == IF n < MaxConf THEN n + 1 ELSE MaxConf

Receive(snap) ==
  /\ ApplySnapshot(snap)
  /\ present' = [t \in Types |->
                   IF Effective(snap[t]) # "None" THEN Count(present[t]) ELSE 0]
  /\ absent' = [t \in Types |->
                   IF Effective(snap[t]) = "None" THEN Count(absent[t]) ELSE 0]

Forget ==
  /\ Reset
  /\ present' = NoHistory
  /\ absent' = NoHistory
  /\ UNCHANGED cfg

Save ==
  /\ \E c \in Configs : SetConfig(c)
  /\ UNCHANGED <<present, absent>>

ConfirmNext ==
  \/ \E snap \in Snapshots : Receive(snap)
  \/ Forget
  \/ Save

ConfirmSpec == ConfirmInit /\ [][ConfirmNext]_confirmVars

-----------------------------------------------------------------------------
(* Properties *)

\* A snapshot was applied in this step.
Received == \E snap \in Snapshots : Receive(snap)

\* SPEC 29, Invariants 5 and 10: an active type becomes inactive exactly when it
\* has been missing from the number of consecutive snapshots now configured, no
\* earlier and no later, even if that number changed while they were counted.
EndsWhenConfirmed ==
  [][Received => \A t \in Types : Active(t) =>
       (types'[t].state = "Inactive" <=> absent'[t] >= cfg.end)]_confirmVars

\* Likewise a type becomes active in the very snapshot that confirms it.
StartsWhenConfirmed ==
  [][Received => \A t \in Types : ~Active(t) =>
       (types'[t].state = "Active" <=> present'[t] >= cfg.start)]_confirmVars

Agrees(ts, p, a) ==
  IF ts.state = "Active" THEN ts.endCount = a /\ ts.startCount = 0
                         ELSE ts.startCount = p /\ ts.endCount = 0

\* The counters say exactly what the history says, over every reset() and save,
\* and never more than the largest count: uint8_t cannot wrap.
CountersCount == \A t \in Types : Agrees(types[t], present[t], absent[t])

\* The inductive invariant: the counters, and the history they stand for, in range
\* and in agreement.
ConfirmInv == ConfirmTypeOK /\ CountersCount
=============================================================================
