---------------------------- MODULE AlertEngine ----------------------------
(***************************************************************************)
(* AlertEngine.{h,cpp}: one state machine per threat type over validated   *)
(* snapshots.  A snapshot gives every type its aggregated coverage and the *)
(* number of matched locations; the engine confirms starts and ends over   *)
(* consecutive snapshots and returns the transitions as a batch of events, *)
(* in type order, cut at the length of the caller's array.                 *)
(*                                                                         *)
(* The configuration changes at run time: every save in the Web UI calls   *)
(* setConfig() between two snapshots, with confirmations half counted.     *)
(* startedAt is only displayed and is left out.                            *)
(***************************************************************************)
EXTENDS Naturals, Sequences, SequencesExt

CONSTANTS
  NTypes,     \* kAlertTypeCount
  Inputs,     \* what a snapshot can say of a type: [coverage, locs]
  Configs,    \* the values of AlertEngine::Config: [start, end, partialActive]
  MaxEvents,  \* length of the array applyAndNotify() passes
  MaxConf     \* largest confirmation count a configuration holds

ASSUME NTypesAssumption == NTypes \in Nat
ASSUME MaxEventsAssumption == MaxEvents \in Nat
ASSUME InputsAssumption ==
  Inputs \subseteq [coverage : {"None", "Partial", "Full"}, locs : Nat]
ASSUME ConfigsAssumption ==
  /\ MaxConf \in Nat
  /\ Configs \subseteq [start : 1..MaxConf, end : 1..MaxConf, partialActive : BOOLEAN]

Types == 1..NTypes
Coverages == {"None", "Partial", "Full"}
Snapshots == [Types -> Inputs]

VARIABLES
  types,    \* types_: per type [state, coverage, locs, startCount, endCount]
  synced,   \* synced_: a snapshot has been applied since boot or reset()
  cfg,      \* cfg_
  batch     \* the events applySnapshot() has just returned

engineVars == <<types, synced, cfg, batch>>

Fresh == [state |-> "Unknown", coverage |-> "None", locs |-> 0,
          startCount |-> 0, endCount |-> 0]

\* AlertEngine::TypeStatus
TypeStatus == [state : {"Unknown", "Inactive", "Active"}, coverage : Coverages,
               locs : Nat, startCount : 0..MaxConf, endCount : 0..MaxConf]

EngineTypeOK ==
  /\ types \in [Types -> TypeStatus]
  /\ synced \in BOOLEAN
  /\ cfg \in Configs

EngineInit ==
  /\ types = [t \in Types |-> Fresh]
  /\ synced = FALSE
  /\ cfg \in Configs
  /\ batch = <<>>

Active(t) == types[t].state = "Active"
ActiveTypes == {t \in Types : Active(t)}

-----------------------------------------------------------------------------
(* One type, one snapshot *)

\* SPEC 20: without partialActive a partial-only alert counts as none.
Effective(in) ==
  IF ~cfg.partialActive /\ in.coverage = "Partial" THEN "None" ELSE in.coverage

\* A type that is not active, with n starts confirmed.
Waiting(ts, n) ==
  [state |-> "Inactive", coverage |-> ts.coverage, locs |-> ts.locs,
   startCount |-> n, endCount |-> 0]

\* A type that is active as the input in says, with no end confirmed.
Raised(in, cov) ==
  [state |-> "Active", coverage |-> cov, locs |-> in.locs,
   startCount |-> 0, endCount |-> 0]

\* What the snapshot makes of a type: its new status, and the kinds of its push() calls.
Becomes(ts, kinds) == [status |-> ts, pushed |-> kinds]

\* Mutant: the comparison a lowered confirmation count would jump over.
StepIdle_Equal(ts, in, cov) ==
  IF cov = "None" THEN Becomes(Waiting(ts, 0), <<>>)
  ELSE IF ts.startCount + 1 = cfg.start THEN Becomes(Raised(in, cov), <<"Started">>)
  ELSE Becomes(Waiting(ts, ts.startCount + 1), <<>>)

\* Unknown or Inactive: count the snapshots that contain the type.
StepIdle(ts, in, cov) ==
  IF cov = "None" THEN Becomes(Waiting(ts, 0), <<>>)
  ELSE IF ts.startCount + 1 >= cfg.start THEN Becomes(Raised(in, cov), <<"Started">>)
  ELSE Becomes(Waiting(ts, ts.startCount + 1), <<>>)

CoveragePushes(old, new) ==
  CASE old = "Partial" /\ new = "Full" -> <<"Escalated">>
    [] old = "Full" /\ new = "Partial" -> <<"CoverageReduced">>
    [] OTHER -> <<>>

LocationPushes(old, new) == IF new > old THEN <<"LocationAdded">> ELSE <<>>

\* Mutant: a type that comes back keeps the end confirmations already counted.
StepActive_KeepsEndCount(ts, in, cov) ==
  IF cov # "None" THEN
    Becomes([Raised(in, cov) EXCEPT !.endCount = ts.endCount],
            CoveragePushes(ts.coverage, cov) \o LocationPushes(ts.locs, in.locs))
  ELSE IF ts.endCount + 1 >= cfg.end THEN Becomes([Fresh EXCEPT !.state = "Inactive"], <<"Ended">>)
  ELSE Becomes([ts EXCEPT !.endCount = @ + 1], <<>>)

\* Mutant: the end is pushed with the first snapshot that lacks the type.
StepActive_EndsEarly(ts, in, cov) ==
  IF cov # "None" THEN
    Becomes(Raised(in, cov),
            CoveragePushes(ts.coverage, cov) \o LocationPushes(ts.locs, in.locs))
  ELSE IF ts.endCount + 1 >= cfg.end THEN Becomes([Fresh EXCEPT !.state = "Inactive"], <<>>)
  ELSE Becomes([ts EXCEPT !.endCount = @ + 1], IF ts.endCount = 0 THEN <<"Ended">> ELSE <<>>)

\* Active: a missing type ends only after cfg.end snapshots in a row (SPEC 29);
\* startCount has been 0 since the start.
StepActive(ts, in, cov) ==
  IF cov # "None" THEN
    Becomes(Raised(in, cov),
            CoveragePushes(ts.coverage, cov) \o LocationPushes(ts.locs, in.locs))
  ELSE IF ts.endCount + 1 >= cfg.end THEN Becomes([Fresh EXCEPT !.state = "Inactive"], <<"Ended">>)
  ELSE Becomes([ts EXCEPT !.endCount = @ + 1], <<>>)

Step(ts, in) ==
  IF ts.state = "Active" THEN StepActive(ts, in, Effective(in))
                         ELSE StepIdle(ts, in, Effective(in))

EventsOf(t, in) ==
  LET kinds == Step(types[t], in).pushed
  IN  [i \in DOMAIN kinds |-> [kind |-> kinds[i], type |-> t]]

Events(snap) == FlattenSeq([t \in Types |-> EventsOf(t, snap[t])])

\* push() drops what does not fit the array.
Batch(snap) ==
  LET all == Events(snap)
  IN  IF Len(all) <= MaxEvents THEN all ELSE SubSeq(all, 1, MaxEvents)

-----------------------------------------------------------------------------
(* Operations *)

\* applySnapshot()
ApplySnapshot(snap) ==
  /\ types' = [t \in Types |-> Step(types[t], snap[t]).status]
  /\ batch' = Batch(snap)
  /\ synced' = TRUE
  /\ UNCHANGED cfg

\* reset(), on a change of the selected locations; cfg_ is the caller's business
Reset ==
  /\ types' = [t \in Types |-> Fresh]
  /\ synced' = FALSE
  /\ batch' = <<>>

\* setConfig()
SetConfig(c) ==
  /\ cfg' = c
  /\ batch' = <<>>
  /\ UNCHANGED <<types, synced>>
=============================================================================
