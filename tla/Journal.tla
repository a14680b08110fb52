------------------------------ MODULE Journal ------------------------------
(***************************************************************************)
(* The event journal: RelayController's ring of presses, logRelayPresses() *)
(* which empties it in every pass of loop(), and EventLogStore's two files *)
(* that take turns.                                                        *)
(*                                                                         *)
(* Presses are queued by loop(), by handlers and by the Ticker of the      *)
(* deadline, the last of them between any two steps of logRelayPresses().  *)
(* A record is its number and the press it tells of (0 for any other       *)
(* event); a record cut short by a failing write is Torn, and has no       *)
(* newline.  A file is its records, one after the other, and its size.     *)
(* The names are Journal's own where both it and RelayController, whose    *)
(* ring this is, need one.                                                 *)
(***************************************************************************)
EXTENDS Naturals, Sequences, SequencesExt

CONSTANTS
  PressQueue,   \* kPressQueue: the ring holds one less
  MaxDropped,   \* 255, the most dropped_ can count
  MaxBytes,     \* kMaxFileBytes
  Lengths,      \* the lengths of records
  MaxPresses,   \* bound: presses in a behaviour
  MaxRecords    \* bound: records in a behaviour

ASSUME JournalAssumption ==
  /\ PressQueue \in Nat \ {0, 1} /\ MaxDropped \in Nat \ {0}
  /\ MaxBytes \in Nat /\ Lengths \subseteq 1..MaxBytes
  /\ MaxPresses \in Nat /\ MaxRecords \in Nat

VARIABLES
  ring,       \* presses_, from the tail on, each press by its number
  dropped,    \* dropped_
  logging,    \* loop() is in logRelayPresses()
  files,      \* ev.0 and ev.1
  active,     \* active_
  healthy,    \* healthy_
  presses,    \* history: presses so far
  records,    \* history: records so far
  written,    \* history: the numbers of those that were written
  lastPress,  \* history: the last press that was logged
  lost,       \* history: presses lost to overflow since the last boot
  told,       \* history: ... and those the journal tells of
  misled      \* history: active_ has been turned away from the newest records

queue == <<ring, dropped, logging>>
store == <<files, active, healthy, records, written, misled>>
history == <<presses, lastPress, lost, told>>
journal == <<queue, store, history>>

Records == [no : 1..MaxRecords, press : 0..MaxPresses, whole : BOOLEAN]
Files == [list : Seq(Records), size : 0..MaxBytes]

NoFile == [list |-> <<>>, size |-> 0]
Torn(n) == [no |-> n, press |-> 0, whole |-> FALSE]
Longer(f, r, bytes) == [list |-> Append(f.list, r), size |-> f.size + bytes]

JournalInit ==
  /\ ring = <<>> /\ dropped = 0 /\ logging = FALSE
  /\ files = [i \in 0..1 |-> NoFile] /\ active = 0 /\ healthy = TRUE
  /\ presses = 0 /\ records = 0 /\ written = {} /\ lastPress = 0 /\ lost = 0 /\ told = 0
  /\ misled = FALSE

-----------------------------------------------------------------------------
(* EventLogStore *)

\* Mutant: the other file is continued, not begun afresh.
Rotated_NoRemove(fs) == fs

\* The other file is removed before it is written to.
Rotated(fs) == [fs EXCEPT ![1 - active] = NoFile]

\* log().  Removing, opening and writing may each fail; a write that fails may leave
\* a part of the record, and what is written next goes on in its line.  A record may
\* be written and still be reported as failed.
Log(press, length) ==
  LET r    == [no |-> records + 1, press |-> press, whole |-> TRUE]
      full == files[active].size + length > MaxBytes
      to   == IF full THEN 1 - active ELSE active
      fs   == IF full THEN Rotated(files) ELSE files
  IN  /\ records < MaxRecords
      /\ active' = to
      /\ records' = records + 1
      /\ \/ /\ files' = [fs EXCEPT ![to] = Longer(fs[to], r, length)]
            /\ written' = written \cup {records + 1}
            /\ healthy' \in BOOLEAN /\ UNCHANGED misled
         \/ /\ full /\ files[to] # NoFile            \* not removed
            /\ healthy' = FALSE /\ misled' = TRUE /\ UNCHANGED <<files, written>>
         \/ /\ healthy' = FALSE /\ UNCHANGED <<written, misled>>  \* not opened, or not written
            /\ \/ files' = fs
               \/ files' = [fs EXCEPT ![to] = Longer(fs[to], Torn(records + 1), 1)]

\* begin(): the smaller file is taken for the one being written.
Chosen(fs) ==
  IF (fs[1].size > 0 /\ fs[1].size < fs[0].size) \/ fs[0].size >= MaxBytes THEN 1 ELSE 0

-----------------------------------------------------------------------------
(* The ring *)

\* queuePress().  The Press struct itself is RelayController's.
QueuePress ==
  /\ presses < MaxPresses
  /\ presses' = presses + 1
  /\ IF Len(ring) = PressQueue - 1
     THEN /\ dropped' = (IF dropped < MaxDropped THEN dropped + 1 ELSE dropped)
          /\ lost' = lost + 1
          /\ UNCHANGED ring
     ELSE ring' = Append(ring, presses + 1) /\ UNCHANGED <<dropped, lost>>
  /\ UNCHANGED <<logging, store, lastPress, told>>

\* Mutant: the newest first.
Oldest_Newest(q) == [press |-> Last(q), rest |-> Front(q)]

Oldest(q) == [press |-> Head(q), rest |-> Tail(q)]

\* popPress() and the record of what it gave.  The count it gives as well is
\* overwritten by the next call of the loop.
PopPress(length) ==
  /\ logging /\ ring # <<>>
  /\ dropped' = 0
  /\ lastPress' = Oldest(ring).press
  /\ ring' = Oldest(ring).rest
  /\ Log(Oldest(ring).press, length)
  /\ UNCHANGED <<logging, presses, lost, told>>

\* popPress() finds the ring empty: what this last call counts is told.
TellLoss(length) ==
  /\ logging /\ ring = <<>>
  /\ logging' = FALSE /\ dropped' = 0
  /\ IF dropped = 0 THEN UNCHANGED <<store, told>>
     ELSE Log(0, length) /\ told' = told + dropped
  /\ UNCHANGED <<ring, presses, lastPress, lost>>

-----------------------------------------------------------------------------
(* The rest *)

\* loop() reaches logRelayPresses().
LogRelayPresses ==
  /\ ~logging /\ logging' = TRUE
  /\ UNCHANGED <<ring, dropped, store, history>>

\* Any other event
LogEvent(length) ==
  /\ ~logging
  /\ Log(0, length)
  /\ UNCHANGED <<queue, history>>

\* setup() chooses the file again; the first record of the boot comes later.  It can
\* be misled when the active file has become as long as the other.
Reboot ==
  /\ ring' = <<>> /\ dropped' = 0 /\ logging' = FALSE
  /\ active' = Chosen(files)
  /\ healthy' \in BOOLEAN
  /\ misled' = (misled \/ /\ active' # active /\ files[active] # NoFile
                          /\ files[active].size >= files[1 - active].size)
  /\ lost' = 0 /\ told' = 0
  /\ UNCHANGED <<files, records, written, presses, lastPress>>

JournalNext ==
  \/ QueuePress
  \/ LogRelayPresses
  \/ \E length \in Lengths :
       \/ PopPress(length)
       \/ TellLoss(length)
       \/ LogEvent(length)
  \/ Reboot

JournalSpec == JournalInit /\ [][JournalNext]_journal

-----------------------------------------------------------------------------
(* Properties *)

JournalTypeOK ==
  /\ ring \in Seq(1..MaxPresses) /\ Len(ring) < PressQueue
  /\ dropped \in 0..MaxDropped /\ logging \in BOOLEAN
  /\ files \in [0..1 -> Files] /\ active \in 0..1 /\ healthy \in BOOLEAN
  /\ presses \in 0..MaxPresses /\ lastPress \in 0..MaxPresses
  /\ records \in 0..MaxRecords /\ written \in SUBSET (1..records)
  /\ lost \in Nat /\ told \in Nat /\ misled \in BOOLEAN

\* The presses are journalled in the order they happened, each at most once, with
\* the deadline's among them, however the ring fills while it is being emptied.
PressesInOrder ==
  /\ \A i \in DOMAIN ring : ring[i] > lastPress
  /\ \A i, j \in DOMAIN ring : i < j => ring[i] < ring[j]

JournalInv == JournalTypeOK /\ PressesInOrder

\* What handleEvents() streams: the older file, then the active one
Streamed == files[1 - active].list \o files[active].list

\* Is this record in the line of a torn one?  The page cannot parse such a line, and
\* shows it as it is.
Glued(i) == i > 1 /\ ~Streamed[i - 1].whole

\* As long as no removal fails and no boot finds the active file as long as the other,
\* the page shows the records oldest first, leaves out none after the
\* first it shows (a rotation forgets the oldest), and has the one just written; and
\* only one that comes after a failed write is not in a line of its own.
NewestInOrder ==
  LET whole == {i \in DOMAIN Streamed : Streamed[i].whole}
      shown == {Streamed[i].no : i \in whole}
  IN  ~misled =>
        /\ \A i, j \in whole : i < j => Streamed[i].no < Streamed[j].no
        /\ \E first \in 1..records + 1 : shown = {n \in written : n >= first}
        /\ records \in written => records \in shown
        /\ \A i \in whole : Glued(i) => Streamed[i].no - 1 \notin written

-----------------------------------------------------------------------------
(* What the source says of itself, and does not do *)

\* RelayController.h: "dropped counts presses lost to overflow", and
\* logRelayPresses() writes it.  Each popPress() of the loop overwrites the count of
\* the one before, and the ring that overflowed is not empty at the first.
LossIsTold == ~logging /\ ring = <<>> /\ lost < MaxDropped => told + dropped = lost
=============================================================================
