-------------------------- MODULE AtomicJsonFile --------------------------
(***************************************************************************)
(* config/AtomicJsonFile.h: the write that ConfigStore and SecretsStore    *)
(* use, one LittleFS call per step, and the read at boot.  Power may go    *)
(* between any two steps and a call may fail; a rename is atomic, as       *)
(* LittleFS promises.  The temporary file is never read at boot, so its    *)
(* removal and its creation are one step.                                  *)
(*                                                                         *)
(* Faults are counted from the last write that began with a document at    *)
(* path (or with none at all): MaxFaults bounds how many of them pile up.  *)
(***************************************************************************)
EXTENDS Naturals

CONSTANTS
  Docs,       \* the documents callers write
  Absent,     \* no such file
  Torn,       \* a file that does not parse
  MaxFaults

ASSUME ContentsAssumption == Absent \notin Docs /\ Torn \notin Docs /\ Absent # Torn
ASSUME MaxFaultsAssumption == MaxFaults \in Nat

VARIABLES
  path, tmp, bak,  \* the contents of path, temporaryPath and backupPath
  pc,              \* the next call of write(), or Idle
  doc,             \* document
  had,             \* hadCurrent
  stored,          \* history: the last document saved, or read at boot
  faults

files == <<path, tmp, bak>>
vars == <<files, pc, doc, had, stored, faults>>

Labels == {"Idle", "Open", "Serialize", "Check", "DropBackup", "KeepCurrent",
           "Rename", "Restore", "Cleanup"}

TypeOK ==
  /\ path \in Docs \cup {Absent}
  /\ bak \in Docs \cup {Absent}
  /\ tmp \in Docs \cup {Absent, Torn}
  /\ pc \in Labels
  /\ doc \in Docs
  /\ had \in BOOLEAN
  /\ stored \in Docs \cup {Absent}
  /\ faults \in 0..MaxFaults

Init ==
  /\ path \in Docs \cup {Absent}
  /\ tmp = Absent
  /\ bak = Absent
  /\ pc = "Idle"
  /\ doc \in Docs
  /\ had = FALSE
  /\ stored = path
  /\ faults = 0

\* readWithBackup(); Absent stands for the defaults.
Recovered == IF path # Absent THEN path ELSE bak

Fault == faults < MaxFaults /\ faults' = faults + 1

\* write() returns
Succeed == pc' = "Idle" /\ stored' = doc
Fail == pc' = "Idle" /\ UNCHANGED stored

Goto(label) == pc' = label /\ UNCHANGED stored

-----------------------------------------------------------------------------
(* write() *)

Save(d) ==
  /\ pc = "Idle"
  /\ doc' = d
  /\ faults' = IF path = Absent /\ bak # Absent THEN faults ELSE 0
  /\ Goto("Open")
  /\ UNCHANGED <<files, had>>

\* remove(temporaryPath); open(temporaryPath, "w")
Open ==
  /\ pc = "Open"
  /\ \/ tmp' = Torn /\ Goto("Serialize") /\ UNCHANGED faults
     \/ tmp' = Absent /\ Fail /\ Fault
  /\ UNCHANGED <<path, bak, doc, had>>

\* serializeJson(), flush(), close(): after a fault the file is torn, whether or
\* not getWriteError() tells
Serialize ==
  /\ pc = "Serialize"
  /\ \/ tmp' = doc /\ UNCHANGED faults
     \/ tmp' = Torn /\ Fault
  /\ Goto("Check")
  /\ UNCHANGED <<path, bak, doc, had>>

\* writeOk and readOne(temporaryPath), which can also run out of heap
Check ==
  /\ pc = "Check"
  /\ \/ tmp # Torn /\ Goto("DropBackup") /\ UNCHANGED <<tmp, faults>>
     \/ tmp = Torn /\ tmp' = Absent /\ Fail /\ UNCHANGED faults
     \/ tmp # Torn /\ tmp' = Absent /\ Fail /\ Fault
  /\ UNCHANGED <<path, bak, doc, had>>

\* Mutant: a stale backup is enough.
DropBackup_NoKeep ==
  /\ pc = "DropBackup"
  /\ path' = Absent
  /\ had' = (path # Absent)
  /\ Goto("Rename")
  /\ UNCHANGED <<tmp, bak, doc, faults>>

\* remove(backupPath), whose result is ignored; exists(path)
DropBackup ==
  /\ pc = "DropBackup"
  /\ \/ bak' = Absent /\ UNCHANGED faults
     \/ UNCHANGED bak /\ Fault
  /\ had' = (path # Absent)
  /\ Goto(IF path # Absent THEN "KeepCurrent" ELSE "Rename")
  /\ UNCHANGED <<path, tmp, doc>>

\* rename(path, backupPath)
KeepCurrent ==
  /\ pc = "KeepCurrent"
  /\ \/ /\ bak' = path
        /\ path' = Absent
        /\ Goto("Rename")
        /\ UNCHANGED <<tmp, faults>>
     \/ tmp' = Absent /\ Fail /\ Fault /\ UNCHANGED <<path, bak>>
  /\ UNCHANGED <<doc, had>>

\* rename(temporaryPath, path)
Rename ==
  /\ pc = "Rename"
  /\ \/ path' = tmp /\ tmp' = Absent /\ Goto("Cleanup") /\ UNCHANGED faults
     \/ had /\ Goto("Restore") /\ Fault /\ UNCHANGED <<path, tmp>>
     \/ ~had /\ Fail /\ Fault /\ UNCHANGED <<path, tmp>>
  /\ UNCHANGED <<bak, doc, had>>

\* Mutant: the temporary file, not the backup, is put back.
Restore_FromTmp ==
  /\ pc = "Restore"
  /\ path' = tmp /\ tmp' = Absent
  /\ Fail
  /\ UNCHANGED <<bak, doc, had, faults>>

\* rename(backupPath, path), whose result is ignored
Restore ==
  /\ pc = "Restore"
  /\ \/ path' = bak /\ bak' = Absent /\ UNCHANGED faults
     \/ Fault /\ UNCHANGED <<path, bak>>
  /\ Fail
  /\ UNCHANGED <<tmp, doc, had>>

\* remove(backupPath), whose result is ignored
Cleanup ==
  /\ pc = "Cleanup"
  /\ \/ bak' = Absent /\ UNCHANGED faults
     \/ UNCHANGED bak /\ Fault
  /\ Succeed
  /\ UNCHANGED <<path, tmp, doc, had>>

\* Power goes during write(); the next boot reads what is there.
Crash ==
  /\ pc # "Idle"
  /\ Fault
  /\ pc' = "Idle"
  /\ stored' = Recovered
  /\ UNCHANGED <<files, doc, had>>

Next ==
  \/ \E d \in Docs : Save(d)
  \/ Open
  \/ Serialize
  \/ Check
  \/ DropBackup
  \/ KeepCurrent
  \/ Rename
  \/ Restore
  \/ Cleanup
  \/ Crash

Spec == Init /\ [][Next]_vars

-----------------------------------------------------------------------------
(* Properties *)

\* Between two writes the next boot reads what the last one answered: the new
\* document if write() returned true, the old one if it returned false.
AnswerHolds == pc = "Idle" => Recovered = stored

\* SPEC 89: a boot in the middle of a write finds the old document or the new
\* one, and never neither.
CrashIsAtomic == [][Crash => stored' \in {stored, doc}]_vars
=============================================================================
