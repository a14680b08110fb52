SPECIFICATION StoreSpec
CONSTANTS
  Docs <- Documents
  Absent = Absent
  Torn = Torn
  Wrong = Wrong
  MaxFaults = 1
  Bodies <- MCBodies
  LocationLists <- MCLists
  OldFiles <- MCOldFiles
INVARIANTS AnswerHolds BootFindsRam
PROPERTIES CrashIsAtomic PutIsExact
