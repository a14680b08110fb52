SPECIFICATION JournalSpec
CONSTANTS
  PressQueue = 3
  MaxDropped = 2
  MaxBytes = 3
  Lengths = {1, 2}
  MaxPresses = 4
  MaxRecords = 5
INVARIANTS LossIsTold
