SPECIFICATION Spec
CONSTANTS
  Patterns <- MCPatterns
  TestPattern <- MCTest
  Debounce = 1
  LongPress = 2
  Steady = FALSE
  NoTest = NoTest
  Gaps = {1, 3}
INVARIANTS Inv
PROPERTIES PlaysAsWritten HoldAnsweredOnce
