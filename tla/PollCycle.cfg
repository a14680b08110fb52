SPECIFICATION FairSpec
CONSTANTS
  Sources = {official, proxy}
  Selections = {here, there}
  MaxVersion = 2
  BadKey = 3
  StreakCap = 5
  Empty = Empty
  Half = Half
  NoStamp = NoStamp
INVARIANTS Inv AppliedIsOurs BadKeyNotedOnce
PROPERTIES PollsAreFresh CatchesUp
