SPECIFICATION FairSpec
CONSTANTS
  OtaDeadline = 2
  RebootDelay = 1
  Off = Off
INVARIANTS Inv StagedIsWhole
PROPERTIES OtaEnds
