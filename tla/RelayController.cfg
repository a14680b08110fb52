SPECIFICATION FairSpec
CONSTANTS
  Limits <- MCLimits
  PulseLen <- MCPulse
  Cap <- MCCap
INVARIANTS Inv OtaKeepsPatternOff
PROPERTIES SilencedAtOnce CutToldOnce NoRestartAfterTrip ImplementsDeadline SirenStops
