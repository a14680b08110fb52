SPECIFICATION Spec
CONSTANTS
  Limits <- MCLimits
  PulseLen <- MCPulse
  Cap <- MCCap
PROPERTIES ReconfigureStops
