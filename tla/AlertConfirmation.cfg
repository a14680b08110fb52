SPECIFICATION ConfirmSpec
CONSTANTS
  NTypes = 2
  Inputs <- MCInputs
  Configs <- MCConfigs
  MaxEvents = 8
  MaxConf = 3
INVARIANTS ConfirmInv
PROPERTIES EndsWhenConfirmed StartsWhenConfirmed
