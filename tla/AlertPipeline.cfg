SPECIFICATION FairSpec
CONSTANTS
  NTypes = 2
  Inputs <- MCInputs
  Configs <- MCConfigs
  Saves <- MCSaves
  MaxEvents = 2
  MaxConf = 2
  Air <- Types
  Depth = 2
INVARIANTS Inv QuietAtBoot NoReminderOverStart
PROPERTIES BatchAnnounces MutedTypesSilent StartsGetTheirTurn
