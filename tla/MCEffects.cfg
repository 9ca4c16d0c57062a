SPECIFICATION Spec
CONSTANTS
  n1 = n1
  n2 = n2
  p1 = p1
  p2 = p2
  dirSettings = dirSettings
  dirData = dirData
  Unknown = Unknown
  NoFile = NoFile
  Networks <- MCNetworks
  Preferences <- MCPreferences
  Defaults <- MCDefaults
  Initial <- MCInitial
  ResetPaths <- MCResetPaths
  SettingsPath <- dirSettings
  BootPreferences = FALSE
  WriteBeforeDecision = TRUE
  MaxProposals = 0
  MaxJobs = 0
  MaxFaults = 0
  MaxCrashes = 0
INVARIANTS
  DurableBeforeEffect
