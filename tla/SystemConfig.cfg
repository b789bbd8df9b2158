\* A process that starts again and again with changing environments, and an operator.
SPECIFICATION ConfigSpec
CONSTANTS
  Boots = {b1}
  People = {h1}
  Envs <- SmallEnvs
  Edits <- SmallEdits
INVARIANTS SettingsTypeOK StartingNeverArms
PROPERTIES RestartKeepsSettings
