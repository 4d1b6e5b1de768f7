SPECIFICATION FairProgram
CONSTANTS
  cam = cam
  other = backup
  None = None
  Source <- Both
  MediaSource <- NoFile
  Configs <- TheSpare
  OfflineTicks = 2
  RecoveryTicks = 1
  StartupUnits = 3
  GapLimit = 1
  SpliceTime = 1
  AgeCap = 4
  BufCap = 1
  MaxEvents = 4
  Prompt = TRUE
PROPERTY LiveReturns
