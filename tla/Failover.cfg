SPECIFICATION FairProgram
CONSTANTS
  cam = cam
  other = card
  None = None
  Source <- Both
  MediaSource <- TheFile
  Configs <- TheThree
  OfflineTicks = 2
  RecoveryTicks = 2
  StartupUnits = 3
  GapLimit = 1
  SpliceTime = 1
  AgeCap = 4
  BufCap = 2
  MaxEvents = 4
  Prompt = TRUE
INVARIANT TypeOK UpToDate OnAirIsChosen FlagTellsTheTruth
PROPERTY KeepsPromise NoSpuriousFailover NoEarlyRestore DarkIsReplaced LiveIsRestored
