SPECIFICATION FairSpec
CONSTANTS
  cam = cam
  backup = backup
  None = None
  Source <- MCSource
  Routings <- MCRoutings
  Gop = 2
  RelayCap = 2
  KeepsUp = TRUE
  MaxEvents = 3
INVARIANT TypeOK
PROPERTY Decodable SplicedBehindItsHeader OneAudio CutCompletes
CHECK_DEADLOCK FALSE
