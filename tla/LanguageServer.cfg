SPECIFICATION LspSpec
CONSTANTS
  Nothing = Nothing
  f1 = f1
  f2 = f2
  File <- TwoFiles
  Openable <- OneOpen
  Inside <- TwoFiles
  Candidates <- ImportsOther
  Contents <- OnDisk
  Typed <- Ascii
  Broken <- Lines
  Clashing <- Clash
  MaxVersion = 3
  MaxText = 2
  MaxPipe = 2
INVARIANTS InSync
PROPERTIES AnswersUseBuffers
