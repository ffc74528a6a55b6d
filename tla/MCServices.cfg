SPECIFICATION ServicesSpec
CONSTANTS
  LongBits = 16
  VarCap = 16
  VarSize = 12
  Explorers <- MCExplorers
  Lines <- MCLines
  MaxTokens = 24
  MaxObjs = 1
  MaxLost = 0
  Bus <- MCBus
  Drives <- MCDrives
  Tables <- MCTables
  Capacity = 3
  CountBits = 1
  CallBits = 2
  AddrBits = 2
  MaxSectors = 5
  Volumes <- MCVolumes
  Geo <- MCGeo
  Names <- MCNames
  Sizes = {0, 64}
  Delims <- MCDelims
  IntBits = 16
  NumArenas = 4
  Total = 6
  AllocSizes = {1, 2, 3}
  MaxAddr = 9
  MaxProcesses = 3
  Width = 3
  Height = 3
  BufferSize = 5
  Prompt <- MCPrompt
  Table <- MCKeys
  Scancodes <- MCScancodes
  Outputs <- MCOutputs
  NumFrames = 3
  Indices = {0, 1}
  FlagSets = {{}, {"rw"}}
  StackSize = 5
  SizeBits = 20
  MaxPath = 256
  MantissaBits = 26
  PageBytes = 4
  WordBits = 8
INVARIANTS RefsExact NothingDangling InsidePartitions NoneHidden HeldKept CurrentRuns LineShown
PROPERTIES LinksKept TranslationsKept
CHECK_DEADLOCK FALSE
