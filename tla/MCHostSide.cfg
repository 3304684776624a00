CONSTANTS
  GapFactor = 10
  GapFloor = 1
  PairWindow = 1
  ShortfallPct = 15
  ShortfallFloor = 0
  MinFitRows = 2
  Day = 12
  MinRecovery = 5
  StepWindow = 4
  MinSide = 3
  StepFloor = 5
  InjectWindow = 9
  MinBurst = 3
  MinPre = 2
  ChunkUs = 10
  FramePeriod = 100
  MaxJump = 5
  None = None
  Bits = 3
  Coef = 2
  MinFrames = 2
  MinAudio = 4
  SlotBits = 2
  Delay = 1
  WinFrames = 6
  PdMaxLag = 3
  Peak = 2
  Margin = 4
  LagSlack = 1
  MaxLag = 2
  MaxSamples = 88
  MaxNow = 3
  MaxRuns = 4
  MaxRows = 2
  Keep = 2
  Absent = Absent
  Offsets <- MCOffsets
  LiveOffsets <- MCOffsets
  Contents <- MCContents
  Losses <- MCLosses
  Slopes <- MCSlopes
  Jumps <- MCJumps
  Lines <- MCLines
  MaxLines = 3
  MaxKinds = 2
  MaxFiles = 2
  TailLines = 1
  TrimPpm = 2
  PipeMs = 2
  SyncUs = 2
  TagUs = 2
  PhaseUs = 2
  DlEvent = 2
  Nil = Nil
  PairReach = 1
  DepthTail = 2
  DepthOutlier = 5
  RingLow = 4
  IncidentGap = 3
  Simultaneous = 2
  ClusterGap = 6
  OtaShadow = 13
  FreezeMs = 10
  MaxWritten = 3
  ReadSize = 3
  Unopened = Unopened
  PanelColours = 5
  OverlayColours = 4
  MadReach = 9
  FrameUs = 1
  TrustSw = 2
  SigmaSq = 2
  Passes = 5
  MinFit = 5
  MinUsable = 4
  GapLimit = 1
  PhaseTol = 1
  Elements <- MCElements
  MaxInput <- MCMaxInput
SPECIFICATION Spec
INVARIANTS LookupsAreTrue PlotIsTrue ReportsAreTrue SkewsAreTrue 
 
CHECK_DEADLOCK FALSE
