CONSTANTS
  house = house
  annex = annex
  speaker = speaker
  mic = mic
  None = None
  Boards <- MCBoards
  Names = {house, annex}
  Long = {annex}
  Values <- MCValues
  Crystals <- MCCrystals
  Limit = 5
  SaveStep = 2
  DmaSpans = {0, 50000}
  Aps = {a1, a2}
  Fallback = 2
  NoAp = NoAp
  radio = radio
  process = process
  Streams = {radio, process}
  Silent = {process}
  Titles = {t1, t2}
  Lines = 2
  Unknown = Unknown
  MaxDen = 7
  Field = 8
  Quantum = 8
  Grid = 30
  Targets <- MCTargets
  Settles = {1, 2}
  Depths = {0, 2, 5}
  Margin = 1
  Corrections = 3
  Window = 2
  Confirm = 2
  StormCount = 2
  StormSpan = 0
  AnchorWait = 2
  StaleFor = 1
  Unset = Unset
SPECIFICATION Spec
  
PROPERTIES   CorrectionsAreSettled  
