CONSTANTS
  Frame = 10
  Sub = 2
  TrueLags = {0, 6}
  Picked = {0, 1, 6}
  Window = 3
  ReseedAfter = 3
  MaxResidue = 3
  RebuildMax = 4
  MaxJump = 5
  None = None
SPECIFICATION GateSpec
PROPERTIES  RecoversFromStep
