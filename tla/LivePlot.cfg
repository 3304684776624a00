CONSTANTS
  Elements = {trace}
  MaxSnaps = 2
  MaxToggles = 1
  Nothing = Nothing
SPECIFICATION PlotSpec
PROPERTIES LockIsForDraws ViewsAgree
CHECK_DEADLOCK FALSE
