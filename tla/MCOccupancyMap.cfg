SPECIFICATION Spec
CONSTANTS
  Missing = Missing
  NoMap = NoMap
  None = None
  Reading = Reading
  Strip <- MCStrip
  OdbStates <- MCOdbStates
  Tiles = {"occupancy", "noise"}
  MapRank = 1
  MaxHits = 4
  MaxEdits = 1
INVARIANTS
  EveryChannelHasOneCell
  OneGeometry
  SharedOnlyIfFewCounts
  EvenPairsUnlisted
