SPECIFICATION Spec
CONSTANTS
  Missing = Missing
  NoMap = NoMap
  None = None
  nch = 5
  Events <- MCEvents
  Horizons = {0, 32}
  Second = 30
  AgeUnit = 3
  ValueUnit = 3
  Steps = {15, 17}
  Maps <- MCMaps
  LongSettings = {0, 45}
  ShortSettings = {0, 16}
  DefaultLong = 20
  DefaultShort = 10
  Bins = 3
  Unit = 6
  MaxTime = 32
  MaxEvents = 3
  MaxRebuilds = 1
INVARIANTS
  WindowsAreTrue
  HistoryIsThePage
  OneScaleServesAll
CHECK_DEADLOCK FALSE
