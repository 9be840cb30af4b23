\* Liveness: a binning that cannot be built may stand in the ODB between two
\* that can; a MIDAS restart and a dropped packet at any point.
SPECIFICATION Spec
CONSTANTS
  default = default
  wide = wide
  broken = broken
  code = code
  chans = chans
  fewer = fewer
  None = None
  Binnings = {default, broken}
  Built <- MCBuilt
  Mixed <- MCMixed
  Channels = {chans}
  DefaultChannels = chans
  Configs <- LiveConfigs
  Selectors = {"amplitude"}
  CodeBinning = code
  DefaultBinning = default
  Kinds = {"hits"}
  Rates = {4}
  DefaultRate = 4
  YieldEvery = 2
  MaxRuns = 1
  MaxBuffer = 1
  MaxDrops = 1
  MaxEdits = 2
  MaxBounces = 1
PROPERTIES
  EditsTakeEffect
  DropsAreNoticed
  RequestsAreAnswered
  SignalStops
\* The process stops on a signal.
CHECK_DEADLOCK FALSE
