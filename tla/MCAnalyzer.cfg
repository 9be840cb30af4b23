\* Safety: two binnings that can be built and one that cannot, two rates, a
\* MIDAS restart, a new run, a dropped packet and an edit, in every order.
SPECIFICATION Spec
CONSTANTS
  default = default
  wide = wide
  broken = broken
  code = code
  chans = chans
  fewer = fewer
  None = None
  Binnings = {default, wide, broken}
  Built <- MCBuilt
  Mixed <- MCMixed
  Channels = {chans, fewer}
  DefaultChannels = chans
  Configs <- MCConfigs
  Selectors = {"amplitude"}
  CodeBinning = code
  DefaultBinning = default
  Kinds = {"empty", "hits"}
  Rates = {2, 4}
  DefaultRate = 4
  YieldEvery = 1
  MaxRuns = 2
  MaxBuffer = 1
  MaxDrops = 1
  MaxEdits = 1
  MaxBounces = 1
INVARIANTS
  TypeOK
  AxesAreTheReportedBinning
  PlotsAreOfTheReportedRun
PROPERTIES
  ThrottleHolds
  CountsLostOnlyByRebuilding
\* The process stops on a signal.
CHECK_DEADLOCK FALSE
