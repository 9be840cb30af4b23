SPECIFICATION Spec
CONSTANTS
  Sizes = {1, 2, 3}
  FirstMax = 1
  None = None
  MaxChains = 2
  MaxChanges = 1
  MaxOutages = 1
INVARIANTS
  TypeOK
  OneAtATime
  NoteFitsPlot
PROPERTIES
  NeverGoesBack
  SettlesOnTheTruth
