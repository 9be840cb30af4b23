\* The set of names changes once; no connection is lost and no process ends.
SPECIFICATION Spec
CONSTANTS
  Arrays = {"Baseline", "Noise"}
  Scalars = {"Baseline median", "Events"}
  Shared = "DQM"
  Others <- MCOthers
  Payloads <- MCPayloads
  Refusable = {}
  MaxReshapes = 1
  MaxLosses = 0
  MaxRestarts = 0
INVARIANT LinksMatch
