\* Two changes of the names, one connection lost and one process ended, at
\* any point of a pass, and a key that is of another type time and again.
SPECIFICATION Spec
CONSTANTS
  Arrays = {"Baseline", "Noise"}
  Scalars = {"Baseline median", "Events"}
  Shared = "DQM"
  Others <- MCOthers
  Payloads <- MCPayloads
  Refusable = {"Baseline"}
  MaxReshapes = 2
  MaxLosses = 1
  MaxRestarts = 1
INVARIANTS
  TypeOK
  LinksLeadToValues
  OthersKeepTheirLinks
  NoStaleEvents
PROPERTIES
  EverythingGetsLinked
