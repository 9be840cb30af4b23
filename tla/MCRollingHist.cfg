SPECIFICATION Spec
CONSTANTS
  Caps <- MCCaps
  MaxEvents = 9
INVARIANTS
  TypeOK
  WindowIsWhatIsShown
  CeilingUnlessCut
PROPERTIES
  ShowsASuffix
