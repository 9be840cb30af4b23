SPECIFICATION Spec
CONSTANTS
  AD_HIT_BYTES = 344
  AT_RECORD_BYTES = 56
  AC_RECORD_BYTES = 32
  AD_MAX_SAMPLES = 3
  CHANNELS_PER_BOARD = 2
  Absent = Absent
  NotOurs = NotOurs
  Broken = Broken
  Missing = Missing
  NoMap = NoMap
  Tabs = {"proposed", "scope"}
  Scope = "scope"
  Elements = {"persistence", "calorimeter", "edep"}
  TabOf <- MCTabOf
  Defaults <- MCDefaults
  NoClient = NoClient
  Publishes = {{"hits"}}
  Unset = Unset
  Nothing = Nothing
  Fallback = Fallback
  None = None
  PICKER_NAMED = 1
  MaxChains = 2
  Worlds <- MCWorlds
INVARIANTS
  TypeOK
  NeverStalls
  OneFootnote
  EveryHitIsTold
  SectionsAgree
  StatusFits
  PlotsHaveASize
PROPERTIES
  NeverGoesBack
  FallsSilent
  SettlesOnTheNewest
