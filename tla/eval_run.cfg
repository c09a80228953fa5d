CONSTANTS
  s1 = s1
  s2 = s2
  Slot = {s1, s2}
  Parallel = 1
  MaxKills = 1
  MaxRepairs = 1
  Mishap = {}
  NoRepair = NoRepair
SPECIFICATION FairSpec
INVARIANTS
  TypeOK
  CountedOnce
  JudgedOnItsOwnWork
  DoneMeansRecorded
  SleepKillsAreFlagged
PROPERTIES
  NothingLost
  RunCompletes
