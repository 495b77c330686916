SPECIFICATION BatchSpec
CONSTANTS
  Messages = {m1, m2}
  Admins = {a1}
  Scheduler = scheduler
  Syncer = syncer
  Reclassifier = reclassifier
  NoProc = none
  Verdicts <- MCMarketing
  UserPlaces = {}
  MaxAttempts = 2
SYMMETRY MessageSymmetry
PROPERTY HiddenOnlyAfterMove
CHECK_DEADLOCK FALSE
