SPECIFICATION Spec
CONSTANTS
  Messages = {m1}
  Admins = {a1}
  Scheduler = scheduler
  Syncer = syncer
  Reclassifier = reclassifier
  NoProc = none
  Verdicts <- MCVerdicts
  UserPlaces <- MCUserPlaces
  MaxAttempts = 2
PROPERTY GraceIsRespected
CHECK_DEADLOCK FALSE
