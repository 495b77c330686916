SPECIFICATION LiveSpec
CONSTANTS
  Messages = {m1}
  Admins = {a1}
  Scheduler = scheduler
  Syncer = syncer
  Reclassifier = reclassifier
  NoProc = none
  Verdicts <- MCMarketing
  UserPlaces = {}
  MaxAttempts = 2

PROPERTY DueMailIsSettled
CHECK_DEADLOCK FALSE
