SPECIFICATION Spec
CONSTANTS
  Messages = {m1}
  Admins = {a1}
  Scheduler = scheduler
  Syncer = syncer
  Reclassifier = reclassifier
  NoProc = none
  Verdicts <- MCVerdicts
  UserPlaces = {"elsewhere"}
  MaxAttempts = 2
INVARIANTS TypeOK HiddenAgrees RemoteAgrees CandidatesAreEligible
PROPERTIES OnlyHeldUnflaggedIsTrashed CorrectionSticks KeepsPromise
CONSTRAINT Bounds
CHECK_DEADLOCK FALSE
