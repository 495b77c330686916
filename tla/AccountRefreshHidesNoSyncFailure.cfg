\* Two checks and one sync; a single authorisation is enough.
SPECIFICATION Spec
CONSTANTS
  Checkers = {c1, c2}
  Syncer = s
  Nobody = Nobody
  Threshold = 2
  MaxVersion = 1
SYMMETRY CheckerSymmetry
CHECK_DEADLOCK FALSE
PROPERTY RefreshHidesNoSyncFailure
