SPECIFICATION BoundedSpec
CONSTANTS
  Updaters = {i1, i2}
  NoUpdater = none
  Writes = {w1}
  MaxVersion = 2
  MaxJobs = 2
  Requests = {i1, i2}
  MaxDataKeys = 2
  MaxNodeKeys = 2
  MaxClock = 1
  MaxRestores = 1
  x = x
  y = y
  p = p
  q = q
  Accounts = {k1, k2}
  Addresses = {x, y}
  People = {p, q}
  MailOf <- MCMailOf
  Imported <- MCImported
  Flows = {i1, i2}
  Lines = {l1}
  Runs = {i1, i2}
  Overwrite = TRUE
  Nothing = none
  MaxStops = 1
  Synced = {k1, k2}
  Workers = {i1, i2}
  Callers = {c1}
  Nobody = none
  HighCapacity = 1
  BackgroundCapacity = 1
  Connections = 1
INVARIANTS TypeOK OldImageKeepsOff NothingIsLost OutcomeIsFinal
  OneSessionPerCode KeyringFitsRow RestartUnlocks
  OneAccountPerPerson CancelledFlowStoresNothing CompletedImportIsSettled
  JobsAreExact
PROPERTIES OutcomeIsTrue AliasIsConfirmed
SYMMETRY MCSymmetry
CHECK_DEADLOCK FALSE
