SPECIFICATION LiveSpec
CONSTANTS
  Updaters = {i1, i2}
  NoUpdater = none
  Writes = {}
  MaxVersion = 2
  MaxJobs = 2
  Requests = {i1, i2}
  MaxDataKeys = 2
  MaxNodeKeys = 2
  MaxClock = 1
  MaxRestores = 1
  x = x
  y = y
  p = p
  q = q
  Accounts = {k1}
  Addresses = {x}
  People = {p}
  MailOf <- MCMailOf
  Imported <- MCImported
  Flows = {}
  Lines = {l1}
  Runs = {i1, i2}
  Overwrite = FALSE
  Nothing = none
  MaxStops = 2
  Synced = {k1}
  Workers = {i1}
  Callers = {c1, c2}
  Nobody = none
  HighCapacity = 1
  BackgroundCapacity = 1
  Connections = 1
PROPERTIES ImportCompletes NobodyWaitsForever
CHECK_DEADLOCK FALSE
