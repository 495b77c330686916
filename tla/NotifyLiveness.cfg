\* No crashes; one channel, an alert raised by two callers and a test.
SPECIFICATION LiveSpec
CONSTANTS
  Mails = {}
  Alerts = {a1}
  Tests = {t1}
  Channels = {c1}
  Workers = {w1}
  Callers = {k1, k2}
  Nobody = Nobody
  MaxAttempts = 2
  MaxTries = 3
CHECK_DEADLOCK FALSE
PROPERTY QueuedIsSettled
