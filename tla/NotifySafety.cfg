\* One message, two channels, two workers.
SPECIFICATION Spec
CONSTANTS
  Mails = {m1}
  Alerts = {}
  Tests = {}
  Channels = {c1, c2}
  Workers = {w1, w2}
  Callers = {k1}
  Nobody = Nobody
  MaxAttempts = 2
  MaxTries = 3
SYMMETRY NotifySymmetry
CHECK_DEADLOCK FALSE
INVARIANTS TypeOK ClaimIsExclusive SentWasAccepted NoDoubleSend NoLostWakeup
PROPERTY KeepsPromise
