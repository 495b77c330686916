\* One health check and one sync, failures and authorisations in any order.
SPECIFICATION Spec
CONSTANTS
  Checkers = {c1}
  Syncer = s
  Nobody = Nobody
  Threshold = 2
  MaxVersion = 2
CHECK_DEADLOCK FALSE
INVARIANTS TypeOK NewestGrantWins VerdictsAreCurrent LeaseNamesItsToken
  RefreshHasReason RedeemedOnce DegradedHasCause StatusMatchesToken
PROPERTY DisabledStays
