SPECIFICATION Spec
CONSTANTS
  FirstExpiry <- First
  Interval <- Later
  MaxOwed = 4
INVARIANTS
  NeverReportedTwice
PROPERTIES
  ExpiryIsFollowedByReport
