SPECIFICATION MCSpec
CONSTANTS
  keyValidity = 6
  keyRenewalInterval = 2
  Delays = {0, 1, 3, 7}
  MaxTime = 24
  MaxIssued = 4
INVARIANTS TypeOK CookieUsable CookieExpires KeysBounded
