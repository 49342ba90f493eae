SPECIFICATION MCSpec
CONSTANTS
  numStoredCookies = 3
  CookieFieldLen = 128
  OtherFieldsLen = 124
  MaxPacketLen = 480
  ReadCounts = {0, 1, 3}
  NoKeys = NoKeys
  MaxExchanges = 3
  MaxMade = 11
  MaxEpoch = 2
INVARIANTS TypeOK NoCookieReuse OneAssociation
PROPERTIES RefilledAfterResponse
