SPECIFICATION MCSpec
CONSTANTS
  numStoredCookies = 8
  CookieFieldLen = 128
  OtherFieldsLen = 124
  MaxPacketLen = 1024
  ReadCounts = {0, 1, 8}
  NoKeys = NoKeys
  MaxExchanges = 2
  MaxMade = 16
  MaxEpoch = 2
INVARIANT FetchedDataUsable
