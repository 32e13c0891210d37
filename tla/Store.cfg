CONSTANTS
  NDomains = 2
  StoreSize = 2
  Texts <- McTexts
  Author <- McAuthor
  Asks <- McAsks
  Messages <- McMessages
  MaxMessages = 5
SPECIFICATION McSpec
INVARIANTS
  CacheInv
PROPERTIES
  TextsStayHome
  MemorySpec
CHECK_DEADLOCK FALSE
