SPECIFICATION PageSpec
CONSTANTS
  Contexts = {c1, c2}
  Texts <- MCTexts
  NoText <- MCNoText
  Behind <- MCBehind
  Leases = {a1}
  NoAddress = NoAddress
  MaxPerCall = 1
  NULL = NULL
  Reader = c1
  Chars <- MCChars
  Pages <- MCPages
  TagStart <- MCTagStart
  TagEnd <- MCTagEnd
  DhcpTag <- MCDhcpTag
  TextTag <- MCTextTag
  CacheLen = 4
  Rooms = {4, 7}
  Margin = 1
INVARIANTS
  TypeOK
  StartsWithAddress
  PageTypeOK
  Rendered
  Terminated
PROPERTIES
  AppliedAsPosted
  ServiceReturns
  PageEnds
CHECK_DEADLOCK FALSE
