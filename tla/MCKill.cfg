SPECIFICATION FairSpec
CONSTANTS
  COLS = 3
  ROWS = 2
  MenuCol = 1
  MenuWidth = 2
  MenuRows = 1
  NItems = 2
  BoundEven = 1
  BoundOdd = 2
  ItemWidth = 1
  Reader = {}
  Key = {"NUL", "^P", "^U", "A-c", "A-o", "A-l", "d", "e", "r"}
  Out = {"NL", "lo"}
  INPUT_BUF = 2
  UINT = 4
  MaxRead = 1
  None = None
PROPERTY MenuSwallowsAllKeys
