SPECIFICATION Spec
CONSTANTS
  COLS = 2
  ROWS = 2
  MenuCol = 1
  MenuWidth = 1
  MenuRows = 1
  NItems = 2
  BoundEven = 1
  BoundOdd = 1
  ItemWidth = 1
  Reader = {}
  Key = {"NUL", "^P", "^H", "^U", "A-c", "A-o", "A-l", "d", "r"}
  Out = {"NL", "hi"}
  INPUT_BUF = 2
  UINT = 4
  MaxRead = 1
  None = None
INVARIANTS TextSurvives ColorUniform
  
