SPECIFICATION KSpec
CONSTANTS
  COLS = 1
  ROWS = 2
  MenuCol = 0
  MenuWidth = 1
  MenuRows = 1
  NItems = 2
  BoundEven = 0
  BoundOdd = 0
  ItemWidth = 1
  Reader = {p1, p2}
  Key = {"NUL", "^P", "^U", "^H", "^D", "CR", "NL", "x"}
  Out = {"lo"}
  INPUT_BUF = 2
  UINT = 4
  MaxRead = 2
  None = None
  Keys = {22, 157}
  Serial = {"^P", "^H", "^D", "CR"}
INVARIANTS NoStuckModifier RingOrder SleeperHasNoInput
PROPERTIES InputIsLineQueue InputConsumed
