SPECIFICATION Spec
CONSTANTS
  CRT_ROWS = 2
  CRT_COLS = 3
  CONSBUFSIZE = 3
  Chars <- MCChars
  Keys <- MCKeys
  SerialChars = {66}
  Cursors = {4}
  Budgets <- MCBudgets
INVARIANTS TypeOK DecodedAsTyped
PROPERTIES ImplementsTerminal ImplementsInputQueue CallsReturn
