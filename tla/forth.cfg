SPECIFICATION Spec
CONSTANTS
  CommandLines <- MCCommandLines
  Starters <- MCStarters
  SIZE = 3
  EMITS = 5
  PAUSES = 2
INVARIANT InsideBuffer
PROPERTIES ImplementsSession EndsOrAsks
