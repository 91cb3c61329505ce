SPECIFICATION Spec
CONSTANTS
  MAX_HEAP_SIZE = 100
  Requests = {8}
  SIZE_MOD = 512
INVARIANT NoCrash
