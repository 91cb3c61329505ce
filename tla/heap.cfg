SPECIFICATION Spec
CONSTANTS
  MAX_HEAP_SIZE = 250
  Requests = {5, 16, 40}
  SIZE_MOD = 512
INVARIANTS IInv AllFreedIsOneBlock
PROPERTIES CallReturns ImplementsAllocator
