SPECIFICATION Spec
CONSTANTS
  NUM_PAGES = 4
  PAGE_SIZE = 2
  INT_MOD = 256
  Limits = {3, 4}
  Addresses = {0, 3, 5, 7, 8}
  Bytes = {1}
  Reach = 3
  STARTS = 2
  FAULTS = 7
INVARIANT OnlyTheRegion
