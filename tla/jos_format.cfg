SPECIFICATION Spec
CONSTANTS
  NPDENTRIES = 4
  NPTENTRIES = 8
  PGSIZE = 2
  SECTSIZE = 2
  PROGRAM_SECTOR = 20
  ELFHDR = 4
  ELFHDR_SIZE = 4
  MAX_RW = 3
  binary_to_load = 26
  DISKFAULTS = 0
  KernelImages <- MCKernelImages
  Programs <- MCPrograms
  Contexts <- MCContexts
  Arguments <- MCArguments
  Addresses <- MCAddresses
  Exceptions = {6, 12}
INVARIANT PrintsOnlyUserMemory
