SPECIFICATION Spec
CONSTANTS
  Threads = {t1, t2}
  PAPERNUM = 2
INVARIANT ProofreadAfterWriting
CHECK_DEADLOCK FALSE
