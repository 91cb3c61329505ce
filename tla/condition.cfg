SPECIFICATION Spec
CONSTANTS
  Threads = {t1, t2, t3}
  PAPERNUM = 3
INVARIANTS IInv ProofreadAfterWriting
PROPERTIES AllDone ImplementsBarrier
