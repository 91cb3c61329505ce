SPECIFICATION Spec
CONSTANTS
  Threads = {t1, t2, t3}
  PAPERNUM = 3
INVARIANTS TypeOK NoLostWakeup
PROPERTIES WaitersUnblock FirstUseIsBarrier
CHECK_DEADLOCK FALSE
