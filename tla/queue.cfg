SPECIFICATION Spec
CONSTANTS
  Threads = {t1, t2}
  Cells = {c1, c2, c3}
  Values = {v1, v2}
  NULL = NULL
  GARBAGE = GARBAGE
  OPS <- MCOps
  KeepsBytes = TRUE
  Fair = {t1}
INVARIANTS ListLinked NodesAccountedFor LinksBehindLast DestroyFreesAll
PROPERTIES ImplementsFifoQueue CallsReturn
