\* Only the thread that has to return runs on; the others may stop anywhere.
SPECIFICATION Spec
CONSTANTS
  Threads = {t1, t2}
  Values = {v1}
  None = None
  MaxSize = 2
  SpuriousCAS = FALSE
  MaxPos = 4
PROPERTY LockFree
