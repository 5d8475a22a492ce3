SPECIFICATION ComSpec
CONSTANTS
  t1 = t1  t2 = t2  o1 = o1  o2 = o2  o3 = o3  Null = Null
  Threads <- MCThreads
  Objects <- MCObjects
  MaxOuts <- MCOuts
  NVoices = 2
  MaxLocks = 1
SYMMETRY MCSymmetry
CHECK_DEADLOCK FALSE
INVARIANTS ComTypeOK RefsBalance UnloadSafe NoLeak
