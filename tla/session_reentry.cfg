SPECIFICATION Spec
CONSTANTS
  Threads = {t1, t2, t3}
  NoThread = NoThread
  kMaxThreads = 2
  Writers = {t1, t2}
  Late = {t3}
  Killable = {}
  Reentrant = TRUE
  MaxSuspend = 2
  MaxHandles = 2
INVARIANTS
  NothingLeftBehind
CHECK_DEADLOCK FALSE
