SPECIFICATION FairSpec
CONSTANTS
  Threads = {t1, t2, t3}
  NoThread = NoThread
  kMaxThreads = 2
  Writers = {t1, t2}
  Late = {t3}
  Killable = {t3}
  Reentrant = FALSE
  MaxSuspend = 2
  MaxHandles = 2
INVARIANTS
  TypeOK OneWriter PlanComplete FrozenStandsStill WriterNotFrozen NothingLeftBehind MutexFreeWhenIdle
PROPERTIES
  BusyMeansWriting EventuallyThawed CallReturns ImplementsStopTheWorld
CHECK_DEADLOCK FALSE
