SPECIFICATION FairSpec
CONSTANTS
  NPROC = 3
  Tasks = 4
  MaxWork = 1
  WindowTicks = FALSE
INVARIANTS
  OwnStack
  SwitchesToScheduler
  ResumedUnmasked
  PreemptedAlone
  TimerAlive
  NobodyStranded
PROPERTIES
  RoundRobinContract
  AllFinish
