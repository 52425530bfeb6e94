SPECIFICATION Spec
CONSTANTS
  NPROC = 2
  Tasks = 2
  MaxWork = 1
  WindowTicks = TRUE
INVARIANT
  SwitchesToScheduler
