SPECIFICATION Spec
CONSTANTS
  m = m
  r = r
  Nodes <- MCNodes
  Main = m
  Outdated <- MCOutdated
  Commands <- MCCommands
  MaxTasks = 1
  MaxBacklog = 2
  MaxRestarts = 1
  StablePeriod = 5
  Penalty = 4
  Delay = 1
INVARIANTS RunningIsOurs StormGuard NoOrphan
PROPERTIES CrashRestarted 
