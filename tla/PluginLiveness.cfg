SPECIFICATION FairSpec
CONSTANTS
  Handles = {h1}
  StartupHandles = {}
  NoHandle = NoHandle
PROPERTIES StopSignalEndsCall TimeoutEnforced
\* The model ends when the process does.
CHECK_DEADLOCK FALSE
