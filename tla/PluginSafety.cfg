SPECIFICATION Spec
CONSTANTS
  Handles = {h1, h2}
  StartupHandles = {h1}
  NoHandle = NoHandle
INVARIANTS WorkerHoldsResources ReleasedOnceAfterSpawn
PROPERTY OutcomeOverwrittenOnlyByPauseResume
\* The model ends when the process does.
CHECK_DEADLOCK FALSE
