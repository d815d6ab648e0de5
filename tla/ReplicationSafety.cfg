CONSTANTS
  a = a
  b = b
  c = c
  k1 = k1
  k2 = k2
  NoEntry = NoEntry
  Nodes = {a, b, c}
  Keys = {k1, k2}
  Home <- MCHome
  Targets <- MCTargets
  Persistent = {a}
  PluginHosts = {a}
  ReplicaCount = 3
  MaxPuts = 2
  MaxDeletes = 1
  MaxFaults = 1
SPECIFICATION FairSpec
INVARIANTS VersionsDistinct CleanMeansSaved CalmReplicasFollow
PROPERTY QueueDrains
CONSTRAINT Followed
CHECK_DEADLOCK FALSE
