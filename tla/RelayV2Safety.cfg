SPECIFICATION Spec
CONSTANTS
  n1 = n1
  NoCtx = NoCtx
  Acceptor = Acceptor
  Conns <- MCConns
  Nodes <- MCOneNode
  Fds <- MCFds
  Listen = 0
  Workers = 2
  MaxConnections = 3
  MaxFrames = 1
  MaxRequests = 1
INVARIANTS NoDangling PermitsCounted NoLostWakeup
\* The model ends when the process does.
CHECK_DEADLOCK FALSE
