SPECIFICATION FairSpec
CONSTANTS
  n1 = n1
  NoCtx = NoCtx
  Acceptor = Acceptor
  Conns <- MCFewConns
  Nodes <- MCOneNode
  Fds <- MCFewFds
  Listen = 0
  Workers = 2
  MaxConnections = 2
  MaxFrames = 0
  MaxRequests = 0
PROPERTY ClientsServed
\* The model ends when the process does.
CHECK_DEADLOCK FALSE
