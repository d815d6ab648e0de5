SPECIFICATION Spec
CONSTANTS
  n1 = n1
  n2 = n2
  c1 = c1
  c2 = c2
  c3 = c3
  Udp = Udp
  None = None
  Nodes <- MCNodes
  Conns <- MCConns
  Fds <- MCFds
  MaxSessions = 2
SYMMETRY ServerSymmetry
INVARIANTS SessionsOwnTheirSockets SessionsEndWithTheirThread DescriptorsReturn
\* A panic ends the server.
CHECK_DEADLOCK FALSE
