SPECIFICATION Spec
CONSTANTS
  m = m
  p = p
  Requesters <- MCRequesters
  Main = m
  Reader = Reader
  None = None
  Relays = 2
  Threshold = 2
  MaxAsks = 1
  MaxRequests = 2
  MaxInbox = 2
INVARIANTS OnlyOwnAnswers ConnectedIsRegistered
PROPERTY RequestEnds
\* The reader ends when the relays are used up.
CHECK_DEADLOCK FALSE
