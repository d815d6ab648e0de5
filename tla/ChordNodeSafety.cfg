CONSTANTS
  RingSize = 8
  ShiftRange = 128
  NoAddr = NoAddr
  M = 2
  ExtTcp <- MCExtTcp
  Nodes <- MCNodes
  Peers <- MCPeers
  Boots <- MCBoots
SPECIFICATION NodeSpec
CONSTRAINT Followed
INVARIANTS SuccessorNeverNull BackupsClean NotOwnPredecessor
PROPERTIES SuccessorOnlyCloser PredecessorOnlyCloser DeadSuccessorDropped
CHECK_DEADLOCK FALSE
