CONSTANTS
  RingSize = 8
  ShiftRange = 128
  NoAddr = NoAddr
  M = 3
  MaxHops = 3
  ExtTcp <- MCExtTcp
  Universe <- MCUniverse
  Keys <- MCKeys
SPECIFICATION LookupSpec
INVARIANTS FindsTheOwner HopsSuffice
CHECK_DEADLOCK FALSE
