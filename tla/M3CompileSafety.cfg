SPECIFICATION Spec
CONSTANTS
    MaxStack = 5
    MaxSlots = 14
    MaxUse = 255
    Functions <- MCFunctions
INVARIANTS  FrameCovers 
PROPERTY RefinesWasm
CONSTRAINT Followed
CHECK_DEADLOCK FALSE
