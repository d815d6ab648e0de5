CONSTANTS
    Runtimes = {"r1"}
    Temp = "temp"
    Functions <- MCFunctions
    MaxPages = 3
    PageSizes = {12, 24}
    OpWords = {3, 4, 5}
    MaxTargets = 1
    MaxNesting = 1
    Modules = {"plugin", "lib"}
    ModuleOf <- MCModuleOf
    Imports = {"host"}
    Code <- MCCode
    Calls <- MCCalls
    Table <- MCTable
    Loops = {"_start"}
    Growers = {"grow"}
    StartOf <- MCStartOf
    Expressions <- MCExpressions
    MaxDepth = 8
    MaxMoves = 2
    MaxRepeats = 1
SPECIFICATION Spec
INVARIANTS PagesOwnedOnce RoomForBridge CodeKept FreshMemory StartsFirst
CHECK_DEADLOCK FALSE
