CONSTANTS
    AddrMod = 8
    PageSize = 2
    Byte = {0, 1}
    Programs <- ProgramsOf
    StackBase <- Bases
    StackSize = 1
    SharedPages <- Shared
    Value <- Values
    MaxLatency = 1
    MaxSteps = 3
SPECIFICATION Spec
CHECK_DEADLOCK FALSE
INVARIANTS TypeOK LoadedAsLinked ClocksAligned
PROPERTIES StoresAreWhole RunsToTheEnd
