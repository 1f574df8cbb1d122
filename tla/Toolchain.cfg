\* Compile and run every program, verify and run every sequence of cells.
SPECIFICATION Spec
CONSTANTS
    StackSize = 4
    FrameSize = 4
    Locals = 2
    Width = 4
    MaxSteps = 90
    MaxTokens = 90
    MaxFunctions = 3
    MaxCalls = 3
    MaxCode = 60
    SleepLimit = 20
    Fuel = 40
    Programs <- MCPrograms
    Codes <- MCCodes
CHECK_DEADLOCK FALSE
INVARIANTS
    MachineSound
    
    
