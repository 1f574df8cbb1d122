\* Real-time, deadline and fair load generators under changing load modes.
SPECIFICATION Spec
CONSTANTS
    Tasks = {0, 1, 4, 5, 6, 7, 9, 10}
    Policy <- MCPolicy
    Prio <- MCPrio
    Sleepers = {}
    SleepTicks = {}
    LoadModes = {0, 1, 2, 3, 4, 6}
    AppTypes = {}
    CompileWhen = {}
    Quantum = 2
    RtWindow = 5
    RtBudget = 3
    DlPeriod = 4
    DlRuntime = 1
    MaxStep = 3
    RxRing = 1
INVARIANTS
    TypeOK
    
    SleepListSimple
    RtQueueExact
    ClassesInOrder
    RtTimeKept
    
