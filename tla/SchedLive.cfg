\* Progress of sleepers and of requested switches.
SPECIFICATION FairSpec
CONSTANTS
    Tasks = {0, 1, 2, 3, 10, 11, 12}
    Policy <- MCPolicy
    Prio <- MCPrio
    Sleepers = {2, 3}
    SleepTicks = {2}
    LoadModes = {}
    AppTypes = {"bytecode"}
    CompileWhen = {"READY", "BLOCKED"}
    Quantum = 2
    RtWindow = 1
    RtBudget = 1
    DlPeriod = 1
    DlRuntime = 1
    MaxStep = 2
    RxRing = 1
PROPERTIES
    NeedServed
    SleepersWake
