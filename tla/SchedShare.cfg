\* RR load beside the sleeping compiler.
SPECIFICATION LiveSpec
CONSTANTS
    Tasks = {0, 1, 2, 4, 5, 10}
    Policy <- MCPolicy
    Prio <- MCPrio
    Sleepers = {2}
    SleepTicks = {2}
    LoadModes = {0, 1}
    AppTypes = {}
    CompileWhen = {"READY", "SLEEP", "BLOCKED"}
    Quantum = 2
    RtWindow = 5
    RtBudget = 3
    DlPeriod = 1
    DlRuntime = 1
    MaxStep = 3
    RxRing = 1
PROPERTIES
    RtShares
