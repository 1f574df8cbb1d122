\* As SchedSleep, and the shell queues compile jobs while the compiler sleeps.
SPECIFICATION Spec
CONSTANTS
    Tasks = {0, 1, 2, 10, 11, 12}
    Policy <- MCPolicy
    Prio <- MCPrio
    Sleepers = {2, 11, 12}
    SleepTicks = {1, 2}
    LoadModes = {}
    AppTypes = {"single"}
    CompileWhen = {"READY", "SLEEP", "BLOCKED"}
    Quantum = 2
    RtWindow = 1
    RtBudget = 1
    DlPeriod = 1
    DlRuntime = 1
    MaxStep = 3
    RxRing = 1
INVARIANTS
    SleepersLinked
