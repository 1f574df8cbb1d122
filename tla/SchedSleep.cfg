\* Sleepers, tickless idle and the shell, without load generators; the delta
\* sleep queue against the abstract timers.
SPECIFICATION Spec
CONSTANTS
    Tasks = {0, 1, 2, 10, 11, 12}
    Policy <- MCPolicy
    Prio <- MCPrio
    Sleepers = {2, 11, 12}
    SleepTicks = {0, 2}
    LoadModes = {}
    AppTypes = {"threads", "single"}
    CompileWhen = {"READY", "BLOCKED"}
    Quantum = 2
    RtWindow = 1
    RtBudget = 1
    DlPeriod = 1
    DlRuntime = 1
    MaxStep = 2
    RxRing = 1
INVARIANTS
    SleepersLinked
    ShellHearsInput
PROPERTIES
    TimersSpec
