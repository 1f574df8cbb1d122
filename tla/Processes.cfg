\* Preemption of the workers anywhere and characters at any time, or only where
\* neither does harm: outside of finding and advancing the process, and of the
\* way from the check of the console to the final block_current.
SPECIFICATION FairSpec
CONSTANTS
    Slots = {2, 3}
    Workers = {11, 12}
    MaxPid = 4
    Events = {0, 1}
    KillStatus = {7}
    Windows = {"loop", "print", "sleep"}
CHECK_DEADLOCK FALSE
INVARIANTS
    RegistrySound
    ConsoleHolderRuns
    WaiterWaits
    ExitIsOwn

    
    
