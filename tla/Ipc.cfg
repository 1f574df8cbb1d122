\* IPC objects: two blocking processes and one that exits or is killed.
SPECIFICATION FairSpec
CONSTANTS
    Procs = {sh, th, wk}
    Shell = sh
    Blockers = {sh, th}
    Mortal = {wk}
    Slots = {1, 2}
    Owners = {th, wk}
    Plans <- MCPlans
    Cap = 2
    Timeouts = {2}
    MaxStep = 2
    TickMod = 5
    GenMod = 4
    MaxCreates = 2
    MaxValue = 1
    NoProc = NoProc
INVARIANTS
    ObjectsSound
    
    StaleHandlesRefused
PROPERTIES
    TimeoutsExact
    KeepsPromise
    WaitsEnd
