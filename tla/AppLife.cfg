\* Every kind of application, with polite and with rude commands.
SPECIFICATION FairSpec
CONSTANTS
    Types = {"bytecode", "threads", "ipc", "loop", "pipe", "fault"}
    RudeTypes = {{"threads"}, {"ipc"}, {"bytecode"}, {"loop", "fault"}}
    Iterations = 3
    VmLength = 2
    QueueSize = 2
    Unsplit = {"count", "mark", "clear"}
INVARIANTS
    AppSound
    KilledStaysDead
    

    
