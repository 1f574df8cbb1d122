\* Descriptors of the shell and of one process after another.
SPECIFICATION Spec
CONSTANTS
    Slots = {1, 2}
    Fds = {0, 1, 2}
    FirstFd = 1
    OpenIdx = {0, 1}
    FileIdx = {0}
    TmpPaths = {qa, log}
    Devices = {"null"}
    QaPath = qa
    FileData = 2
    QaLength = 2
    Lengths = {1}
    MaxPid = 4
    None = None
INVARIANTS
    DescriptorsSound
    ReadsWereWritten
PROPERTIES
    OthersUntouched
