\* Pipelines and redirections of the shell, one tmpfs file, two descriptors.
SPECIFICATION Spec
CONSTANTS
    Segments <- MCSegments
    Outputs <- MCOutputs
    Fds = {0, 1, 2, 3, 4}
    OpenIdx = {0, 1, 2}
    FileIdx = {0}
    TmpPaths = {"/tmp/a", "/tmp/b"}
    Devices = {"null", "zero"}
    None = None
    Objects = 1
INVARIANTS
    ShellSound
PROPERTIES
    WholeOrReported
