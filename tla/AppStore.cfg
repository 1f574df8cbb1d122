\* Compiles, injected failures, power losses and bursts in any order.
SPECIFICATION Spec
CONSTANTS
    Bytecode = {blink, hello}
    Demos = {threads}
    HeaderWords = 2
    CodeWords = 3
    MaxSequence = 5
    None = None
INVARIANTS
    StoreSound
    BurstKeepsItsCode
PROPERTIES
    ReplacesAtomically
