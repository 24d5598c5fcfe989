SPECIFICATION Spec
CONSTANTS
    Fds = {0, 1, 2}
INVARIANTS
    IndexTellsKernel
PROPERTIES
    ImplementsPoller
