SPECIFICATION Spec
CONSTANTS
    c1 = c1
    c2 = c2
    Click = {c1, c2}
    Runner = Runner
    Automation = {"watchdog", "bridge", "source", "quality"}
    NoFlow = NoFlow
    MaxEvents = 4
    GuardOn = TRUE
SYMMETRY Symmetry
INVARIANTS TypeOK NoOrphanTimer IdleMeansStopped ConnectedIsIntended NothingLeftOver ChangeIsApplied
PROPERTY QueueKeepsPromise
