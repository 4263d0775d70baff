\* GitHub reports a combined state of pending when there is no status.
SPECIFICATION Spec
CONSTANTS
    Checks = {c1, c2, c3}
    Contexts = {s1}
    PageSize = 2
    MinInterval = 2
    MaxTime = 2
SYMMETRY Interchangeable

PROPERTY PendingIsObserved
CHECK_DEADLOCK FALSE
