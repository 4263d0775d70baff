\* Two operators choose one output directory; crashes and power losses.
SPECIFICATION Spec
CONSTANTS
    Procs = {p1, p2}
    Revisions = {r1, r2}
    Streams = {stdout}
    Contents = {a, b}
    Results = {passed}
    Times = {0, 1}
    MaxCountersignatures = 1
    MaxEnvelopes = 2
SYMMETRY Interchangeable
INVARIANTS ReceiptComesLast FailureLeavesNothing
PROPERTIES CompletedIsKept SignedIsObserved
CHECK_DEADLOCK FALSE
