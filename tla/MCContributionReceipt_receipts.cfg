\* More checks than a page holds; CI moves between the reads.
SPECIFICATION Spec
CONSTANTS
    Checks = {c1, c2, c3}
    Contexts = {s1}
    PageSize = 2
    MinInterval = 2
    MaxTime = 2
SYMMETRY Interchangeable
INVARIANTS ReceiptsValidate LookupsAreSpaced
PROPERTY SuccessIsEarned
CHECK_DEADLOCK FALSE
