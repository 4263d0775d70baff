\* The default selection: every creation names the same Keychain item.
SPECIFICATION Spec
CONSTANTS
    Procs = {p1, p2}
    Accounts = {a1}
    MaxSeeds = 3
    MaxNonce = 2
SYMMETRY Interchangeable
INVARIANTS KeychainKept IdentityKept SentAscends ControllerInv
CHECK_DEADLOCK FALSE
