\* Two Keychain items: a creation that loses the race
\* unlinks the identity of the one that won.
SPECIFICATION Spec
CONSTANTS
    Procs = {p1, p2}
    Accounts = {a1, a2}
    MaxSeeds = 2
    MaxNonce = 0
INVARIANT IdentityKept
CHECK_DEADLOCK FALSE
