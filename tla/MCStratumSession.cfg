CONSTANTS
    j1 = j1
    j2 = j2
    r1 = r1
    r2 = r2
    Jobs = {j1, j2}
    Rotations = {r1, r2}
    RotationOf <- MCRotationOf
    Targets = {t1, t2}
    IdCycle = 2
    MaxSubmitted = 3
    MaxSessions = 2
    MaxHashes = 2
    None = None
SPECIFICATION Spec
INVARIANTS
    SharesAccounted
    OwnSession
    RotationExact
