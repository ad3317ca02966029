\* A withdrawal synced after the lock of its note was released.
SPECIFICATION Spec
CONSTANTS
    Users = {u1}
    Amounts = {1}
    Slots = {c1}
    LockWindow = 1
    MaxDeposits = 1
    MaxClock = 1
SYMMETRY Symmetry
INVARIANT
    SyncMarksSpent
