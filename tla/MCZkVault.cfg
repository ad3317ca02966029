\* Deposits, packages, payments and syncs in any order, two at a time.
SPECIFICATION Spec
CONSTANTS
    Users = {u1, u2}
    Amounts = {1}
    Slots = {c1, c2}
    LockWindow = 1
    MaxDeposits = 2
    MaxClock = 1
SYMMETRY Symmetry
INVARIANTS DebitsBounded 
PROPERTY NotesArePermanent
