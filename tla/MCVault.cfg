\* Tickets that are quoted, cancelled, released, paid and synced in any order.
SPECIFICATION Spec
CONSTANTS
    Users = {u1, u2}
    Amounts = {1, 2}
    Slots = {c1, c2}
    Ttl = 1
    MaxDeposits = 2
    MaxTickets = 2
    MaxClock = 2
SYMMETRY Symmetry
INVARIANTS TicketsEndOnce 
