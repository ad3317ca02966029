SPECIFICATION SessionsSpec
CONSTANTS
    s1 = s1
    s2 = s2
    r1 = r1
    r2 = r2
    r3 = r3
    o1 = o1
    o2 = o2
    d1 = d1
    None = None
    Done = Done
    Sessions = {s1, s2}
    Owners = {o1, o2}
    Strategies = {d1}
    Requests = {r1, r2, r3}
    MaxSessions = 1
    MaxReads = 1
    MaxNights = 1
SYMMETRY MCSymmetry
INVARIANTS  AnswersHaveQuestions ForgetsNeedOverlap
CHECK_DEADLOCK FALSE
