SPECIFICATION Spec
CONSTANTS
    t1 = t1
    t2 = t2
    t3 = t3
    c1 = c1
    c2 = c2
    d1 = d1
    d2 = d2
    Thread = {t1, t2}
    CF = {c1, c2}
    Dropper = {d1, d2}
    Closer = Closer
    NoCF = NoCF
    BadDrop = FALSE
    MaxTrigger = 2
INVARIANTS
    ScheduledZeroAfterJoin
SYMMETRY Symmetry
CHECK_DEADLOCK FALSE
