SPECIFICATION FairSpec
CONSTANTS
    a = a
    b = b
    c = c
    x = x
    Name = {a, b, c, x}
    None = None
    Pitfiles <- AllPitfiles
INVARIANTS TypeOK Verdict CycleIsReal
PROPERTY ValidationEnds
CHECK_DEADLOCK FALSE
