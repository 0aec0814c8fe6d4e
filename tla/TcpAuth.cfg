SPECIFICATION Spec
CONSTANTS
    a1 = a1
    a2 = a2
    c1 = c1
    c2 = c2
    NoAddr = NoAddr
    Elem = {e1, e2}
    NoElem = NoElem
    Setting <- MCSetting
    MaxTime = 4
INVARIANTS
     GraceKept ClosedExpires OnlyObserved
CHECK_DEADLOCK FALSE
