SPECIFICATION Spec
CONSTANTS
    c1 = c1
    c2 = c2
    Setting <- MCSetting
    MaxLag = 1
    Width = 8
    HZ = {1, 2, 3, 4, 5, 6, 7, 8, 9, 10, 11}
INVARIANTS
    RaceBound WindowBound SlidingBound NoSpuriousDrop ScaledRate 
CHECK_DEADLOCK FALSE
