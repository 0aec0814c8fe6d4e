SPECIFICATION Spec
CONSTANTS
    IcmpKey = {}
    DstKey = {k1, k2}
    Default = {}
    Flag = {}
    DefaultGroup <- MCDefaultGroup
    Named = {n1, n2}
    NoName = NoName
    Bucket = {b1, b2}
    NoBucket = NoBucket
    MAX_ICMP_RULES = 0
    MAX_DST_RULES = 1
INVARIANTS
    ExhaustedOnlyOverLimit FullyReplaced
SYMMETRY Symmetry
