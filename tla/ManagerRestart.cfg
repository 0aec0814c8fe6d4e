SPECIFICATION RestartSpec
CONSTANTS
    IcmpKey = {}
    DstKey = {k1}
    Default = {}
    Flag = {}
    DefaultGroup <- MCDefaultGroup
    Named = {n1}
    NoName = NoName
    Bucket = {b1, b2}
    NoBucket = NoBucket
    MAX_ICMP_RULES = 0
    MAX_DST_RULES = 1
INVARIANT
    FullyReplaced
