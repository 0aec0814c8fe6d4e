SPECIFICATION Spec
CONSTANTS
    IcmpKey = {}
    DstKey = {}
    Default = {}
    Flag = {f1}
    DefaultGroup <- MCDefaultGroup
    Named = {n1}
    NoName = NoName
    Bucket = {b1, b2}
    NoBucket = NoBucket
    MAX_ICMP_RULES = 0
    MAX_DST_RULES = 0
INVARIANT
    OneOwner
