SPECIFICATION Spec
CONSTANTS
    IcmpKey = {}
    DstKey = {k1}
    Default = {d1}
    Flag = {f1}
    DefaultGroup <- MCDefaultGroup
    Named = {n1}
    NoName = NoName
    Bucket = {b1, b2, b3, b4, b5, b6}
    NoBucket = NoBucket
    MAX_ICMP_RULES = 0
    MAX_DST_RULES = 1
INVARIANTS
    OneOwner NoLeak 
PROPERTIES
    InvisibleUntilUpload KeepsCounters
SYMMETRY Symmetry
