SPECIFICATION ManagerSpec
CONSTANTS
    W4 = 3
    W6 = 4
    V4Depth = 1
    MAX_PORTS = 9
    MaskLimit4 = 3
    MaskLimit6 = 4
    Texts <- MCTexts
    Database <- MCDatabase
    PinnedMaps = {{"dns_filter", "tcp_syncookies"}, {}}
    AliasRank <- MCAliasRank
    XFW_MAX_SRC_IP_RULES = 6
    XFW_MAX_PROTECTED_NET_RULES = 2
    RlMaxRate = 8
    MaxRequests = 2
INVARIANT GeoReloaded
