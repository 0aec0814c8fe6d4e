SPECIFICATION Spec
CONSTANTS
    p1 = p1
    c1 = c1
    c2 = c2
    NoPeer = NoPeer
    Setting <- MCSetting
    MaxTime = 3
    TCP_OPTS_MAX = 5
    TCPOPT_TIMESTAMP_SZ = 4
    TCPOPT_WSCALE_MAX = 3
    WordBits = 4
    TsWidth = 8
    OptBytes = {0, 1, 2, 3, 4, 8}
    MAX_DNS_NAME = 2
    MAX_ANCOUNT = 1
    NameBytes = {0, 1, 2, 64, 192}
    MaxNameBuf = 5
INVARIANTS
     EvaluationOnlyObserves  
    SynAckWellFormed NamesAgree
