CONSTANTS
    MaxLen = 36
    FirstBytes = {69, 96, 0}
    IPs = {167772161, 167772162, 167772417}
    Ports = {1194, 1195, 1450}
SPECIFICATION Spec
INVARIANTS
    TypeOK
    TapExtractsEthernet
    RealAddrEqualIffSameEndpoint
