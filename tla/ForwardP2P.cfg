SPECIFICATION Spec
CONSTANTS
    Options <- P2POptions
    TuntapOpen = TRUE
    Inetd = FALSE
    MaxFrags = 2
    MaxTunPkts = 2
    MaxCtrl = 1
    MaxRestarts = 1
INVARIANT TypeOK
INVARIANT NoAssertionFailure
INVARIANT NoFragmentLoss
PROPERTY LinkDrains
PROPERTY ResidualDelivered
