CONSTANTS
    SingleSession = FALSE
    Renegotiates = {"client", "server"}
    MaxKeyId = 1
    TimesOut = {}
    ExpiringKeyIds = {}
    MaxTimeouts = 0
    MaxNet = 1
    MaxSessions = 3
    Faults = {"loss", "duplication"}
    Senders = {"client", "server"}
SPECIFICATION Spec
INVARIANTS TypeOK DataDecryptsWithItsKey
