CONSTANTS
    SingleSession = FALSE
    Renegotiates = {}
    MaxKeyId = 0
    TimesOut = {"client"}
    ExpiringKeyIds = {0}
    MaxTimeouts = 1
    MaxNet = 1
    MaxSessions = 4
    Faults = {"loss", "duplication"}
    Senders = {"client", "server"}
SPECIFICATION Spec
INVARIANTS ActiveKeyFromItsPeer NoAssertionFailure
