CONSTANTS
    SingleSession = FALSE
    Renegotiates = {"client"}
    MaxKeyId = 1
    TimesOut = {"client"}
    ExpiringKeyIds = {1}
    MaxTimeouts = 1
    MaxNet = 1
    MaxSessions = 3
    Faults = {}
    Senders = {"server"}
SPECIFICATION Spec
INVARIANT DataDecryptsWithItsKey
