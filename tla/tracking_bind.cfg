SPECIFICATION Spec
CONSTANTS
    Controllers = {u}
    Senders = {s}
    IndexWrap = 2
    ListenMayFail = TRUE
INVARIANT NeverTerminates
