CONSTANTS
    Targets = {a, b}
    Commands = {"c"}
    LINK_ACK_TIMEOUT_MS = 4
    LINK_RETRANSMITS = 2
    LINK_DEDUP_WINDOW_MS = 12
    ACK_TIMEOUT_MS = 38
    AirTimes = {1, 3}
    FrameTime = 3
    MaxDelay = 1
    MaxActing = 1
    MaxCalls = 2
    MaxLosses = 3
SPECIFICATION Spec
INVARIANTS
    DispatchedOnceInTime
    AckedWasDispatched
    AnswersThisCall
    LossesAbsorbed
SYMMETRY Symmetric
