CONSTANTS
    p1 = p1
    p2 = p2
    p3 = p3
    p4 = p4
    Panels = {p1, p2, p3, p4}
    Controller = Controller
    NoPort = NoPort
    EdgeCount = 3
    MaxPanels = 3
    RootIntervals = 2
    StallIntervals = 2
    ProbeAttempts = 3
    Wirings <- SomeWirings
    Faults = {"PULL", "REG", "RELAYED_REG", "ADV", "DONE", "CROSSED_PROBE",
              "LATE_ANSWER", "LATE_WALK"}
    MaxFaults = 3
SPECIFICATION Spec
INVARIANTS
    TypeOK
    ResumeStackIsPath
    RecordedTreeIsPreorder
    FloodEdgesFormTree
PROPERTY WalkEnds
CHECK_DEADLOCK FALSE
