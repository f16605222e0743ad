CONSTANTS
    p1 = p1
    p2 = p2
    p3 = p3
    p4 = p4
    Panels = {p1, p2, p3, p4}
    Controller = Controller
    NoPort = NoPort
    EdgeCount = 3
    MaxPanels = 4
    RootIntervals = 4
    StallIntervals = 4
    ProbeAttempts = 3
    Wirings <- AllWirings
    Faults = {"PULL", "REG", "ADV", "DONE", "CROSSED_PROBE"}
    MaxFaults = 1
SPECIFICATION Spec
INVARIANTS
    IndicesDistinct
    LinksAreWires
    FindsEveryPanel
    RoutesFollowTree
PROPERTY ImplementsDepthFirstWalk
CHECK_DEADLOCK FALSE
