SPECIFICATION Spec
CONSTANTS
    MaxPanels = 8
    SelCap = 24
    SelStackMax = 3
    SelMaxIndexList = 16
    MaxLayers = 4
    MaxSteps = 4
    MaxBurst = 2
    MaxSweeps = 30
    SecondMs = 4
    MaxSlots = 12
    SeqMax = 3
    SpawnPoolMax = 3
    GroupMax = 12
    FadePerWidth = 2
    FallMs = 3
    MaxLag = 2
    MaxEvents = 2
    Trees <- MCTrees
    Documents <- MCDocuments
    Roots <- MCRoots
    Speeds <- MCSpeeds
    Selectors <- MCSelectors
    Picks <- MCPicks
INVARIANTS
    LayersShowTheirStep
    SelectorsPickTheirPanels
PROPERTIES
    SweepsRunToTheirEnd
    CyclesComplete
