SPECIFICATION Spec
CONSTANTS
    Scenes = {s1}
    OneShot = oneShot
    NoScene = noScene
    Palettes = {lava}
    UserColors = userColors
    Levels = {100, 255}
    Speeds = {1, 2}
    Policies = {2, 259}
    QueueSlots = 2
    Same = same
    NoView = noView
    Workloads <- MCWorkloads
    MaxRequests = 3
    MaxTroubles = 1
INVARIANTS AcceptedTakesEffect CleanMeansSaved ToldWhatChanged NoLayerLeak
PROPERTY DrainsEventually
