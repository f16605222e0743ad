CONSTANTS
    PanelCount = 4
    Parent <- Fork
    Pages = 2
    Images = {"v1", "v2"}
    ConnectTries = 3
    WriteAttempts = 3
    IdleLimit = 2
    MaxCampaigns = 2
    Faults = {"ENTER", "PING", "CHUNK", "START", "ANSWER", "DAMAGE", "LATE", "RESTART", "STALL"}
    MaxFaults = 2
SPECIFICATION Spec
INVARIANTS
    SoundUnlessCut
    FinishedHoldImage
PROPERTIES
    UntouchedSurviveRestart
    CampaignEnds
    CampaignSucceeds
CHECK_DEADLOCK FALSE
