CONSTANTS
    Requests = {"h1", "h2"}
    SerialSends = {"s1", "s3"}
    Length <- MCLength
    MaxLength = 2
    TotalPanels = 2
    Faults = {"HTTP_OPEN", "SERIAL_OPEN", "WRITE", "DAMAGE", "PANEL"}
    MaxFaults = 2
SPECIFICATION Spec
INVARIANTS
    OrderlyFlashesTheUpload
    FinishedAreComplete
PROPERTIES
    CampaignStops
CHECK_DEADLOCK FALSE
