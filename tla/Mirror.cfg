SPECIFICATION Spec
CONSTANTS
    Panels = {1, 2}
    Groups = {1, 2}
    MaxSlots = 2
    SeqMax = 255
    MaxClients = 2
    QueueCap = 2
    BatchCap = 5
    SnapCap = 4
    Commands <- MCCommands
    Works <- MCWorks
    MaxConns = 3
    MaxAsks = 2
    MaxWorks = 2
    MaxFaults = 1
INVARIANT StoppedStaysStopped
