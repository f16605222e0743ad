CONSTANTS
    Keys <- MCKeys
    Vals = {"x", "y"}
    FlagBitSet <- MCFlagBitSet
    SceneIds = {"s1", "s2", "s3"}
    OneShot = "one"
    BUILTINS <- MCBuiltins
    UserPalettes = {"mine"}
    PaletteVals = {"x"}
    SeedVal = "x"
    FaultKinds = {"cut", "full", "memory"}
    MaxFaults = 2
    MaxCells = 6
    MaxUpgrades = 1
SPECIFICATION Spec
INVARIANTS StoreIsMap AckedSurvive BuiltinsStay
CHECK_DEADLOCK FALSE
