CONSTANTS
    Capacity = 8
    Base = 3
    Records <- SomeRecords
    OutCap = 3
SPECIFICATION Spec
PROPERTIES
    ImplementsFifo
    WritesOnlyFreeBytes
