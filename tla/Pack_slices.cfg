CONSTANTS
    SizeOf <- MCSizeOf
    Index <- MCIndex
    Gap = 1
    MaxDamage = 2
SPECIFICATION PackSpec
INVARIANTS
    IndexTypeOK
    AllCovered
    RangesApart
    GapsShort
    CutsExact
    ClientComplete
    GateAccepts
CHECK_DEADLOCK FALSE
