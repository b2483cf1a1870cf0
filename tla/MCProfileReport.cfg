SPECIFICATION Spec

CONSTANTS
    Candidates <- MCCandidates
    ProfileCells = 1
    CeilingCells = 1
    Contracts <- MCContracts
    MaxEdits = 2
    MaxMakes = 3
    MaxTools = 1

INVARIANTS TypeOK BootImageFitsTogether BuiltFromOneContract BuiltContractFits CellMeasuresItsSettings
CHECK_DEADLOCK FALSE
