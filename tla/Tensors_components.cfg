SPECIFICATION MCSpec
CONSTANTS
    Values = {7}
    MaxSymmetries = 24
    MaxAsked = 2
    MaxCandidates = 24
    MaxEntries = 3
    Axes = 2
    Order = 3
    Prime = 101
    MaxDimension = 2
    MaxCharts = 2
    Bases <- MCBases
    Changes <- MCChanges
    MaxAtlasCharts = 3
    MaxTransitions = 3
    MaxCocycleChecks = 12
    MaxTransformTerms = 64
    Degree = 4
    MaxGenerators = 2
    MaxStrong = 6
    Images <- MCFew
INVARIANT GroupsAreGenerated
PROPERTIES TensorsReadAsAssigned ChartsAgree
CHECK_DEADLOCK FALSE
