SPECIFICATION Spec
CONSTANTS
    Id = {1, 2, 3, 4, 8, 9, 10}
    MaxOperations = 4
    MaxEdges = 4
    MaxSteps = 4
    MaxReferences = 3
    RunFacts = 2
    MaxTemporary = 87
    MaxEntries = 17
    Scenarios <- MCScenarios
    Slices <- MCSlices
INVARIANTS ScanAgrees StateAgrees ActiveIsMaximal CanonicalOrder NamesExact
