CONSTANTS
    Paths <- MCPaths
    Endpoints <- MCEndpoints
    Times <- MCTimes
    Sizes <- MCSizes
SPECIFICATION Spec
INVARIANT TypeOK
INVARIANT MergeCoversReport
INVARIANT MergeRecordsOnlyHeldVersions
INVARIANT TableSurvivesWire
