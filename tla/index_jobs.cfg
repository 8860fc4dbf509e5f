\* One job version, indexed by a request and a backfill at a time, all of one model.
SPECIFICATION FairSpec
CONSTANTS
    Resumes = {}
    Documents = {}
    JobVersions = {j1}
    Workers = {}
    Indexers = {i1, i2}
    Models = {e1}
    MaxEpoch = 0
    MaxGeneration = 3
    Nothing = Nothing
INVARIANTS ReportedAsItIs
PROPERTIES BackfillRepairs
CHECK_DEADLOCK FALSE
