\* A resume and a document, two workers that stage and publish against each other.
SPECIFICATION Spec
CONSTANTS
    Resumes = {r1}
    Documents = {d1}
    JobVersions = {}
    Workers = {w1, w2}
    Indexers = {}
    Models = {e1, e2}
    MaxEpoch = 2
    MaxGeneration = 2
    Nothing = Nothing
INVARIANTS OneGenerationLive DeletedHasNoChunks StagedIsActivatable
PROPERTIES OwnWorkIsPublished ImplementsIndex
CHECK_DEADLOCK FALSE
