\* One resume, one document, one job; two requests and a worker.
SPECIFICATION Spec
CONSTANTS
    Resumes = {r1}
    Documents = {d1}
    Versions = {v1}
    Requests = {p1, p2}
    Workers = {w1}
    Results = {i1}
    MaxGeneration = 2
    Nothing = Nothing
INVARIANTS ErasedLeavesNoTrace RemarksGoWithTheResult NobodyWaitsInACircle
PROPERTIES ResumeCitationsAreCurrent
SYMMETRY RequestSymmetry
CHECK_DEADLOCK FALSE
