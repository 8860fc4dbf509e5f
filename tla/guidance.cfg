\* One document that may be used and one that may not; the job version is indexed anew once.
SPECIFICATION Spec
CONSTANTS
    Documents = {"d1"}
    Others = {"o1"}
    MaxGeneration = 2
    Reindexed = {"version"}
    MaxScored = 2
    MaxCites = 1
    MaxClaims = 2
INVARIANTS EverythingIsGrounded GroundedMeansGrounded TracesAgree
PROPERTIES CitationsWereConfirmed
CHECK_DEADLOCK FALSE
