\* One resume, one worker and two scanners: every way back from a lost worker, message or dispatch.
SPECIFICATION FairSpec
CONSTANTS
    Sources = {cv}
    KnowledgeDocuments = {}
    Workers = {w1}
    Scanners = {beat, rival}
    Tokens = {t1, t2}
    NoOne = NoOne
    MaxAttempts = 2
    ShortAttempts = 0
    LeaseTime = 1
    ShortDelay = 1
    LongDelay = 2
    StaleAge = 1
    Pacing = 1
    MaxReopens = 0
    MaxMessages = 1
    MaxRenewals = 0
PROPERTIES DispatchErrorIsCurrent EventuallySettled
