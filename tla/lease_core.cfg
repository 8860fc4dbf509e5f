\* One knowledge document and two workers; messages alone drive the recovery.
SPECIFICATION Spec
CONSTANTS
    Sources = {doc}
    KnowledgeDocuments = {doc}
    Workers = {w1, w2}
    Scanners = {}
    Tokens = {}
    NoOne = NoOne
    MaxAttempts = 2
    ShortAttempts = 1
    LeaseTime = 1
    ShortDelay = 1
    LongDelay = 2
    StaleAge = 0
    Pacing = 0
    MaxReopens = 1
    MaxMessages = 1
    MaxRenewals = 4
INVARIANTS EpochWithinBudget
PROPERTIES LiveLeaseUndisturbed DeletedStaysErased ImplementsContract
