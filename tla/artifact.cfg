\* One Source and two requests that may store its copy; one maintenance at a time.
SPECIFICATION FairSpec
CONSTANTS
    Sources = {s1}
    Requests = {r1, r2}
    Maintainers = {m1}
    Nothing = Nothing
INVARIANTS CleanupMeetsTombstone
PROPERTIES DeletedIsTerminal ImplementsContract ErasureCompletes PendingResolves
