\* One worker, one report at a time; Redis or the schema fails.  Requests and processes end.
SPECIFICATION Spec
CONSTANTS
    Workers = {w1}
    Clients = {c1}
    Families = {"redis"}
    Failing = {"redis", "schema"}
    Fresh = 2
    Expire = 3
    GaugeLife = 1
    MaxGap = 1
    MaxStuck = 1
    Nothing = Nothing
INVARIANTS RunningIsFresh StoppedIsGone ReportIsTrue ShownIsMeasured
CHECK_DEADLOCK FALSE
