\* Two requests edit, publish and match one job of up to three versions.
SPECIFICATION Spec
CONSTANTS
    Requests = {q1, q2}
    Texts = {"t"}
    MaxVersion = 3
    Nothing = Nothing
INVARIANTS MatchesFindTheirVersion
PROPERTIES EditsBuildOnEachOther
CHECK_DEADLOCK FALSE
