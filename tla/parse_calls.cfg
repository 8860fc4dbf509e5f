\* One resume and one skill; the provider fails in every way it can.
SPECIFICATION Spec
CONSTANTS
    SkillNames = {"s1"}
    MaxRetries = 1
    MaxCycles = 1
    Nothing = Nothing
INVARIANTS RequestsAreBounded ProfileIsGrounded
PROPERTIES TraceTellsTheOutcome
CHECK_DEADLOCK FALSE
