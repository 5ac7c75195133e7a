SPECIFICATION Spec
CONSTANTS
    Nobody = Nobody
    Commands = {"c1", "c2"}
    Watched = "c1"
    Output <- OutputMC
    Deletes = {"d1", "d2"}
    Fds = {"f1"}
    Capacity = 2
\* Everything may have ended.
CHECK_DEADLOCK FALSE
CONSTRAINT LongLogAlone
INVARIANTS
    CursorExact
    ForgottenDead
    MastersKept
