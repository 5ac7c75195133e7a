SPECIFICATION Spec
CONSTANTS
    Nothing = Nothing
    Creations = {"n1", "n2"}
    Cells = {"e1", "e2"}
\* Everything may have ended.
CHECK_DEADLOCK FALSE
INVARIANTS
    KernelOwned
PROPERTIES
    IdleSparesBusy
