SPECIFICATION Spec
CONSTANTS
    h1 = h1  h2 = h2  h3 = h3  Old = Old  None = None
    Helpers = {h1, h2, h3}
    Names = {"a", "b"}
    UploadName <- UploadNameMC
    Requests <- RequestsMC
SYMMETRY SameHelpers
\* When every request is answered nothing is left to do.
CHECK_DEADLOCK FALSE
INVARIANTS
    TrashRestorable
    RootNeverHalfMade
PROPERTIES
    NothingLost
