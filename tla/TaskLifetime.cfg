SPECIFICATION FairSpec
CONSTANT Stoppers = {"s1", "s2"}
\* A task that ended takes no further step.
CHECK_DEADLOCK FALSE
INVARIANTS
    ReservationCoversTask
    DescriptorsAreOwn
PROPERTIES
    CancelledNeverStarts
    GraceKept
    ReasonIsFinal
    TaskEnds
