SPECIFICATION FairSpec
CONSTANTS
    Clients = {"t1", "t2", "w1", "w2"}
    Tasks = {"t1", "t2"}
    Slots = 1
    MaxWaiting = 2
\* Every call has returned.
CHECK_DEADLOCK FALSE
INVARIANTS
    SlotsCounted
    HelperOwnsSlot
PROPERTIES
    SlotReturned
