SPECIFICATION FairSpec
CONSTANTS
    None = None
    Creators = {"t1", "t2"}
    Sockets = {"s1", "s2"}
    Writers = {"w1"}
    Fds = {"f1", "f2"}
    MaxSessions = 1
\* Everything may have ended.
CHECK_DEADLOCK FALSE
INVARIANTS
    MastersOwned
    OneConnection
    LimitByOverlap
PROPERTIES
    ConnectionEndsSession
