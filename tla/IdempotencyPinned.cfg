SPECIFICATION Spec
CONSTANTS
    c1 = c1  c2 = c2  c3 = c3  d1 = d1
    k1 = k1  k2 = k2  A = A  x = x
    Callers = {c1, c2}
    Keys = {k1}
    Owners = {A}
    KeyOf <- KeyOfMC
    OwnerOf <- OwnerOfMC
    BodyOf <- BodyOfMC
    Terminals = {k1}
    MaxEntries = 2
    MaxUserEntries = 1
    MaxWaiters = 2
    MaxCreations = 2
\* When every request is answered nothing is left to do.
CHECK_DEADLOCK FALSE
PROPERTY PinnedWhileCleaning
