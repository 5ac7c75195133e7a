SPECIFICATION FairSpec
CONSTANTS
    a1 = a1
    a2 = a2
    a3 = a3
    b1 = b1
    b2 = b2
    c1 = c1
    A = A
    B = B
    C = C
    uA = uA
    uB = uB
    uC = uC
    cpu = cpu
    pids = pids
    Requests = {a1, a2, b1, b2, c1}
    Owners = {A, B, C}
    Uids = {uA, uB, uC}
    NoOwner = NoOwner
    OwnerOf <- OwnerOfMC
    UidOf <- SharedUidMC
    Resources = {cpu, pids}
    UserLimit <- UserLimitMC
    ComputeLimit <- ComputeLimitMC
    MaxTasks = 3
    MaxUserTasks = 2
    MaxQueue = 3
    MaxUserQueue = 2
    Faults = {"create", "launch", "retained"}
INVARIANTS
    BudgetHeld
    QueueConsistent
    NoLostWakeup
PROPERTIES
    GrantRespectsQueue
    NewUserFirst
    TurnsKept
    ImplementsBudget
    NoStarvation
    WaitsAreBounded
