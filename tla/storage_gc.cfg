CONSTANTS
    Runs = {1, 2, 3}
    Weight <- MCWeight
    Now = 2
    Ttl = 2
    Quota = 5
    EditKinds = {"marker", "report", "close", "pinned"}
    InitialWorlds <- MCWorlds
    Absent = Absent
SPECIFICATION Spec
INVARIANTS
    IInv
    UnsafeRemovalOnlyIfRaced
    ReceiptsTellTheTruth
    PlanIsCarriedOut
    QuotaPlanIsTight
PROPERTY
    Termination
