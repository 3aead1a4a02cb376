SPECIFICATION FairSpec
CONSTANTS
    Images = {i1, i2}
    ServiceNames = {svc1}
    NoService = NoService
    NoSts = NoSts
    NoPod = NoPod
    NoTC = NoTC
    Main = Main
    Replica = Replica
    s1 = s1
    i1 = i1
    i2 = i2
    svc1 = svc1
    Secondaries = {s1}
    StaleReads = FALSE
    InitSpecs <- LiveOld
    Specs <- LiveSpecs
    EditsFrom <- LiveEdits
    Forward = {}
    HasFinalizer = TRUE
    EditsDuringUpgrade = TRUE
    StatusBetweenReads = TRUE
    LongLag = FALSE
    FaultKinds = {"reread", "status"}
    MaxEdits = 2
    MaxCrashes = 0
    MaxFaults = 1
INVARIANTS TypeOK RestMeansApplied RolloutSeen
PROPERTIES Converges SecondariesFollowRollout
CHECK_DEADLOCK FALSE
