SPECIFICATION Spec
CONSTANTS
    Images = {i1, i2}
    ServiceNames = {svc1}
    NoService = NoService
    NoSts = NoSts
    NoPod = NoPod
    NoTC = NoTC
    Main = Main
    Replica = Replica
    s1 = s1
    i1 = i1
    i2 = i2
    svc1 = svc1
    Secondaries = {s1}
    StaleReads = FALSE
    InitSpecs <- MultiOld
    Specs <- MultiSpecs
    EditsFrom <- MultiEdits
    Forward <- MultiForward
    HasFinalizer = TRUE
    EditsDuringUpgrade = TRUE
    StatusBetweenReads = TRUE
    LongLag = FALSE
    FaultKinds = {"checkpoint", "replica", "error"}
    MaxEdits = 2
    MaxCrashes = 1
    MaxFaults = 1
INVARIANTS RestMeansApplied NoStalledUpgrade RestInv MainInv
PROPERTIES SecondariesFollowMain UpgradeProtocolImplemented
CHECK_DEADLOCK FALSE
