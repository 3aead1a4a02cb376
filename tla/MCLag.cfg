SPECIFICATION Spec
CONSTANTS
    Images = {i1, i2}
    ServiceNames = {svc1}
    NoService = NoService
    NoSts = NoSts
    NoPod = NoPod
    NoTC = NoTC
    Main = Main
    Replica = Replica
    s1 = s1
    i1 = i1
    i2 = i2
    svc1 = svc1
    Secondaries = {}
    StaleReads = TRUE
    InitSpecs <- SingleOld
    Specs <- SingleSpecs
    EditsFrom <- SingleEdits
    Forward = {}
    HasFinalizer = TRUE
    EditsDuringUpgrade = TRUE
    StatusBetweenReads = TRUE
    LongLag = TRUE
    FaultKinds = {"checkpoint"}
    MaxEdits = 1
    MaxCrashes = 0
    MaxFaults = 1
INVARIANTS UpgradeInv
PROPERTIES UpgradeProtocolImplemented
CHECK_DEADLOCK FALSE
