SPECIFICATION Spec
CONSTANTS
    Images = {i1, i2}
    ServiceNames = {svc1}
    NoService = NoService
    NoSts = NoSts
    NoPod = NoPod
    NoTC = NoTC
    Main = Main
    Replica = Replica
    s1 = s1
    i1 = i1
    i2 = i2
    svc1 = svc1
    Secondaries = {s1}
    StaleReads = TRUE
    InitSpecs <- SingleOld
    Specs <- GrowingSpecs
    EditsFrom <- GrowingEdits
    Forward = {}
    HasFinalizer = TRUE
    EditsDuringUpgrade = TRUE
    StatusBetweenReads = TRUE
    LongLag = FALSE
    FaultKinds = {"read"}
    MaxEdits = 1
    MaxCrashes = 1
    MaxFaults = 0
PROPERTIES MainChangeCovered
CHECK_DEADLOCK FALSE
